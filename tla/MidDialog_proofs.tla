-------------------------- MODULE MidDialog_proofs --------------------------
(***************************************************************************)
(* Theorems about MidDialog, for any calls and number of requests: a call  *)
(* that its BYE has ended is silent; the receiver thread ends only after a *)
(* hang-up, when the ACK of the INVITE is overtaken, or when another call  *)
(* has begun; and the sound of a call whose requests arrive in order goes  *)
(* where the INVITE acknowledged last asks for.                            *)
(***************************************************************************)
EXTENDS MidDialog, SequenceTheorems, TLAPS

(* The requests on their way are numbered as they were sent.               *)
RequestOf(c, r) ==
  /\ r.call = c
  /\ r.cseq <= cseq[c]
  /\ r.kind = "ACK" => r.cseq \in acked[c]
  /\ r.kind = "INVITE" => r.cseq \in invites[c]
  /\ r.kind \in {"OPTIONS", "BYE"} => r.cseq \notin invites[c]

Sent ==
  \A c \in Calls :
    /\ acked[c] \subseteq invites[c]
    /\ \A n \in invites[c] : n <= cseq[c]
    /\ 1 \in invites[c] \ acked[c] => invites[c] = {1}
    /\ \A i \in 1 .. Len(chan[c]) : RequestOf(c, chan[c][i])

(* Nothing happens in a call before it is accepted.                        *)
Fresh ==
  \A c \in Calls :
    dialog[c] \in {"INIT", "EARLY"} =>
      /\ chan[c] = <<>> /\ agreed[c] = EmptyCSeq /\ ~hungUp[c]
      /\ acked[c] = {}
      /\ invites[c] = IF dialog[c] = "INIT" THEN {} ELSE {1}
      /\ \A n \in CSeqs : told[c][n] = {} /\ answer[c][n] = 0

(* An INVITE with an offer that was answered with 200 has left its         *)
(* destination, or a later INVITE has.                                     *)
Answers ==
  \A c \in Calls, n \in CSeqs :
    /\ n > cseq[c] => told[c][n] = {} /\ answer[c][n] = 0
    /\ n \in acked[c] \/ 200 \in told[c][n] \/ 500 \in told[c][n]
         => answer[c][n] = 200
    /\ n \in invites[c] \ late[c] /\ (answer[c][n] = 200 \/ 200 \in told[c][n])
         => dest # Nowhere

(* Requests in order: the ACK of the INVITE comes first.                   *)
AckIsFirst ==
  \A c \in Calls :
    /\ 1 \in invites[c] /\ agreed[c] = EmptyCSeq /\ ~overtaken[c]
    /\ fatal = NoRequest /\ dialog[c] # "TERMINATED"
    => IF 1 \in acked[c] THEN chan[c] # <<>> /\ chan[c][1] = Req(c, "ACK", 1)
                         ELSE chan[c] = <<>>

(* The shared fields, as long as there is one call.                        *)
OneCall ==
  \A c \in Calls :
    Alone(c) =>
      /\ dialog[c] = "EARLY" => initial
      /\ dialog[c] = "CONFIRMED" /\ session = Off /\ ~hungUp[c] =>
           /\ 1 \in invites[c] /\ agreed[c] = EmptyCSeq
           /\ ~initial /\ fatal = NoRequest => overtaken[c]

IInv ==
  /\ TypeOK /\ Sent /\ Fresh /\ Answers /\ AckIsFirst /\ OneCall
  /\ SilentAfterBye /\ ReceiverDiesExplained

-----------------------------------------------------------------------------
LEMMA Numbers ==
  /\ 1 \in CSeqs /\ CSeqs \subseteq Nat /\ EmptyCSeq = 0 /\ Own = 0
  /\ EmptyCSeq \notin CSeqs
  /\ \A n \in CSeqs : n \in Nat /\ n >= 1
BY MidDialogAssumption DEF CSeqs, EmptyCSeq, Own

LEMMA Places ==
  /\ \A c \in Calls, n \in CSeqs \cup {Own} :
       <<c, n>> \in Destination /\ <<c, n>> # Nowhere
  /\ \A d \in Destination : d # Nowhere
  /\ \A s \in Session : s # Off /\ s.call \in Calls
  /\ \A c \in Calls, d \in Destination : [call |-> c, dest |-> d] \in Session
  /\ \A c \in Calls : Off.call # c
  /\ NoRequest \notin Request
BY MidDialogAssumption, Numbers
   DEF Destination, Nowhere, Session, Off, NoRequest, Request

LEMMA Requests ==
  ASSUME NEW c \in Calls, NEW kind \in Kinds, NEW n \in CSeqs
  PROVE  /\ Req(c, kind, n) \in Request
         /\ Req(c, kind, n).call = c /\ Req(c, kind, n).kind = kind
         /\ Req(c, kind, n).cseq = n
BY DEF Req, Request

(* What RemoveAt leaves of a sequence.                                     *)
LEMMA Removed ==
  ASSUME NEW S, NEW s \in Seq(S), NEW i \in 1 .. Len(s)
  PROVE  /\ RemoveAt(s, i) \in Seq(S)
         /\ \A j \in 1 .. Len(RemoveAt(s, i)) :
              \E k \in 1 .. Len(s) : RemoveAt(s, i)[j] = s[k]
<1> DEFINE a == SubSeq(s, 1, i - 1)
           b == SubSeq(s, i + 1, Len(s))
<1>0. Len(s) \in Nat /\ i \in Nat /\ \A k \in 1 .. Len(s) : s[k] \in S
  BY LenProperties, ElementOfSeq
<1>1. /\ a \in Seq(S) /\ Len(a) = i - 1
      /\ \A k \in 1 .. Len(a) : a[k] = s[k]
  <2>1. \A k \in 1 .. (i - 1) : s[k] \in S
    BY <1>0
  <2>2. i - 1 \in Int /\ 1 \in Int
    BY <1>0
  <2> HIDE DEF a
  <2>3. /\ a \in Seq(S)
        /\ Len(a) = IF 1 <= i - 1 THEN i - 1 - 1 + 1 ELSE 0
        /\ \A k \in 1 .. i - 1 - 1 + 1 : a[k] = s[1 + k - 1]
    BY <2>1, <2>2, SubSeqProperties DEF a
  <2> QED BY <2>3, <1>0
<1>2. /\ b \in Seq(S) /\ Len(b) = Len(s) - i
      /\ \A k \in 1 .. Len(b) : b[k] = s[i + k]
  <2>1. \A k \in (i + 1) .. Len(s) : s[k] \in S
    BY <1>0
  <2>2. i + 1 \in Int /\ Len(s) \in Int
    BY <1>0
  <2> HIDE DEF b
  <2>3. /\ b \in Seq(S)
        /\ Len(b) = IF i + 1 <= Len(s) THEN Len(s) - (i + 1) + 1 ELSE 0
        /\ \A k \in 1 .. Len(s) - (i + 1) + 1 : b[k] = s[i + 1 + k - 1]
    BY <2>1, <2>2, SubSeqProperties DEF b
  <2> QED BY <2>3, <1>0
<1>3. RemoveAt(s, i) = a \o b
  BY DEF RemoveAt
<1> HIDE DEF a, b
<1>4. /\ a \o b \in Seq(S)
      /\ Len(a \o b) = Len(a) + Len(b)
      /\ \A k \in 1 .. Len(a) + Len(b) :
           (a \o b)[k] = IF k <= Len(a) THEN a[k] ELSE b[k - Len(a)]
  BY <1>1, <1>2, ConcatProperties
<1>5. ASSUME NEW j \in 1 .. Len(a \o b)
      PROVE  \E k \in 1 .. Len(s) : (a \o b)[j] = s[k]
  <2>1. CASE j <= Len(a)
    <3>1. j \in 1 .. Len(s) /\ (a \o b)[j] = s[j]
      BY <2>1, <1>0, <1>1, <1>2, <1>4
    <3> QED BY <3>1
  <2>2. CASE ~(j <= Len(a))
    <3>1. j - Len(a) \in 1 .. Len(b) /\ (a \o b)[j] = b[j - Len(a)]
      BY <2>2, <1>0, <1>1, <1>2, <1>4
    <3>2. i + (j - Len(a)) \in 1 .. Len(s) /\ (a \o b)[j] = s[i + (j - Len(a))]
      BY <3>1, <1>0, <1>1, <1>2
    <3> QED BY <3>2
  <2> QED BY <2>1, <2>2
<1> QED BY <1>3, <1>4, <1>5

(* What Append leaves.                                                     *)
LEMMA Appended ==
  ASSUME NEW S, NEW s \in Seq(S), NEW e \in S
  PROVE  /\ Append(s, e) \in Seq(S) /\ Append(s, e) # <<>>
         /\ Len(Append(s, e)) = Len(s) + 1 /\ Len(s) \in Nat
         /\ \A j \in 1 .. Len(s) : Append(s, e)[j] = s[j]
         /\ Append(s, e)[Len(s) + 1] = e
         /\ s # <<>> => Append(s, e)[1] = s[1]
BY AppendProperties, LenProperties, EmptySeq

-----------------------------------------------------------------------------
(* Steps that leave what was answered alone.                               *)
LEMMA AnswersFrame ==
  ASSUME Answers, NEW c \in Calls, NEW n \in CSeqs,
         answer'[c][n] = answer[c][n], told'[c][n] = told[c][n],
         n \in acked'[c] => n \in acked[c] \/ 200 \in told[c][n],
         n > cseq'[c] => n > cseq[c],
         dest # Nowhere => dest' # Nowhere,
         n \in invites'[c] \ late'[c] => n \in invites[c] \ late[c] \/ (told[c][n] = {} /\ answer[c][n] = 0)
  PROVE  /\ n > cseq'[c] => told'[c][n] = {} /\ answer'[c][n] = 0
         /\ n \in acked'[c] \/ 200 \in told'[c][n] \/ 500 \in told'[c][n]
                           => answer'[c][n] = 200
         /\ n \in invites'[c] \ late'[c] /\ (answer'[c][n] = 200 \/ 200 \in told'[c][n])
              => dest' # Nowhere
BY DEF Answers

LEMMA InitInv == Init => IInv
<1> SUFFICES ASSUME Init PROVE IInv
  OBVIOUS
<1> USE Numbers
<1>1. TypeOK
  <2>1. <<>> \in Seq(Request)
    BY EmptySeq
  <2>2. chan \in [Calls -> Seq(Request)]
    BY <2>1 DEF Init
  <2>3. /\ answer \in [Calls -> [CSeqs -> {0, 200}]]
        /\ told \in [Calls -> [CSeqs -> SUBSET {200, 500}]]
    BY DEF Init
  <2>4. /\ dialog \in [Calls -> {"INIT", "EARLY", "CONFIRMED", "TERMINATED"}]
        /\ remote \in [Calls -> CSeqs \cup {EmptyCSeq}]
        /\ initial \in BOOLEAN /\ dest \in Destination \cup {Nowhere}
        /\ session \in Session \cup {Off} /\ fatal \in Request \cup {NoRequest}
    BY DEF Init
  <2>5. /\ hungUp \in [Calls -> BOOLEAN] /\ overtaken \in [Calls -> BOOLEAN]
        /\ agreed \in [Calls -> CSeqs \cup {EmptyCSeq}]
        /\ cseq \in [Calls -> CSeqs] /\ invites \in [Calls -> SUBSET CSeqs]
        /\ late \in [Calls -> SUBSET CSeqs] /\ acked \in [Calls -> SUBSET CSeqs]
    BY DEF Init
  <2> QED BY <2>2, <2>3, <2>4, <2>5 DEF TypeOK
<1>2. Sent
  <2>1. \A c \in Calls : Len(chan[c]) = 0
    BY EmptySeq DEF Init
  <2> QED BY <2>1 DEF Init, Sent
<1>3. Fresh /\ Answers /\ AckIsFirst
  BY DEF Init, Fresh, Answers, AckIsFirst
<1>4. OneCall /\ SilentAfterBye /\ ReceiverDiesExplained
  BY DEF Init, OneCall, SilentAfterBye, ReceiverDiesExplained
<1> QED BY <1>1, <1>2, <1>3, <1>4 DEF IInv

LEMMA LateFrame ==
  ASSUME TypeOK, NEW c \in Calls, NEW n \in CSeqs,
         LateChoice(c, n) \/ UNCHANGED late
  PROVE  /\ late' \in [Calls -> SUBSET CSeqs]
         /\ \A d \in Calls : late[d] \subseteq late'[d]
         /\ \A d \in Calls \ {c} : late'[d] = late[d]
<1>1. late \in [Calls -> SUBSET CSeqs]
  BY DEF TypeOK
<1>2. CASE UNCHANGED late
  BY <1>1, <1>2
<1>3. CASE late' = [late EXCEPT ![c] = @ \cup {n}]
  BY <1>1, <1>3
<1> QED BY <1>2, <1>3 DEF LateChoice

LEMMA RingInv ==
  ASSUME IInv, NEW c \in Calls, Ring(c)
  PROVE  IInv'
<1> USE Numbers
<1>0. /\ dialog[c] = "INIT" /\ fatal = NoRequest /\ chan[c] = <<>>
      /\ agreed[c] = EmptyCSeq /\ acked[c] = {} /\ Len(chan[c]) = 0
      /\ \A n \in CSeqs : told[c][n] = {} /\ answer[c][n] = 0
      /\ \A d \in Calls \ {c} : dialog'[d] = dialog[d] /\ invites'[d] = invites[d] /\ late'[d] = late[d]
      /\ dialog'[c] = "EARLY" /\ invites'[c] = {1}
  <2>1. /\ dialog[c] = "INIT" /\ fatal = NoRequest
    BY DEF Ring
  <2>2. /\ chan[c] = <<>> /\ agreed[c] = EmptyCSeq /\ acked[c] = {}
        /\ \A n \in CSeqs : told[c][n] = {} /\ answer[c][n] = 0
    BY <2>1 DEF IInv, Fresh
  <2>3. /\ \A d \in Calls \ {c} : dialog'[d] = dialog[d] /\ invites'[d] = invites[d] /\ late'[d] = late[d]
        /\ dialog'[c] = "EARLY" /\ invites'[c] = {1}
    <3>1. \A d \in Calls \ {c} : late'[d] = late[d]
      BY LateFrame DEF Ring, IInv
    <3>2. /\ \A d \in Calls \ {c} : dialog'[d] = dialog[d] /\ invites'[d] = invites[d]
          /\ dialog'[c] = "EARLY" /\ invites'[c] = {1}
      BY DEF Ring, IInv, TypeOK
    <3> QED BY <3>1, <3>2
  <2> QED BY <2>1, <2>2, <2>3, EmptySeq
<1>1. TypeOK'
  <2>1. late' \in [Calls -> SUBSET CSeqs]
    BY LateFrame DEF Ring, IInv
  <2>2. invites' \in [Calls -> SUBSET CSeqs]
    BY DEF Ring, IInv, TypeOK
  <2> QED BY <2>1, <2>2 DEF Ring, IInv, TypeOK
<1>2. Sent'
  <2> SUFFICES ASSUME NEW d \in Calls
               PROVE  /\ acked'[d] \subseteq invites'[d]
                      /\ \A n \in invites'[d] : n <= cseq'[d]
                      /\ 1 \in invites'[d] \ acked'[d] => invites'[d] = {1}
                      /\ \A i \in 1 .. Len(chan'[d]) : RequestOf(d, chan[d][i])'
    BY DEF Sent
  <2>1. CASE d = c
    BY <2>1, <1>0 DEF Ring, IInv, TypeOK, CSeqs
  <2>2. CASE d # c
    BY <2>2, <1>0 DEF Ring, IInv, Sent, RequestOf
  <2> QED BY <2>1, <2>2
<1>3. Fresh'
  BY <1>0 DEF Ring, IInv, Fresh
<1>4. Answers'
  <2> SUFFICES ASSUME NEW d \in Calls, NEW n \in CSeqs
               PROVE  /\ n > cseq'[d] => told'[d][n] = {} /\ answer'[d][n] = 0
                      /\ n \in acked'[d] \/ 200 \in told'[d][n] \/ 500 \in told'[d][n]
                           => answer'[d][n] = 200
                      /\ n \in invites'[d] \ late'[d] /\ (answer'[d][n] = 200 \/ 200 \in told'[d][n])
                           => dest' # Nowhere
    BY DEF Answers
  <2>1. CASE d = c
    BY <2>1, <1>0 DEF Ring
  <2>2. CASE d # c
    BY <2>2, <1>0 DEF Ring, IInv, Answers
  <2> QED BY <2>1, <2>2
<1>5. AckIsFirst'
  <2> SUFFICES ASSUME NEW d \in Calls,
                      1 \in invites'[d], agreed'[d] = EmptyCSeq, ~overtaken'[d],
                      fatal' = NoRequest, dialog'[d] # "TERMINATED"
               PROVE  IF 1 \in acked'[d]
                        THEN chan'[d] # <<>> /\ chan'[d][1] = Req(d, "ACK", 1)
                        ELSE chan'[d] = <<>>
    BY DEF AckIsFirst
  <2>1. CASE d = c
    BY <2>1, <1>0 DEF Ring
  <2>2. CASE d # c
    BY <2>2, <1>0 DEF Ring, IInv, AckIsFirst
  <2> QED BY <2>1, <2>2
<1>6. OneCall'
  <2> SUFFICES ASSUME NEW d \in Calls, Alone(d)'
               PROVE  /\ dialog'[d] = "EARLY" => initial'
                      /\ dialog'[d] = "CONFIRMED" /\ session' = Off /\ ~hungUp'[d] =>
                           /\ 1 \in invites'[d] /\ agreed'[d] = EmptyCSeq
                           /\ ~initial' /\ fatal' = NoRequest => overtaken'[d]
    BY DEF OneCall
  <2>1. d = c
    BY <1>0 DEF Alone
  <2> QED BY <2>1, <1>0 DEF Ring
<1>7. SilentAfterBye' /\ ReceiverDiesExplained'
  BY <1>0 DEF Ring, IInv, SilentAfterBye, ReceiverDiesExplained
<1> QED BY <1>1, <1>2, <1>3, <1>4, <1>5, <1>6, <1>7 DEF IInv

LEMMA AcceptCallInv ==
  ASSUME IInv, NEW c \in Calls, AcceptCall(c)
  PROVE  IInv'
<1> USE Numbers
<1>0. /\ dialog[c] = "EARLY" /\ chan[c] = <<>> /\ agreed[c] = EmptyCSeq
      /\ invites[c] = {1} /\ acked[c] = {} /\ ~hungUp[c]
      /\ \A n \in CSeqs : told[c][n] = {} /\ answer[c][n] = 0
      /\ \A d \in Calls \ {c} : /\ dialog'[d] = dialog[d] /\ told'[d] = told[d]
                                /\ answer'[d] = answer[d]
      /\ dialog'[c] = "CONFIRMED"
      /\ \A n \in CSeqs : n # 1 => told'[c][n] = {} /\ answer'[c][n] = 0
      /\ told'[c][1] = {200} /\ answer'[c][1] = 200
      /\ 1 <= cseq[c]
  <2>1. dialog[c] = "EARLY"
    BY DEF AcceptCall
  <2>2. /\ chan[c] = <<>> /\ agreed[c] = EmptyCSeq /\ ~hungUp[c]
        /\ invites[c] = {1} /\ acked[c] = {}
        /\ \A n \in CSeqs : told[c][n] = {} /\ answer[c][n] = 0
    BY <2>1 DEF IInv, Fresh, Sent
  <2>3. 1 <= cseq[c]
    BY DEF IInv, TypeOK, CSeqs
  <2>4. /\ \A d \in Calls \ {c} : /\ dialog'[d] = dialog[d] /\ told'[d] = told[d]
                                  /\ answer'[d] = answer[d]
        /\ dialog'[c] = "CONFIRMED"
    BY DEF AcceptCall, IInv, TypeOK
  <2>5. /\ told'[c] = [told[c] EXCEPT ![1] = {200}]
        /\ answer'[c] = [answer[c] EXCEPT ![1] = 200]
    BY DEF AcceptCall, IInv, TypeOK
  <2>6. /\ told[c] \in [CSeqs -> SUBSET {200, 500}]
        /\ answer[c] \in [CSeqs -> {0, 200}]
    BY DEF IInv, TypeOK
  <2>7. /\ \A n \in CSeqs : n # 1 => told'[c][n] = {} /\ answer'[c][n] = 0
        /\ told'[c][1] = {200} /\ answer'[c][1] = 200
    <3>1. /\ \A n \in CSeqs : told'[c][n] = IF n = 1 THEN {200} ELSE told[c][n]
          /\ \A n \in CSeqs : answer'[c][n] = IF n = 1 THEN 200 ELSE answer[c][n]
      BY <2>5, <2>6
    <3> QED BY <2>2, <3>1
  <2> QED BY <2>1, <2>2, <2>3, <2>4, <2>7
<1>1. TypeOK'
  <2>1. dest' \in Destination \cup {Nowhere}
    BY Places DEF AcceptCall, IInv, TypeOK
  <2>2. answer' \in [Calls -> [CSeqs -> {0, 200}]]
    BY DEF AcceptCall, IInv, TypeOK
  <2>3. told' \in [Calls -> [CSeqs -> SUBSET {200, 500}]]
    BY DEF AcceptCall, IInv, TypeOK
  <2> QED BY <2>1, <2>2, <2>3 DEF AcceptCall, IInv, TypeOK, peerVars
<1>2. Sent'
  BY DEF AcceptCall, IInv, Sent, RequestOf, peerVars
<1>3. Fresh'
  BY <1>0 DEF AcceptCall, IInv, Fresh, peerVars
<1>4. Answers'
  <2> SUFFICES ASSUME NEW d \in Calls, NEW n \in CSeqs
               PROVE  /\ n > cseq'[d] => told'[d][n] = {} /\ answer'[d][n] = 0
                      /\ n \in acked'[d] \/ 200 \in told'[d][n] \/ 500 \in told'[d][n]
                           => answer'[d][n] = 200
                      /\ n \in invites'[d] \ late'[d] /\ (answer'[d][n] = 200 \/ 200 \in told'[d][n])
                           => dest' # Nowhere
    BY DEF Answers
  <2>1. CASE d = c
    <3>1. n = 1 /\ 1 \notin late[c] => dest' # Nowhere
      BY Places DEF AcceptCall
    <3>2. cseq' = cseq /\ invites' = invites /\ late' = late /\ acked' = acked
      BY DEF AcceptCall, peerVars
    <3>3. cseq[c] \in Nat /\ n \in Nat
      BY DEF IInv, TypeOK
    <3> QED BY <2>1, <3>1, <3>2, <3>3, <1>0
  <2>2. CASE d # c
    <3>1. dest # Nowhere => dest' # Nowhere
      BY Places DEF AcceptCall
    <3> QED BY <2>2, <3>1, <1>0 DEF AcceptCall, IInv, Answers, peerVars
  <2> QED BY <2>1, <2>2
<1>5. AckIsFirst'
  <2> QED BY <1>0 DEF AcceptCall, IInv, AckIsFirst, peerVars
<1>6. OneCall'
  <2> SUFFICES ASSUME NEW d \in Calls, Alone(d)'
               PROVE  /\ dialog'[d] = "EARLY" => initial'
                      /\ dialog'[d] = "CONFIRMED" /\ session' = Off /\ ~hungUp'[d] =>
                           /\ 1 \in invites'[d] /\ agreed'[d] = EmptyCSeq
                           /\ ~initial' /\ fatal' = NoRequest => overtaken'[d]
    BY DEF OneCall
  <2>1. d = c
    BY <1>0 DEF Alone
  <2>2. Alone(c) /\ initial
    BY <2>1, <1>0 DEF Alone, IInv, OneCall
  <2> QED BY <2>1, <2>2, <1>0 DEF AcceptCall, peerVars
<1>7. SilentAfterBye' /\ ReceiverDiesExplained'
  BY <1>0 DEF AcceptCall, IInv, SilentAfterBye, ReceiverDiesExplained, Alone
<1> QED BY <1>1, <1>2, <1>3, <1>4, <1>5, <1>6, <1>7 DEF IInv

LEMMA AnsweredInv ==
  ASSUME IInv, NEW c \in Calls, Answered(c)
  PROVE  IInv'
<1> USE Numbers
<1>0. /\ dialog[c] = "INIT" /\ invites[c] = {}
      /\ \A d \in Calls \ {c} : dialog'[d] = dialog[d]
      /\ dialog'[c] = "CONFIRMED"
      /\ dest' # Nowhere /\ session' # Off /\ session'.call = c
  <2>1. dialog[c] = "INIT" /\ invites[c] = {}
    BY DEF Answered, IInv, Fresh
  <2>2. /\ \A d \in Calls \ {c} : dialog'[d] = dialog[d]
        /\ dialog'[c] = "CONFIRMED"
    BY DEF Answered, IInv, TypeOK
  <2>3. dest' # Nowhere /\ session' # Off /\ session'.call = c
    BY Places DEF Answered
  <2> QED BY <2>1, <2>2, <2>3
<1>1. TypeOK'
  <2>1. dest' \in Destination /\ session' \in Session
    BY Places DEF Answered
  <2> QED BY <2>1 DEF Answered, IInv, TypeOK, peerVars
<1>2. Sent'
  BY DEF Answered, IInv, Sent, RequestOf, peerVars
<1>3. Fresh'
  BY <1>0 DEF Answered, IInv, Fresh, peerVars
<1>4. Answers'
  <2>1. UNCHANGED <<answer, told, acked, cseq, invites, late>>
    BY DEF Answered, peerVars
  <2>2. Answers
    BY DEF IInv
  <2> SUFFICES ASSUME NEW d \in Calls, NEW m \in CSeqs
               PROVE  /\ m > cseq'[d] => told'[d][m] = {} /\ answer'[d][m] = 0
                      /\ m \in acked'[d] \/ 200 \in told'[d][m] \/ 500 \in told'[d][m]
                           => answer'[d][m] = 200
                      /\ m \in invites'[d] \ late'[d] /\ (answer'[d][m] = 200 \/ 200 \in told'[d][m])
                           => dest' # Nowhere
    BY DEF Answers
  <2>3. /\ answer'[d][m] = answer[d][m] /\ told'[d][m] = told[d][m]
        /\ m \in acked'[d] => m \in acked[d] \/ 200 \in told[d][m]
        /\ m > cseq'[d] => m > cseq[d]
        /\ dest # Nowhere => dest' # Nowhere
        /\ m \in invites'[d] \ late'[d] => m \in invites[d] \ late[d] \/ (told[d][m] = {} /\ answer[d][m] = 0)
    BY <1>0, <2>1
  <2> QED BY <2>2, <2>3, AnswersFrame
<1>5. AckIsFirst'
  BY <1>0 DEF Answered, IInv, AckIsFirst, peerVars
<1>6. OneCall'
  <2> SUFFICES ASSUME NEW d \in Calls, Alone(d)'
               PROVE  /\ dialog'[d] = "EARLY" => initial'
                      /\ dialog'[d] = "CONFIRMED" /\ session' = Off /\ ~hungUp'[d] =>
                           /\ 1 \in invites'[d] /\ agreed'[d] = EmptyCSeq
                           /\ ~initial' /\ fatal' = NoRequest => overtaken'[d]
    BY DEF OneCall
  <2>1. d = c
    BY <1>0 DEF Alone
  <2> QED BY <2>1, <1>0
<1>7. SilentAfterBye' /\ ReceiverDiesExplained'
  <2>1. SilentAfterBye'
    BY <1>0 DEF Answered, IInv, SilentAfterBye
  <2>2. ReceiverDiesExplained'
    BY DEF Answered, IInv, ReceiverDiesExplained
  <2> QED BY <2>1, <2>2
<1> QED BY <1>1, <1>2, <1>3, <1>4, <1>5, <1>6, <1>7 DEF IInv

LEMMA PeerSendsInv ==
  ASSUME IInv, NEW c \in Calls, NEW kind \in Kinds \ {"ACK"}, PeerSends(c, kind)
  PROVE  IInv'
<1> USE Numbers
<1> DEFINE n == cseq[c] + 1
<1>0. /\ dialog[c] = "CONFIRMED" /\ n \in CSeqs /\ cseq[c] \in CSeqs /\ n # 1
      /\ Req(c, kind, n) \in Request
      /\ chan'[c] = Append(chan[c], Req(c, kind, n))
      /\ cseq'[c] = n
      /\ invites'[c] = IF kind = "INVITE" THEN invites[c] \cup {n} ELSE invites[c]
      /\ 1 \in invites[c] => 1 \in acked[c]
      /\ n \in Nat /\ cseq[c] \in Nat /\ cseq[c] < n
      /\ n \notin invites[c] /\ \A m \in invites[c] : m <= n
      /\ \A d \in Calls \ {c} : /\ chan'[d] = chan[d] /\ cseq'[d] = cseq[d]
                                /\ invites'[d] = invites[d]
  <2>0. /\ dialog[c] = "CONFIRMED" /\ n \in CSeqs
        /\ 1 \in invites[c] => 1 \in acked[c]
    BY DEF PeerSends
  <2>4. cseq[c] \in CSeqs /\ invites[c] \subseteq CSeqs
    BY DEF IInv, TypeOK
  <2>1. /\ dialog[c] = "CONFIRMED" /\ n \in CSeqs /\ cseq[c] \in CSeqs /\ n # 1
        /\ 1 \in invites[c] => 1 \in acked[c]
        /\ n \in Nat /\ cseq[c] \in Nat /\ cseq[c] < n
    <3>1. cseq[c] \in Nat /\ cseq[c] >= 1 /\ n \in Nat
      BY <2>0, <2>4
    <3>2. n # 1 /\ cseq[c] < n
      BY <3>1
    <3> QED BY <2>0, <2>4, <3>1, <3>2
  <2>5. \A m \in invites[c] : m <= cseq[c] /\ m \in Nat
    BY <2>4 DEF IInv, Sent
  <2>6. n \notin invites[c] /\ \A m \in invites[c] : m <= n
    BY <2>5, <2>1
  <2>2. Req(c, kind, n) \in Request
    BY <2>1, Requests
  <2>7. /\ chan \in [Calls -> Seq(Request)] /\ cseq \in [Calls -> CSeqs]
        /\ invites \in [Calls -> SUBSET CSeqs]
    BY DEF IInv, TypeOK
  <2>8. /\ chan' = [chan EXCEPT ![c] = Append(@, Req(c, kind, n))]
        /\ cseq' = [cseq EXCEPT ![c] = n]
        /\ invites' = [invites EXCEPT ![c] = IF kind = "INVITE" THEN @ \cup {n} ELSE @]
    BY DEF PeerSends
  <2> HIDE DEF n
  <2>9. /\ chan'[c] = Append(chan[c], Req(c, kind, n))
        /\ cseq'[c] = n
        /\ invites'[c] = IF kind = "INVITE" THEN invites[c] \cup {n} ELSE invites[c]
        /\ \A d \in Calls \ {c} : /\ chan'[d] = chan[d] /\ cseq'[d] = cseq[d]
                                  /\ invites'[d] = invites[d]
    BY <2>7, <2>8
  <2> QED BY <2>1, <2>2, <2>6, <2>9
<1>a. /\ late' \in [Calls -> SUBSET CSeqs]
      /\ \A d \in Calls : late[d] \subseteq late'[d]
  <2>1. LateChoice(c, n) \/ UNCHANGED late
    BY DEF PeerSends
  <2> QED BY <2>1, <1>0, LateFrame DEF IInv
<1>b. UNCHANGED <<dialogVars, mediaVars, hungUp, agreed, overtaken, fatal, acked>>
  BY DEF PeerSends
<1>c. chan[c] \in Seq(Request)
  BY DEF IInv, TypeOK
<1>d. /\ chan'[c] \in Seq(Request) /\ chan'[c] # <<>> /\ Len(chan[c]) \in Nat
      /\ Len(chan'[c]) = Len(chan[c]) + 1
      /\ \A j \in 1 .. Len(chan[c]) : chan'[c][j] = chan[c][j]
      /\ chan'[c][Len(chan[c]) + 1] = Req(c, kind, n)
      /\ chan[c] # <<>> => chan'[c][1] = chan[c][1]
  BY <1>0, <1>c, Appended
<1> HIDE DEF n
<1>1. TypeOK'
  <2>1. late' \in [Calls -> SUBSET CSeqs]
    BY <1>a
  <2>2. invites' \in [Calls -> SUBSET CSeqs] /\ cseq' \in [Calls -> CSeqs]
    BY <1>0 DEF PeerSends, IInv, TypeOK, n
  <2>3. chan' \in [Calls -> Seq(Request)]
    BY <1>0, <1>d DEF PeerSends, IInv, TypeOK, n
  <2> QED BY <2>1, <2>2, <2>3, <1>b DEF IInv, TypeOK, dialogVars, mediaVars
<1>2. Sent'
  <2> SUFFICES ASSUME NEW d \in Calls
               PROVE  /\ acked'[d] \subseteq invites'[d]
                      /\ \A m \in invites'[d] : m <= cseq'[d]
                      /\ 1 \in invites'[d] \ acked'[d] => invites'[d] = {1}
                      /\ \A i \in 1 .. Len(chan'[d]) : RequestOf(d, chan[d][i])'
    BY DEF Sent
  <2>1. CASE d = c
    <3>1. /\ acked'[c] \subseteq invites'[c]
          /\ \A m \in invites'[c] : m <= cseq'[c]
          /\ 1 \in invites'[c] \ acked'[c] => invites'[c] = {1}
      BY <1>0, <1>b DEF IInv, Sent
    <3>2. ASSUME NEW i \in 1 .. Len(chan'[c]) PROVE RequestOf(c, chan[c][i])'
      <4>1. CASE i \in 1 .. Len(chan[c])
        <5>1. chan'[c][i] = chan[c][i] /\ RequestOf(c, chan[c][i]) /\ chan[c][i] \in Request
          BY <4>1, <1>d, <1>c, ElementOfSeq DEF IInv, Sent
        <5>2. chan[c][i].cseq \in Nat /\ chan[c][i].cseq <= cseq[c]
          BY <5>1 DEF RequestOf, Request
        <5>3. chan[c][i].cseq <= n /\ chan[c][i].cseq # n
          BY <5>2, <1>0
        <5> QED BY <5>1, <5>3, <1>0, <1>b DEF RequestOf
      <4>2. CASE i = Len(chan[c]) + 1
        <5>1. chan'[c][i] = Req(c, kind, n)
          BY <4>2, <1>d
        <5>2. chan'[c][i].call = c /\ chan'[c][i].kind = kind /\ chan'[c][i].cseq = n
          BY <5>1, <1>0, Requests
        <5>3. kind # "ACK"
          OBVIOUS
        <5> QED BY <5>2, <5>3, <1>0 DEF RequestOf
      <4> QED BY <4>1, <4>2, <1>d
    <3> QED BY <2>1, <3>1, <3>2
  <2>2. CASE d # c
    BY <2>2, <1>0, <1>b DEF IInv, Sent, RequestOf
  <2> QED BY <2>1, <2>2
<1>3. Fresh'
  BY <1>0, <1>b DEF IInv, Fresh, dialogVars
<1>4. Answers'
  <2> SUFFICES ASSUME NEW d \in Calls, NEW m \in CSeqs
               PROVE  /\ m > cseq'[d] => told'[d][m] = {} /\ answer'[d][m] = 0
                      /\ m \in acked'[d] \/ 200 \in told'[d][m] \/ 500 \in told'[d][m]
                           => answer'[d][m] = 200
                      /\ m \in invites'[d] \ late'[d] /\ (answer'[d][m] = 200 \/ 200 \in told'[d][m])
                           => dest' # Nowhere
    BY DEF Answers
  <2>0. told' = told /\ answer' = answer /\ dest' = dest /\ acked' = acked
    BY <1>b DEF dialogVars, mediaVars
  <2>3. Answers
    BY DEF IInv
  <2>1. CASE d = c
    <3>1. /\ m > cseq'[c] => m > cseq[c]
          /\ n > cseq[c]
      <4>1. m \in Nat /\ n \in Nat /\ cseq[c] \in Nat /\ cseq[c] < n /\ cseq'[c] = n
        BY <1>0
      <4> QED BY <4>1
    <3>2. told[c][n] = {} /\ answer[c][n] = 0
      BY <3>1, <1>0 DEF IInv, Answers
    <3>3. m \in invites'[c] \ late'[c] => m \in invites[c] \ late[c] \/ (told[c][m] = {} /\ answer[c][m] = 0)
      BY <3>2, <1>0, <1>a
    <3>4. /\ answer'[d][m] = answer[d][m] /\ told'[d][m] = told[d][m]
          /\ m \in acked'[d] => m \in acked[d] \/ 200 \in told[d][m]
          /\ m > cseq'[d] => m > cseq[d]
          /\ dest # Nowhere => dest' # Nowhere
          /\ m \in invites'[d] \ late'[d] => m \in invites[d] \ late[d] \/ (told[d][m] = {} /\ answer[d][m] = 0)
      BY <2>1, <2>0, <3>1, <3>3
    <3> QED BY <2>3, <3>4, AnswersFrame
  <2>2. CASE d # c
    <3>1. invites'[d] = invites[d] /\ cseq'[d] = cseq[d] /\ late[d] \subseteq late'[d]
      BY <2>2, <1>0, <1>a
    <3>2. /\ answer'[d][m] = answer[d][m] /\ told'[d][m] = told[d][m]
          /\ m \in acked'[d] => m \in acked[d] \/ 200 \in told[d][m]
          /\ m > cseq'[d] => m > cseq[d]
          /\ dest # Nowhere => dest' # Nowhere
          /\ m \in invites'[d] \ late'[d] => m \in invites[d] \ late[d] \/ (told[d][m] = {} /\ answer[d][m] = 0)
      BY <2>0, <3>1
    <3> QED BY <2>3, <3>2, AnswersFrame
  <2> QED BY <2>1, <2>2
<1>5. AckIsFirst'
  <2> SUFFICES ASSUME NEW d \in Calls,
                      1 \in invites'[d], agreed'[d] = EmptyCSeq, ~overtaken'[d],
                      fatal' = NoRequest, dialog'[d] # "TERMINATED"
               PROVE  IF 1 \in acked'[d]
                        THEN chan'[d] # <<>> /\ chan'[d][1] = Req(d, "ACK", 1)
                        ELSE chan'[d] = <<>>
    BY DEF AckIsFirst
  <2>1. CASE d = c
    <3>1. 1 \in invites[c] /\ 1 \in acked[c]
      BY <2>1, <1>0
    <3>2. chan[c] # <<>> /\ chan[c][1] = Req(c, "ACK", 1)
      BY <2>1, <3>1, <1>b DEF IInv, AckIsFirst, dialogVars
    <3> QED BY <2>1, <3>1, <3>2, <1>d, <1>b
  <2>2. CASE d # c
    BY <2>2, <1>0, <1>b DEF IInv, AckIsFirst, dialogVars
  <2> QED BY <2>1, <2>2
<1>6. OneCall'
  BY <1>0, <1>b DEF IInv, OneCall, Alone, dialogVars, mediaVars
<1>7. SilentAfterBye' /\ ReceiverDiesExplained'
  BY <1>b DEF IInv, SilentAfterBye, ReceiverDiesExplained, Alone, dialogVars, mediaVars
<1> QED BY <1>1, <1>2, <1>3, <1>4, <1>5, <1>6, <1>7 DEF IInv

LEMMA PeerAcksInv ==
  ASSUME IInv, NEW c \in Calls, NEW n \in CSeqs, PeerAcks(c, n)
  PROVE  IInv'
<1> USE Numbers
<1>0. /\ n \in invites[c] /\ n \notin acked[c] /\ 200 \in told[c][n]
      /\ dialog[c] \notin {"INIT", "EARLY"}
      /\ Req(c, "ACK", n) \in Request
      /\ chan'[c] = Append(chan[c], Req(c, "ACK", n))
      /\ acked'[c] = acked[c] \cup {n}
      /\ \A d \in Calls \ {c} : chan'[d] = chan[d] /\ acked'[d] = acked[d]
  <2>1. n \in invites[c] /\ n \notin acked[c] /\ 200 \in told[c][n]
    BY DEF PeerAcks
  <2>2. dialog[c] \notin {"INIT", "EARLY"}
    BY <2>1 DEF IInv, Fresh
  <2>3. Req(c, "ACK", n) \in Request
    BY Requests DEF Kinds
  <2> QED BY <2>1, <2>2, <2>3 DEF PeerAcks, IInv, TypeOK
<1>b. UNCHANGED <<dialogVars, mediaVars, hungUp, agreed, overtaken, fatal, cseq, invites, late>>
  BY DEF PeerAcks
<1>c. chan[c] \in Seq(Request)
  BY DEF IInv, TypeOK
<1>d. /\ chan'[c] \in Seq(Request) /\ chan'[c] # <<>> /\ Len(chan[c]) \in Nat
      /\ Len(chan'[c]) = Len(chan[c]) + 1
      /\ \A j \in 1 .. Len(chan[c]) : chan'[c][j] = chan[c][j]
      /\ chan'[c][Len(chan[c]) + 1] = Req(c, "ACK", n)
      /\ chan[c] # <<>> => chan'[c][1] = chan[c][1]
  BY <1>0, <1>c, Appended
<1>1. TypeOK'
  <2>1. chan' \in [Calls -> Seq(Request)] /\ acked' \in [Calls -> SUBSET CSeqs]
    <3>1. chan \in [Calls -> Seq(Request)] /\ acked \in [Calls -> SUBSET CSeqs]
      BY DEF IInv, TypeOK
    <3>2. /\ chan' = [chan EXCEPT ![c] = Append(@, Req(c, "ACK", n))]
          /\ acked' = [acked EXCEPT ![c] = @ \cup {n}]
      BY DEF PeerAcks
    <3>3. Append(chan[c], Req(c, "ACK", n)) \in Seq(Request)
      BY <1>0, <1>d
    <3> QED BY <3>1, <3>2, <3>3
  <2> QED BY <2>1, <1>b DEF IInv, TypeOK, dialogVars, mediaVars
<1>2. Sent'
  <2> SUFFICES ASSUME NEW d \in Calls
               PROVE  /\ acked'[d] \subseteq invites'[d]
                      /\ \A m \in invites'[d] : m <= cseq'[d]
                      /\ 1 \in invites'[d] \ acked'[d] => invites'[d] = {1}
                      /\ \A i \in 1 .. Len(chan'[d]) : RequestOf(d, chan[d][i])'
    BY DEF Sent
  <2>1. CASE d = c
    <3>1. /\ acked'[c] \subseteq invites'[c]
          /\ \A m \in invites'[c] : m <= cseq'[c]
          /\ 1 \in invites'[c] \ acked'[c] => invites'[c] = {1}
      BY <1>0, <1>b DEF IInv, Sent
    <3>2. ASSUME NEW i \in 1 .. Len(chan'[c]) PROVE RequestOf(c, chan[c][i])'
      <4>1. CASE i \in 1 .. Len(chan[c])
        BY <4>1, <1>d, <1>0, <1>b DEF IInv, Sent, RequestOf
      <4>2. CASE i = Len(chan[c]) + 1
        <5>2. /\ chan'[c][i].call = c /\ chan'[c][i].kind = "ACK" /\ chan'[c][i].cseq = n
          BY <4>2, <1>d, Requests DEF Kinds
        <5>3. n <= cseq'[c]
          BY <1>0, <1>b DEF IInv, Sent
        <5> QED BY <5>2, <5>3, <1>0 DEF RequestOf
      <4> QED BY <4>1, <4>2, <1>d
    <3> QED BY <2>1, <3>1, <3>2
  <2>2. CASE d # c
    BY <2>2, <1>0, <1>b DEF IInv, Sent, RequestOf
  <2> QED BY <2>1, <2>2
<1>3. Fresh'
  BY <1>0, <1>b DEF IInv, Fresh, dialogVars
<1>4. Answers'
  <2>1. UNCHANGED <<answer, told, cseq, invites, late, dest>> /\ Answers
    BY <1>b DEF IInv, dialogVars, mediaVars
  <2> SUFFICES ASSUME NEW d \in Calls, NEW m \in CSeqs
               PROVE  /\ m > cseq'[d] => told'[d][m] = {} /\ answer'[d][m] = 0
                      /\ m \in acked'[d] \/ 200 \in told'[d][m] \/ 500 \in told'[d][m]
                           => answer'[d][m] = 200
                      /\ m \in invites'[d] \ late'[d] /\ (answer'[d][m] = 200 \/ 200 \in told'[d][m])
                           => dest' # Nowhere
    BY DEF Answers
  <2>2. m \in acked'[d] => m \in acked[d] \/ 200 \in told[d][m]
    BY <1>0
  <2>3. /\ answer'[d][m] = answer[d][m] /\ told'[d][m] = told[d][m]
        /\ m \in acked'[d] => m \in acked[d] \/ 200 \in told[d][m]
        /\ m > cseq'[d] => m > cseq[d]
        /\ dest # Nowhere => dest' # Nowhere
        /\ m \in invites'[d] \ late'[d] => m \in invites[d] \ late[d] \/ (told[d][m] = {} /\ answer[d][m] = 0)
    BY <2>1, <2>2
  <2> QED BY <2>1, <2>3, AnswersFrame
<1>5. AckIsFirst'
  <2> SUFFICES ASSUME NEW d \in Calls,
                      1 \in invites'[d], agreed'[d] = EmptyCSeq, ~overtaken'[d],
                      fatal' = NoRequest, dialog'[d] # "TERMINATED"
               PROVE  IF 1 \in acked'[d]
                        THEN chan'[d] # <<>> /\ chan'[d][1] = Req(d, "ACK", 1)
                        ELSE chan'[d] = <<>>
    BY DEF AckIsFirst
  <2>1. CASE d = c
    <3>0. IF 1 \in acked[c] THEN chan[c] # <<>> /\ chan[c][1] = Req(c, "ACK", 1)
                            ELSE chan[c] = <<>>
      BY <2>1, <1>b DEF IInv, AckIsFirst, dialogVars
    <3>1. CASE 1 \in acked[c]
      BY <2>1, <3>0, <3>1, <1>d, <1>0
    <3>2. CASE 1 \notin acked[c]
      <4>1. chan[c] = <<>> /\ Len(chan[c]) = 0
        BY <3>0, <3>2, EmptySeq
      <4>2. chan'[c][1] = Req(c, "ACK", n)
        BY <4>1, <1>d
      <4>3. n = 1
        BY <2>1, <3>2, <1>0, <1>b DEF IInv, Sent
      <4> QED BY <2>1, <4>2, <4>3, <1>d, <1>0
    <3> QED BY <3>1, <3>2
  <2>2. CASE d # c
    BY <2>2, <1>0, <1>b DEF IInv, AckIsFirst, dialogVars
  <2> QED BY <2>1, <2>2
<1>6. OneCall'
  BY <1>b DEF IInv, OneCall, Alone, dialogVars, mediaVars
<1>7. SilentAfterBye' /\ ReceiverDiesExplained'
  BY <1>b DEF IInv, SilentAfterBye, ReceiverDiesExplained, Alone, dialogVars, mediaVars
<1> QED BY <1>1, <1>2, <1>3, <1>4, <1>5, <1>6, <1>7 DEF IInv

LEMMA RepeatAnswerInv ==
  ASSUME IInv, NEW c \in Calls, NEW n \in CSeqs, RepeatAnswer(c, n)
  PROVE  IInv'
<1> USE Numbers
<1>b. UNCHANGED <<dialog, remote, answer, mediaVars, hungUp, agreed, overtaken,
                  fatal, chan, peerVars>>
  BY DEF RepeatAnswer
<1>0. /\ 500 \in told[c][n] /\ answer[c][n] = 200
      /\ told'[c][n] = told[c][n] \cup {200}
      /\ \A m \in CSeqs : m # n => told'[c][m] = told[c][m]
      /\ \A d \in Calls \ {c} : told'[d] = told[d]
      /\ told' \in [Calls -> [CSeqs -> SUBSET {200, 500}]]
  <2>1. /\ 500 \in told[c][n]
        /\ told' = [told EXCEPT ![c][n] = @ \cup {answer[c][n]}]
    BY DEF RepeatAnswer
  <2>2. answer[c][n] = 200
    BY <2>1 DEF IInv, Answers
  <2>3. told \in [Calls -> [CSeqs -> SUBSET {200, 500}]]
    BY DEF IInv, TypeOK
  <2> QED BY <2>1, <2>2, <2>3
<1>1. TypeOK'
  BY <1>0, <1>b DEF IInv, TypeOK, mediaVars, peerVars
<1>2. Sent'
  BY <1>b DEF IInv, Sent, RequestOf, peerVars
<1>3. Fresh'
  <2>1. dialog[c] \notin {"INIT", "EARLY"}
    BY <1>0 DEF IInv, Fresh
  <2> QED BY <2>1, <1>0, <1>b DEF IInv, Fresh, peerVars
<1>4. Answers'
  <2> SUFFICES ASSUME NEW d \in Calls, NEW m \in CSeqs
               PROVE  /\ m > cseq'[d] => told'[d][m] = {} /\ answer'[d][m] = 0
                      /\ m \in acked'[d] \/ 200 \in told'[d][m] \/ 500 \in told'[d][m]
                           => answer'[d][m] = 200
                      /\ m \in invites'[d] \ late'[d] /\ (answer'[d][m] = 200 \/ 200 \in told'[d][m])
                           => dest' # Nowhere
    BY DEF Answers
  <2>0. /\ cseq' = cseq /\ answer' = answer /\ invites' = invites /\ late' = late
        /\ dest' = dest
    BY <1>b DEF mediaVars, peerVars
  <2>1. CASE d = c /\ m = n
    BY <2>0, <2>1, <1>0 DEF IInv, Answers
  <2>2. CASE ~(d = c /\ m = n)
    <3>1. told'[d][m] = told[d][m]
      <4>1. CASE d = c
        BY <4>1, <2>2, <1>0
      <4>2. CASE d # c
        BY <4>2, <1>0
      <4> QED BY <4>1, <4>2
    <3>2. Answers /\ acked' = acked
      BY <1>b DEF IInv, peerVars
    <3>3. /\ answer'[d][m] = answer[d][m] /\ told'[d][m] = told[d][m]
          /\ m \in acked'[d] => m \in acked[d] \/ 200 \in told[d][m]
          /\ m > cseq'[d] => m > cseq[d]
          /\ dest # Nowhere => dest' # Nowhere
          /\ m \in invites'[d] \ late'[d] => m \in invites[d] \ late[d] \/ (told[d][m] = {} /\ answer[d][m] = 0)
      BY <3>1, <3>2, <2>0
    <3> QED BY <3>2, <3>3, AnswersFrame
  <2> QED BY <2>1, <2>2
<1>5. AckIsFirst' /\ OneCall'
  BY <1>b DEF IInv, AckIsFirst, OneCall, Alone, mediaVars, peerVars
<1>7. SilentAfterBye' /\ ReceiverDiesExplained'
  BY <1>b DEF IInv, SilentAfterBye, ReceiverDiesExplained, Alone, mediaVars
<1> QED BY <1>1, <1>2, <1>3, <1>4, <1>5, <1>7 DEF IInv

LEMMA HangUpInv ==
  ASSUME IInv, NEW c \in Calls, HangUp(c)
  PROVE  IInv'
<1> USE Numbers
<1>b. UNCHANGED <<dialogVars, initial, dest, agreed, overtaken, fatal, chan, peerVars>>
  BY DEF HangUp
<1>0. /\ dialog[c] = "CONFIRMED" /\ session' = Off
      /\ hungUp'[c] /\ \A d \in Calls \ {c} : hungUp'[d] = hungUp[d]
      /\ \A d \in Calls : hungUp[d] => hungUp'[d]
      /\ hungUp' \in [Calls -> BOOLEAN]
  BY DEF HangUp, IInv, TypeOK
<1>1. TypeOK'
  BY <1>0, <1>b DEF IInv, TypeOK, dialogVars, peerVars
<1>2. Sent' /\ Answers' /\ AckIsFirst'
  BY <1>b DEF IInv, Sent, RequestOf, Answers, AckIsFirst, dialogVars, peerVars
<1>3. Fresh'
  BY <1>0, <1>b DEF IInv, Fresh, dialogVars, peerVars
<1>6. OneCall'
  <2> SUFFICES ASSUME NEW d \in Calls, Alone(d)'
               PROVE  /\ dialog'[d] = "EARLY" => initial'
                      /\ dialog'[d] = "CONFIRMED" /\ session' = Off /\ ~hungUp'[d] =>
                           /\ 1 \in invites'[d] /\ agreed'[d] = EmptyCSeq
                           /\ ~initial' /\ fatal' = NoRequest => overtaken'[d]
    BY DEF OneCall
  <2>1. d = c
    BY <1>0, <1>b DEF Alone, dialogVars
  <2> QED BY <2>1, <1>0, <1>b DEF dialogVars
<1>7. SilentAfterBye' /\ ReceiverDiesExplained'
  <2>1. SilentAfterBye'
    BY <1>0, Places DEF SilentAfterBye
  <2>2. ReceiverDiesExplained'
    <3> SUFFICES ASSUME fatal' # NoRequest
                 PROVE  \/ hungUp'[fatal'.call]
                        \/ agreed'[fatal'.call] = EmptyCSeq /\ overtaken'[fatal'.call]
                        \/ ~Alone(fatal.call)'
      BY DEF ReceiverDiesExplained
    <3>1. fatal.call \in Calls
      BY <1>b DEF IInv, TypeOK, Request
    <3> QED BY <3>1, <1>0, <1>b DEF IInv, ReceiverDiesExplained, Alone, dialogVars
  <2> QED BY <2>1, <2>2
<1> QED BY <1>1, <1>2, <1>3, <1>6, <1>7 DEF IInv

LEMMA ByeAnsweredInv ==
  ASSUME IInv, NEW c \in Calls, ByeAnswered(c)
  PROVE  IInv'
<1> USE Numbers
<1>b. UNCHANGED <<remote, answer, told, mediaVars, hungUp, agreed, overtaken,
                  fatal, chan, peerVars>>
  BY DEF ByeAnswered
<1>0. /\ dialog[c] = "CONFIRMED" /\ hungUp[c] /\ dialog'[c] = "TERMINATED"
      /\ \A d \in Calls \ {c} : dialog'[d] = dialog[d]
      /\ \A d \in Calls : dialog'[d] = "INIT" <=> dialog[d] = "INIT"
      /\ dialog' \in [Calls -> {"INIT", "EARLY", "CONFIRMED", "TERMINATED"}]
  BY DEF ByeAnswered, IInv, TypeOK
<1>1. TypeOK'
  BY <1>0, <1>b DEF IInv, TypeOK, mediaVars, peerVars
<1>2. Sent' /\ Answers'
  BY <1>b DEF IInv, Sent, RequestOf, Answers, mediaVars, peerVars
<1>3. Fresh' /\ AckIsFirst'
  BY <1>0, <1>b DEF IInv, Fresh, AckIsFirst, peerVars
<1>6. OneCall'
  BY <1>0, <1>b DEF IInv, OneCall, Alone, mediaVars, peerVars
<1>7. SilentAfterBye' /\ ReceiverDiesExplained'
  BY <1>0, <1>b DEF IInv, SilentAfterBye, ReceiverDiesExplained, Alone, mediaVars
<1> QED BY <1>1, <1>2, <1>3, <1>6, <1>7 DEF IInv

-----------------------------------------------------------------------------
(* What the receiver knows of the request it takes, and what it leaves of  *)
(* the others.                                                             *)
Taken(c, r) ==
  /\ fatal = NoRequest /\ r \in Request /\ RequestOf(c, r)
  /\ dialog[c] \notin {"INIT", "EARLY"}
  /\ UNCHANGED <<hungUp, peerVars>>
  /\ overtaken' \in [Calls -> BOOLEAN]
  /\ \A d \in Calls : overtaken[d] => overtaken'[d]
  /\ \A d \in Calls \ {c} : overtaken'[d] = overtaken[d]
  /\ chan' \in [Calls -> Seq(Request)]
  /\ \A d \in Calls \ {c} : chan'[d] = chan[d]
  /\ \A j \in 1 .. Len(chan'[c]) : \E k \in 1 .. Len(chan[c]) : chan'[c][j] = chan[c][k]
  /\ 1 \in invites[c] /\ agreed[c] = EmptyCSeq /\ dialog[c] # "TERMINATED" /\ ~overtaken'[c]
       => r = Req(c, "ACK", 1)

LEMMA ReceiveTakes ==
  ASSUME IInv, NEW c \in Calls, NEW i \in 1 .. Len(chan[c]), Receive(c, i)
  PROVE  Taken(c, chan[c][i])
<1> DEFINE r == chan[c][i]
<1>0. /\ chan \in [Calls -> Seq(Request)] /\ overtaken \in [Calls -> BOOLEAN]
      /\ chan[c] \in Seq(Request)
  BY DEF IInv, TypeOK
<1>1. r \in Request /\ RequestOf(c, r)
  BY <1>0, ElementOfSeq DEF IInv, Sent
<1>2. dialog[c] \notin {"INIT", "EARLY"}
  <2>1. chan[c] # <<>>
    BY EmptySeq
  <2> QED BY <2>1 DEF IInv, Fresh
<1>3. /\ fatal = NoRequest
      /\ UNCHANGED <<hungUp, peerVars>>
      /\ overtaken' = [overtaken EXCEPT ![c] = @ \/ i # 1]
      /\ chan' = [chan EXCEPT ![c] = RemoveAt(@, i)] \/ chan' = chan
  BY DEF Receive
<1>4. /\ overtaken' \in [Calls -> BOOLEAN]
      /\ \A d \in Calls : overtaken[d] => overtaken'[d]
      /\ \A d \in Calls \ {c} : overtaken'[d] = overtaken[d]
      /\ overtaken'[c] = (overtaken[c] \/ i # 1)
  BY <1>0, <1>3
<1>5. /\ chan' \in [Calls -> Seq(Request)]
      /\ \A d \in Calls \ {c} : chan'[d] = chan[d]
      /\ \A j \in 1 .. Len(chan'[c]) : \E k \in 1 .. Len(chan[c]) : chan'[c][j] = chan[c][k]
  <2>1. CASE chan' = chan
    BY <2>1, <1>0
  <2>2. CASE chan' = [chan EXCEPT ![c] = RemoveAt(@, i)]
    <3>1. /\ RemoveAt(chan[c], i) \in Seq(Request)
          /\ \A j \in 1 .. Len(RemoveAt(chan[c], i)) :
               \E k \in 1 .. Len(chan[c]) : RemoveAt(chan[c], i)[j] = chan[c][k]
      BY <1>0, Removed
    <3>2. /\ chan'[c] = RemoveAt(chan[c], i)
          /\ \A d \in Calls \ {c} : chan'[d] = chan[d]
      BY <2>2, <1>0
    <3>3. chan' \in [Calls -> Seq(Request)]
      BY <2>2, <3>1, <1>0
    <3> QED BY <3>1, <3>2, <3>3
  <2> QED BY <2>1, <2>2, <1>3
<1>6. ASSUME 1 \in invites[c], agreed[c] = EmptyCSeq, dialog[c] # "TERMINATED",
             ~overtaken'[c]
      PROVE  r = Req(c, "ACK", 1)
  <2>1. i = 1 /\ ~overtaken[c]
    BY <1>6, <1>4
  <2>2. IF 1 \in acked[c] THEN chan[c] # <<>> /\ chan[c][1] = Req(c, "ACK", 1)
                          ELSE chan[c] = <<>>
    BY <2>1, <1>3, <1>6 DEF IInv, AckIsFirst
  <2>3. chan[c] # <<>>
    BY EmptySeq
  <2> QED BY <2>1, <2>2, <2>3
<1> QED BY <1>1, <1>2, <1>3, <1>4, <1>5, <1>6 DEF Taken

(* The numbers of the requests are as before.                              *)
LEMMA TakenSent ==
  ASSUME IInv, NEW c \in Calls, NEW r, Taken(c, r)
  PROVE  Sent'
<1> SUFFICES ASSUME NEW d \in Calls
             PROVE  /\ acked'[d] \subseteq invites'[d]
                    /\ \A m \in invites'[d] : m <= cseq'[d]
                    /\ 1 \in invites'[d] \ acked'[d] => invites'[d] = {1}
                    /\ \A i \in 1 .. Len(chan'[d]) : RequestOf(d, chan[d][i])'
  BY DEF Sent
<1>0. acked' = acked /\ invites' = invites /\ cseq' = cseq
  BY DEF Taken, peerVars
<1>1. /\ acked'[d] \subseteq invites'[d]
      /\ \A m \in invites'[d] : m <= cseq'[d]
      /\ 1 \in invites'[d] \ acked'[d] => invites'[d] = {1}
  BY <1>0 DEF IInv, Sent
<1>2. ASSUME NEW i \in 1 .. Len(chan'[d]) PROVE RequestOf(d, chan[d][i])'
  <2>1. PICK k \in 1 .. Len(chan[d]) : chan'[d][i] = chan[d][k]
    <3>1. CASE d = c
      BY <3>1 DEF Taken
    <3>2. CASE d # c
      BY <3>2 DEF Taken
    <3> QED BY <3>1, <3>2
  <2>2. RequestOf(d, chan[d][k])
    BY DEF IInv, Sent
  <2> QED BY <2>1, <2>2, <1>0 DEF RequestOf
<1> QED BY <1>1, <1>2

(* The other calls are as they were, and so is the order of the requests.  *)
LEMMA TakenFresh ==
  ASSUME IInv, NEW c \in Calls, NEW r, Taken(c, r),
         dialog'[c] \notin {"INIT", "EARLY"},
         \A d \in Calls \ {c} : /\ dialog'[d] = dialog[d] /\ agreed'[d] = agreed[d]
                                /\ told'[d] = told[d] /\ answer'[d] = answer[d]
  PROVE  Fresh'
<1> SUFFICES ASSUME NEW d \in Calls, dialog'[d] \in {"INIT", "EARLY"}
             PROVE  /\ chan'[d] = <<>> /\ agreed'[d] = EmptyCSeq /\ ~hungUp'[d]
                    /\ acked'[d] = {}
                    /\ invites'[d] = IF dialog'[d] = "INIT" THEN {} ELSE {1}
                    /\ \A n \in CSeqs : told'[d][n] = {} /\ answer'[d][n] = 0
  BY DEF Fresh
<1>1. d # c
  OBVIOUS
<1>2. /\ dialog'[d] = dialog[d] /\ agreed'[d] = agreed[d] /\ told'[d] = told[d]
      /\ answer'[d] = answer[d] /\ chan'[d] = chan[d] /\ hungUp' = hungUp
      /\ acked' = acked /\ invites' = invites
  BY <1>1 DEF Taken, peerVars
<1> QED BY <1>2 DEF IInv, Fresh

LEMMA TakenFirst ==
  ASSUME IInv, NEW c \in Calls, NEW r, Taken(c, r),
         \A d \in Calls \ {c} : dialog'[d] = dialog[d] /\ agreed'[d] = agreed[d],
         agreed'[c] = EmptyCSeq => agreed[c] = EmptyCSeq,
         dialog[c] = "TERMINATED" => dialog'[c] = "TERMINATED",
         \/ r.kind # "ACK" \/ dialog[c] = "TERMINATED"
         \/ agreed'[c] # EmptyCSeq \/ fatal' # NoRequest
  PROVE  AckIsFirst'
<1> USE Numbers
<1> SUFFICES ASSUME NEW d \in Calls,
                    1 \in invites'[d], agreed'[d] = EmptyCSeq, ~overtaken'[d],
                    fatal' = NoRequest, dialog'[d] # "TERMINATED"
             PROVE  IF 1 \in acked'[d]
                      THEN chan'[d] # <<>> /\ chan'[d][1] = Req(d, "ACK", 1)
                      ELSE chan'[d] = <<>>
  BY DEF AckIsFirst
<1>0. acked' = acked /\ invites' = invites /\ fatal = NoRequest
  BY DEF Taken, peerVars
<1>1. CASE d = c
  <2>1. r = Req(c, "ACK", 1)
    BY <1>0, <1>1 DEF Taken
  <2>2. r.kind = "ACK"
    BY <2>1, Requests DEF Kinds
  <2> QED BY <2>2, <1>1
<1>2. CASE d # c
  BY <1>0, <1>2 DEF Taken, IInv, AckIsFirst
<1> QED BY <1>1, <1>2

LEMMA Numbered ==
  ASSUME IInv, NEW c \in Calls, NEW r, Taken(c, r)
  PROVE  /\ r.cseq \in CSeqs /\ r.kind \in Kinds /\ r.call = c
         /\ r.cseq <= cseq[c] /\ cseq[c] \in Nat /\ r.cseq \in Nat
         /\ ~(r.cseq > cseq[c])
<1>1. r.cseq \in CSeqs /\ r.kind \in Kinds /\ r.call = c /\ r.cseq <= cseq[c]
  BY DEF Taken, Request, RequestOf
<1>2. cseq[c] \in Nat
  BY Numbers DEF IInv, TypeOK
<1>3. r.cseq \in Nat /\ ~(r.cseq > cseq[c])
  <2> DEFINE a == r.cseq
             b == cseq[c]
  <2>1. a \in Nat /\ b \in Nat /\ a <= b
    BY <1>1, <1>2, Numbers
  <2> HIDE DEF a, b
  <2>2. ~(a > b)
    BY <2>1
  <2> QED BY <2>1, <2>2 DEF a, b
<1> QED BY <1>1, <1>2, <1>3

(* What the answer to a copy adds.                                         *)
Copied(c, r) ==
  /\ answer[c][r.cseq] = 200
  /\ told' \in [Calls -> [CSeqs -> SUBSET {200, 500}]]
  /\ told'[c][r.cseq] = IF r.kind # "INVITE" \/ 500 \in told[c][r.cseq]
                          THEN told[c][r.cseq] \cup {200} ELSE told[c][r.cseq]
  /\ \A m \in CSeqs : m # r.cseq => told'[c][m] = told[c][m]
  /\ \A d \in Calls \ {c} : told'[d] = told[d]

LEMMA CopyFrame ==
  ASSUME IInv, NEW c \in Calls, NEW r, Taken(c, r),
         r.kind # "ACK", answer[c][r.cseq] # 0, AnswerCopy(r)
  PROVE  Copied(c, r)
<1> DEFINE n == r.cseq
<1>1. /\ told \in [Calls -> [CSeqs -> SUBSET {200, 500}]]
      /\ answer \in [Calls -> [CSeqs -> {0, 200}]]
  BY DEF IInv, TypeOK
<1>2. n \in CSeqs /\ r.call = c /\ answer[c][n] # 0
  BY Numbered
<1>3. \A m \in CSeqs : answer[c][m] \in {0, 200}
  BY <1>1
<1>4. answer[c][n] = 200
  BY <1>2, <1>3
<1>5. told' = [told EXCEPT ![c][n] =
                 IF r.kind # "INVITE" \/ 500 \in @ THEN @ \cup {200} ELSE @]
  BY <1>2, <1>4 DEF AnswerCopy
<1> HIDE DEF n
<1>6. /\ told' \in [Calls -> [CSeqs -> SUBSET {200, 500}]]
      /\ told'[c][n] = IF r.kind # "INVITE" \/ 500 \in told[c][n]
                         THEN told[c][n] \cup {200} ELSE told[c][n]
      /\ \A m \in CSeqs : m # n => told'[c][m] = told[c][m]
      /\ \A d \in Calls \ {c} : told'[d] = told[d]
  <2>1. CASE r.kind # "INVITE" \/ 500 \in told[c][n]
    <3>1. told' = [told EXCEPT ![c][n] = @ \cup {200}]
      BY <2>1, <1>1, <1>2, <1>5
    <3>2. /\ told' \in [Calls -> [CSeqs -> SUBSET {200, 500}]]
          /\ \A m \in CSeqs : m # n => told'[c][m] = told[c][m]
          /\ \A d \in Calls \ {c} : told'[d] = told[d]
      BY <3>1, <1>1, <1>2
    <3>3. told'[c] = [told[c] EXCEPT ![n] = @ \cup {200}] /\ n \in DOMAIN told[c]
      BY <3>1, <1>1, <1>2
    <3>4. told'[c][n] = told[c][n] \cup {200}
      BY <3>3
    <3> QED BY <3>2, <3>4, <2>1
  <2>2. CASE ~(r.kind # "INVITE" \/ 500 \in told[c][n])
    <3>1. told' = told
      BY <2>2, <1>1, <1>2, <1>5
    <3> QED BY <3>1, <2>2, <1>1
  <2> QED BY <2>1, <2>2
<1> QED BY <1>4, <1>6 DEF n, Copied

LEMMA CopyInv ==
  ASSUME IInv, NEW c \in Calls, NEW r, Taken(c, r),
         r.kind # "ACK", answer[c][r.cseq] # 0, AnswerCopy(r),
         UNCHANGED <<dialog, remote, answer, mediaVars, agreed, fatal>>
  PROVE  IInv'
<1> USE Numbers
<1> DEFINE n == r.cseq
<1>0. UNCHANGED <<cseq, invites, late, acked, hungUp, initial, dest, session>>
  BY DEF Taken, peerVars, mediaVars
<1>1. /\ answer[c][n] = 200
      /\ told' \in [Calls -> [CSeqs -> SUBSET {200, 500}]]
      /\ told'[c][n] \subseteq told[c][n] \cup {200}
      /\ \A m \in CSeqs : m # n => told'[c][m] = told[c][m]
      /\ \A d \in Calls \ {c} : told'[d] = told[d]
  <2>1. Copied(c, r)
    BY CopyFrame
  <2> QED BY <2>1 DEF Copied
<1>2. TypeOK'
  BY <1>0, <1>1 DEF IInv, TypeOK, Taken
<1>3. Sent'
  BY TakenSent
<1>4. Fresh'
  <2>1. dialog'[c] \notin {"INIT", "EARLY"}
    BY DEF Taken
  <2> QED BY <2>1, <1>1, TakenFresh
<1>5. Answers'
  <2> SUFFICES ASSUME NEW d \in Calls, NEW m \in CSeqs
               PROVE  /\ m > cseq'[d] => told'[d][m] = {} /\ answer'[d][m] = 0
                      /\ m \in acked'[d] \/ 200 \in told'[d][m] \/ 500 \in told'[d][m]
                           => answer'[d][m] = 200
                      /\ m \in invites'[d] \ late'[d] /\ (answer'[d][m] = 200 \/ 200 \in told'[d][m])
                           => dest' # Nowhere
    BY DEF Answers
  <2>1. CASE d = c /\ m = n
    BY <2>1, <1>0, <1>1, Numbered DEF IInv, Answers
  <2>2. CASE ~(d = c /\ m = n)
    <3>1. told'[d][m] = told[d][m]
      <4>1. CASE d = c
        BY <4>1, <2>2, <1>1
      <4>2. CASE d # c
        BY <4>2, <1>1
      <4> QED BY <4>1, <4>2
    <3> QED BY <3>1, <1>0 DEF IInv, Answers
  <2> QED BY <2>1, <2>2
<1>6. AckIsFirst'
  BY TakenFirst
<1>7. OneCall' /\ SilentAfterBye' /\ ReceiverDiesExplained'
  BY <1>0 DEF IInv, OneCall, SilentAfterBye, ReceiverDiesExplained, Alone, Taken
<1> QED BY <1>2, <1>3, <1>4, <1>5, <1>6, <1>7 DEF IInv

LEMMA GoneInv ==
  ASSUME IInv, NEW c \in Calls, NEW r, Taken(c, r), dialog[c] = "TERMINATED",
         UNCHANGED <<dialogVars, mediaVars, agreed, fatal>>
  PROVE  IInv'
<1>0. UNCHANGED <<cseq, invites, late, acked, hungUp, initial, dest, session,
                  dialog, remote, answer, told>>
  BY DEF Taken, peerVars, mediaVars, dialogVars
<1>2. TypeOK'
  BY <1>0 DEF IInv, TypeOK, Taken
<1>3. Sent'
  BY TakenSent
<1>4. Fresh'
  BY <1>0, TakenFresh
<1>5. Answers'
  BY <1>0 DEF IInv, Answers
<1>6. AckIsFirst'
  BY <1>0, TakenFirst
<1>7. OneCall' /\ SilentAfterBye' /\ ReceiverDiesExplained'
  BY <1>0 DEF IInv, OneCall, SilentAfterBye, ReceiverDiesExplained, Alone, Taken
<1> QED BY <1>2, <1>3, <1>4, <1>5, <1>6, <1>7 DEF IInv

LEMMA RemoteType ==
  ASSUME IInv, NEW c \in Calls, NEW n \in CSeqs, CheckCSeq(c, n)
  PROVE  remote' \in [Calls -> CSeqs \cup {EmptyCSeq}]
BY DEF IInv, TypeOK, CheckCSeq

(* A 200 that is recorded, with what it does to the record.                *)
Recorded(c, n) ==
  /\ answer' \in [Calls -> [CSeqs -> {0, 200}]]
  /\ answer'[c][n] = 200
  /\ \A m \in CSeqs : m # n => answer'[c][m] = answer[c][m]
  /\ \A d \in Calls \ {c} : answer'[d] = answer[d]

LEMMA AnswerFrame ==
  ASSUME IInv, NEW c \in Calls, NEW n \in CSeqs,
         answer' = [answer EXCEPT ![c][n] = 200]
  PROVE  Recorded(c, n)
<1>1. answer \in [Calls -> [CSeqs -> {0, 200}]]
  BY DEF IInv, TypeOK
<1> QED BY <1>1 DEF Recorded

(* The answer to a request that is no INVITE.                              *)
LEMMA OtherAnswers ==
  ASSUME IInv, NEW c \in Calls, NEW r, Taken(c, r), r.kind \in {"OPTIONS", "BYE"},
         Recorded(c, r.cseq), UNCHANGED <<told, dest, cseq, invites, late, acked>>
  PROVE  Answers'
<1> USE Numbers
<1> DEFINE n == r.cseq
<1>1. n \notin invites[c]
  BY DEF Taken, RequestOf
<1> SUFFICES ASSUME NEW d \in Calls, NEW m \in CSeqs
             PROVE  /\ m > cseq'[d] => told'[d][m] = {} /\ answer'[d][m] = 0
                    /\ m \in acked'[d] \/ 200 \in told'[d][m] \/ 500 \in told'[d][m]
                           => answer'[d][m] = 200
                    /\ m \in invites'[d] \ late'[d] /\ (answer'[d][m] = 200 \/ 200 \in told'[d][m])
                         => dest' # Nowhere
  BY DEF Answers
<1>2. CASE d = c /\ m = n
  BY <1>2, <1>1, Numbered DEF Recorded
<1>3. CASE ~(d = c /\ m = n)
  <2>1. answer'[d][m] = answer[d][m]
    <3>1. CASE d = c
      BY <3>1, <1>3 DEF Recorded
    <3>2. CASE d # c
      BY <3>2 DEF Recorded
    <3> QED BY <3>1, <3>2
  <2>2. Answers
    BY DEF IInv
  <2>3. /\ answer'[d][m] = answer[d][m] /\ told'[d][m] = told[d][m]
        /\ m \in acked'[d] => m \in acked[d] \/ 200 \in told[d][m]
        /\ m > cseq'[d] => m > cseq[d]
        /\ dest # Nowhere => dest' # Nowhere
        /\ m \in invites'[d] \ late'[d] => m \in invites[d] \ late[d] \/ (told[d][m] = {} /\ answer[d][m] = 0)
    BY <2>1
  <2> QED BY <2>2, <2>3, AnswersFrame
<1> QED BY <1>2, <1>3

LEMMA ReInviteInv ==
  ASSUME IInv, NEW c \in Calls, NEW r, Taken(c, r), dialog[c] # "TERMINATED",
         CheckCSeq(c, r.cseq), r.kind = "INVITE", HandleReInvite(c, r.cseq)
  PROVE  IInv'
<1> USE Numbers
<1> DEFINE n == r.cseq
<1>0. UNCHANGED <<cseq, invites, late, acked, hungUp, session, dialog, agreed, fatal>>
  BY DEF Taken, peerVars, HandleReInvite
<1>a. n \in CSeqs /\ r.call = c
  BY Numbered
<1>1. /\ answer' \in [Calls -> [CSeqs -> {0, 200}]]
      /\ answer'[c][n] = 200
      /\ \A m \in CSeqs : m # n => answer'[c][m] = answer[c][m]
      /\ \A d \in Calls \ {c} : answer'[d] = answer[d]
  <2>1. answer' = [answer EXCEPT ![c][n] = 200]
    BY DEF HandleReInvite
  <2>2. answer \in [Calls -> [CSeqs -> {0, 200}]]
    BY DEF IInv, TypeOK
  <2> HIDE DEF n
  <2> QED BY <2>1, <2>2, <1>a
<1>2. /\ told' \in [Calls -> [CSeqs -> SUBSET {200, 500}]]
      /\ \A m \in CSeqs : m # n => told'[c][m] = told[c][m]
      /\ \A d \in Calls \ {c} : told'[d] = told[d]
  <2>1. told \in [Calls -> [CSeqs -> SUBSET {200, 500}]]
    BY DEF IInv, TypeOK
  <2>2. PICK x \in {200, 500} : told' = [told EXCEPT ![c][n] = {x}]
    BY DEF HandleReInvite
  <2> QED BY <1>a, <2>1, <2>2
<1>3. /\ dest' \in Destination \cup {Nowhere}
      /\ dest # Nowhere => dest' # Nowhere
      /\ n \notin late[c] => dest' # Nowhere
      /\ initial' = FALSE
  <2>1. dest \in Destination \cup {Nowhere}
    BY DEF IInv, TypeOK
  <2> QED BY <2>1, <1>a, Places DEF HandleReInvite
<1>4. TypeOK'
  <2>1. remote' \in [Calls -> CSeqs \cup {EmptyCSeq}]
    BY <1>a, RemoteType
  <2>2. initial' \in BOOLEAN
    BY <1>3
  <2> QED BY <2>1, <2>2, <1>0, <1>1, <1>2, <1>3 DEF IInv, TypeOK, Taken
<1>5. Sent'
  BY TakenSent
<1>6. Fresh'
  <2>1. dialog'[c] \notin {"INIT", "EARLY"}
    BY <1>0 DEF Taken
  <2> QED BY <2>1, <1>0, <1>1, <1>2, TakenFresh
<1>7. Answers'
  <2> SUFFICES ASSUME NEW d \in Calls, NEW m \in CSeqs
               PROVE  /\ m > cseq'[d] => told'[d][m] = {} /\ answer'[d][m] = 0
                      /\ m \in acked'[d] \/ 200 \in told'[d][m] \/ 500 \in told'[d][m]
                           => answer'[d][m] = 200
                      /\ m \in invites'[d] \ late'[d] /\ (answer'[d][m] = 200 \/ 200 \in told'[d][m])
                           => dest' # Nowhere
    BY DEF Answers
  <2>1. CASE d = c /\ m = n
    BY <2>1, <1>0, <1>1, <1>3, Numbered
  <2>2. CASE ~(d = c /\ m = n)
    <3>1. told'[d][m] = told[d][m] /\ answer'[d][m] = answer[d][m]
      <4>1. CASE d = c
        BY <4>1, <2>2, <1>1, <1>2
      <4>2. CASE d # c
        BY <4>2, <1>1, <1>2
      <4> QED BY <4>1, <4>2
    <3>2. Answers
      BY DEF IInv
    <3>3. /\ answer'[d][m] = answer[d][m] /\ told'[d][m] = told[d][m]
          /\ m \in acked'[d] => m \in acked[d] \/ 200 \in told[d][m]
          /\ m > cseq'[d] => m > cseq[d]
          /\ dest # Nowhere => dest' # Nowhere
          /\ m \in invites'[d] \ late'[d] => m \in invites[d] \ late[d] \/ (told[d][m] = {} /\ answer[d][m] = 0)
      BY <3>1, <1>0, <1>3
    <3> QED BY <3>2, <3>3, AnswersFrame
  <2> QED BY <2>1, <2>2
<1>8. AckIsFirst'
  BY <1>0, TakenFirst
<1>9. OneCall'
  <2> SUFFICES ASSUME NEW d \in Calls, Alone(d)'
               PROVE  /\ dialog'[d] = "EARLY" => initial'
                      /\ dialog'[d] = "CONFIRMED" /\ session' = Off /\ ~hungUp'[d] =>
                           /\ 1 \in invites'[d] /\ agreed'[d] = EmptyCSeq
                           /\ ~initial' /\ fatal' = NoRequest => overtaken'[d]
    BY DEF OneCall
  <2>1. d = c /\ Alone(c)
    BY <1>0 DEF Alone, Taken
  <2>2. dialog'[c] # "EARLY"
    BY <1>0 DEF Taken
  <2>3. ASSUME dialog'[c] = "CONFIRMED", session' = Off, ~hungUp'[c]
        PROVE  /\ 1 \in invites'[c] /\ agreed'[c] = EmptyCSeq
               /\ overtaken'[c]
    <3>1. 1 \in invites[c] /\ agreed[c] = EmptyCSeq
      BY <2>1, <2>3, <1>0 DEF IInv, OneCall
    <3>2. r # Req(c, "ACK", 1)
      BY Requests DEF Kinds
    <3>3. overtaken'[c]
      BY <3>1, <3>2 DEF Taken
    <3> QED BY <3>1, <3>3, <1>0
  <2> QED BY <2>1, <2>2, <2>3
<1>10. SilentAfterBye' /\ ReceiverDiesExplained'
  BY <1>0 DEF IInv, SilentAfterBye, ReceiverDiesExplained, Alone, Taken
<1> QED BY <1>4, <1>5, <1>6, <1>7, <1>8, <1>9, <1>10 DEF IInv

LEMMA OptionsInv ==
  ASSUME IInv, NEW c \in Calls, NEW r, Taken(c, r), dialog[c] # "TERMINATED",
         CheckCSeq(c, r.cseq), r.kind = "OPTIONS", HandleOptions(c, r.cseq)
  PROVE  IInv'
<1>0. UNCHANGED <<cseq, invites, late, acked, hungUp, session, initial, dest,
                  dialog, agreed, fatal, told>>
  BY DEF Taken, peerVars, HandleOptions, mediaVars
<1>a. r.cseq \in CSeqs
  BY Numbered
<1>1. Recorded(c, r.cseq)
  BY <1>a, AnswerFrame DEF HandleOptions
<1>2. TypeOK'
  <2>1. remote' \in [Calls -> CSeqs \cup {EmptyCSeq}]
    BY <1>a, RemoteType
  <2> QED BY <2>1, <1>0, <1>1 DEF IInv, TypeOK, Taken, Recorded
<1>3. Sent'
  BY TakenSent
<1>4. Fresh'
  <2>1. dialog'[c] \notin {"INIT", "EARLY"}
    BY <1>0 DEF Taken
  <2> QED BY <2>1, <1>0, <1>1, TakenFresh DEF Recorded
<1>5. Answers'
  BY <1>0, <1>1, OtherAnswers
<1>6. AckIsFirst'
  BY <1>0, TakenFirst
<1>7. OneCall' /\ SilentAfterBye' /\ ReceiverDiesExplained'
  BY <1>0 DEF IInv, OneCall, SilentAfterBye, ReceiverDiesExplained, Alone, Taken
<1> QED BY <1>2, <1>3, <1>4, <1>5, <1>6, <1>7 DEF IInv

LEMMA ByeInv ==
  ASSUME IInv, NEW c \in Calls, NEW r, Taken(c, r), dialog[c] # "TERMINATED",
         CheckCSeq(c, r.cseq), r.kind = "BYE", HandleBye(c, r.cseq)
  PROVE  IInv'
<1>0. /\ UNCHANGED <<cseq, invites, late, acked, hungUp, initial, dest, agreed,
                     fatal, told>>
      /\ session' = Off
  BY DEF Taken, peerVars, HandleBye
<1>a. r.cseq \in CSeqs
  BY Numbered
<1>b. /\ dialog'[c] = "TERMINATED" /\ dialog[c] # "INIT"
      /\ \A d \in Calls \ {c} : dialog'[d] = dialog[d]
      /\ dialog' \in [Calls -> {"INIT", "EARLY", "CONFIRMED", "TERMINATED"}]
  BY DEF HandleBye, IInv, TypeOK, Taken
<1>1. Recorded(c, r.cseq)
  BY <1>a, AnswerFrame DEF HandleBye
<1>2. TypeOK'
  <2>1. remote' \in [Calls -> CSeqs \cup {EmptyCSeq}]
    BY <1>a, RemoteType
  <2> QED BY <2>1, <1>0, <1>1, <1>b DEF IInv, TypeOK, Taken, Recorded
<1>3. Sent'
  BY TakenSent
<1>4. Fresh'
  <2>1. dialog'[c] \notin {"INIT", "EARLY"}
    BY <1>b
  <2> QED BY <2>1, <1>0, <1>1, <1>b, TakenFresh DEF Recorded
<1>5. Answers'
  BY <1>0, <1>1, OtherAnswers
<1>6. AckIsFirst'
  BY <1>0, <1>b, TakenFirst
<1>7. OneCall'
  <2> SUFFICES ASSUME NEW d \in Calls, Alone(d)'
               PROVE  /\ dialog'[d] = "EARLY" => initial'
                      /\ dialog'[d] = "CONFIRMED" /\ session' = Off /\ ~hungUp'[d] =>
                           /\ 1 \in invites'[d] /\ agreed'[d] = EmptyCSeq
                           /\ ~initial' /\ fatal' = NoRequest => overtaken'[d]
    BY DEF OneCall
  <2>1. d = c
    BY <1>b DEF Alone
  <2> QED BY <2>1, <1>b
<1>8. SilentAfterBye' /\ ReceiverDiesExplained'
  <2>1. SilentAfterBye'
    BY <1>0, Places DEF SilentAfterBye
  <2>2. ReceiverDiesExplained'
    BY <1>0 DEF ReceiverDiesExplained, Taken
  <2> QED BY <2>1, <2>2
<1> QED BY <1>2, <1>3, <1>4, <1>5, <1>6, <1>7, <1>8 DEF IInv

LEMMA AckInv ==
  ASSUME IInv, NEW c \in Calls, NEW r, Taken(c, r), dialog[c] # "TERMINATED",
         CheckCSeq(c, r.cseq), r.kind = "ACK", HandleAck(c, r.cseq)
  PROVE  IInv'
<1> USE Numbers
<1> DEFINE n == r.cseq
           d == IF dest = Nowhere /\ n \in late[c] THEN <<c, n>> ELSE dest
<1>0. UNCHANGED <<cseq, invites, late, acked, hungUp, initial, dialog, answer, told>>
  BY DEF Taken, peerVars, HandleAck
<1>a. n \in CSeqs /\ n # EmptyCSeq /\ r.call = c /\ Req(c, "ACK", n) \in Request
  BY Numbered, Requests DEF Kinds
<1>b. /\ dest' = d
      /\ d \in Destination \cup {Nowhere}
      /\ dest # Nowhere => d # Nowhere
  <2>1. dest \in Destination \cup {Nowhere}
    BY DEF IInv, TypeOK
  <2> QED BY <2>1, <1>a, Places DEF HandleAck
<1>c. session \in Session \cup {Off} /\ agreed \in [Calls -> CSeqs \cup {EmptyCSeq}]
  BY DEF IInv, TypeOK
<1>d. \/ /\ session' \in Session /\ session' # Off
         /\ agreed' \in [Calls -> CSeqs \cup {EmptyCSeq}]
         /\ agreed'[c] # EmptyCSeq /\ \A e \in Calls \ {c} : agreed'[e] = agreed[e]
         /\ session'.call = c \/ session'.call = session.call
         /\ fatal' = fatal
      \/ /\ d = Nowhere \/ (~initial /\ session = Off)
         /\ fatal' = Req(c, "ACK", n)
         /\ UNCHANGED <<session, agreed>>
  <2> HIDE DEF d, n
  <2>1. CASE /\ d # Nowhere /\ initial
             /\ session' = [call |-> c, dest |-> d]
             /\ agreed' = [agreed EXCEPT ![c] = n]
             /\ UNCHANGED fatal
    <3>1. session' \in Session /\ session' # Off /\ session'.call = c
      BY <2>1, <1>b, Places
    <3> QED BY <3>1, <2>1, <1>a, <1>c
  <2>2. CASE /\ d # Nowhere /\ session # Off
             /\ session' = [session EXCEPT !.dest = d]
             /\ agreed' = [agreed EXCEPT ![c] = n]
             /\ UNCHANGED fatal
    <3>1. session \in Session /\ d \in Destination
      BY <2>2, <1>b, <1>c
    <3>2. session' \in Session /\ session'.call = session.call
      BY <2>2, <3>1 DEF Session
    <3>3. session' # Off
      BY <3>2, Places
    <3> QED BY <3>2, <3>3, <2>2, <1>a, <1>c
  <2>3. CASE /\ d = Nowhere \/ (~initial /\ session = Off)
             /\ fatal' = Req(c, "ACK", n)
             /\ UNCHANGED <<session, agreed>>
    BY <2>3
  <2> QED BY <2>1, <2>2, <2>3 DEF HandleAck, d, n
<1> HIDE DEF d
<1>1. TypeOK'
  <2>1. remote' \in [Calls -> CSeqs \cup {EmptyCSeq}]
    BY <1>a, RemoteType
  <2>2. /\ fatal' \in Request \cup {NoRequest} /\ session' \in Session \cup {Off}
        /\ agreed' \in [Calls -> CSeqs \cup {EmptyCSeq}]
    BY <1>a, <1>c, <1>d DEF IInv, TypeOK
  <2> QED BY <2>1, <2>2, <1>0, <1>b DEF IInv, TypeOK, Taken
<1>2. Sent'
  BY TakenSent
<1>3. Fresh'
  <2>1. dialog'[c] \notin {"INIT", "EARLY"}
    BY <1>0 DEF Taken
  <2>2. \A e \in Calls \ {c} : agreed'[e] = agreed[e]
    BY <1>d
  <2> QED BY <2>1, <2>2, <1>0, TakenFresh
<1>4. Answers'
  <2>1. Answers
    BY DEF IInv
  <2> SUFFICES ASSUME NEW e \in Calls, NEW m \in CSeqs
               PROVE  /\ m > cseq'[e] => told'[e][m] = {} /\ answer'[e][m] = 0
                      /\ m \in acked'[e] \/ 200 \in told'[e][m] \/ 500 \in told'[e][m]
                           => answer'[e][m] = 200
                      /\ m \in invites'[e] \ late'[e] /\ (answer'[e][m] = 200 \/ 200 \in told'[e][m])
                           => dest' # Nowhere
    BY DEF Answers
  <2>2. /\ answer'[e][m] = answer[e][m] /\ told'[e][m] = told[e][m]
        /\ m \in acked'[e] => m \in acked[e] \/ 200 \in told[e][m]
        /\ m > cseq'[e] => m > cseq[e]
        /\ dest # Nowhere => dest' # Nowhere
        /\ m \in invites'[e] \ late'[e] => m \in invites[e] \ late[e] \/ (told[e][m] = {} /\ answer[e][m] = 0)
    BY <1>0, <1>b
  <2> QED BY <2>1, <2>2, AnswersFrame
<1>5. AckIsFirst'
  <2>1. \/ agreed'[c] # EmptyCSeq
        \/ fatal' # NoRequest /\ agreed' = agreed
    BY <1>d, <1>a, Places
  <2>2. \A e \in Calls \ {c} : agreed'[e] = agreed[e]
    BY <1>d
  <2> QED BY <2>1, <2>2, <1>0, TakenFirst
<1>6. OneCall'
  <2> SUFFICES ASSUME NEW e \in Calls, Alone(e)'
               PROVE  /\ dialog'[e] = "EARLY" => initial'
                      /\ dialog'[e] = "CONFIRMED" /\ session' = Off /\ ~hungUp'[e] =>
                           /\ 1 \in invites'[e] /\ agreed'[e] = EmptyCSeq
                           /\ ~initial' /\ fatal' = NoRequest => overtaken'[e]
    BY DEF OneCall
  <2>1. e = c /\ Alone(c)
    BY <1>0 DEF Alone, Taken
  <2>2. dialog'[c] # "EARLY"
    BY <1>0 DEF Taken
  <2>3. session' = Off => session = Off /\ agreed' = agreed /\ fatal' # NoRequest
    BY <1>d, <1>a, Places
  <2> QED BY <2>1, <2>2, <2>3, <1>0 DEF IInv, OneCall
<1>7. SilentAfterBye'
  <2> SUFFICES ASSUME NEW e \in Calls, dialog'[e] = "TERMINATED", ~hungUp'[e]
               PROVE  session'.call # e
    BY DEF SilentAfterBye
  <2>1. e # c /\ session.call # e
    BY <1>0 DEF IInv, SilentAfterBye
  <2> QED BY <2>1, <1>d
<1>8. ReceiverDiesExplained'
  <2>1. CASE fatal' = fatal
    BY <2>1 DEF ReceiverDiesExplained, Taken
  <2>2. CASE /\ d = Nowhere \/ (~initial /\ session = Off)
             /\ fatal' = Req(c, "ACK", n)
             /\ UNCHANGED <<session, agreed>>
    <3>1. fatal'.call = c
      BY <2>2 DEF Req
    <3>2. d # Nowhere
      <4>1. n \in invites[c]
        BY DEF Taken, RequestOf, IInv, Sent
      <4>2. CASE n \in late[c]
        BY <4>2, <1>a, Places DEF d
      <4>3. CASE n \notin late[c]
        <5>0. n \in acked[c]
          BY DEF Taken, RequestOf
        <5>1. answer[c][n] = 200
          <6>1. Answers
            BY DEF IInv
          <6> HIDE DEF n
          <6> QED BY <5>0, <6>1, <1>a DEF Answers
        <5>2. dest # Nowhere
          BY <5>1, <4>1, <4>3, <1>a DEF IInv, Answers
        <5> QED BY <5>2, <1>b
      <4> QED BY <4>2, <4>3
    <3>3. ~initial /\ session = Off
      BY <2>2, <3>2
    <3>4. dialog[c] = "CONFIRMED"
      BY DEF Taken, IInv, TypeOK
    <3>5. CASE Alone(c) /\ ~hungUp[c]
      <4>1. agreed[c] = EmptyCSeq /\ overtaken[c]
        BY <3>3, <3>4, <3>5 DEF Taken, IInv, OneCall
      <4> QED BY <4>1, <3>1, <2>2 DEF ReceiverDiesExplained, Taken
    <3>6. CASE ~(Alone(c) /\ ~hungUp[c])
      BY <3>6, <3>1, <1>0 DEF ReceiverDiesExplained, Alone
    <3> QED BY <3>5, <3>6
  <2> QED BY <2>1, <2>2, <1>d
<1> QED BY <1>1, <1>2, <1>3, <1>4, <1>5, <1>6, <1>7, <1>8 DEF IInv

LEMMA ReceiveInv ==
  ASSUME IInv, NEW c \in Calls, NEW i \in 1 .. Len(chan[c]), Receive(c, i)
  PROVE  IInv'
<1> DEFINE r == chan[c][i]
<1>1. Taken(c, r)
  BY ReceiveTakes
<1>2. \/ /\ r.kind # "ACK" /\ answer[c][r.cseq] # 0 /\ AnswerCopy(r)
         /\ UNCHANGED <<dialog, remote, answer, mediaVars, agreed, fatal>>
      \/ /\ dialog[c] = "TERMINATED"
         /\ UNCHANGED <<dialogVars, mediaVars, agreed, fatal>>
      \/ dialog[c] # "TERMINATED" /\ Manage(r)
  BY DEF Receive
<1>3. r.call = c
  BY <1>1 DEF Taken, RequestOf
<1> HIDE DEF r
<1>4. CASE /\ r.kind # "ACK" /\ answer[c][r.cseq] # 0 /\ AnswerCopy(r)
           /\ UNCHANGED <<dialog, remote, answer, mediaVars, agreed, fatal>>
  BY <1>1, <1>4, CopyInv
<1>5. CASE /\ dialog[c] = "TERMINATED"
           /\ UNCHANGED <<dialogVars, mediaVars, agreed, fatal>>
  BY <1>1, <1>5, GoneInv
<1>6. CASE dialog[c] # "TERMINATED" /\ Manage(r)
  <2>1. CheckCSeq(c, r.cseq)
    BY <1>3, <1>6 DEF Manage
  <2>2. CASE r.kind = "INVITE" /\ HandleReInvite(r.call, r.cseq)
    BY <1>1, <1>3, <1>6, <2>1, <2>2, ReInviteInv
  <2>3. CASE r.kind = "ACK" /\ HandleAck(r.call, r.cseq)
    BY <1>1, <1>3, <1>6, <2>1, <2>3, AckInv
  <2>4. CASE r.kind = "OPTIONS" /\ HandleOptions(r.call, r.cseq)
    BY <1>1, <1>3, <1>6, <2>1, <2>4, OptionsInv
  <2>5. CASE r.kind = "BYE" /\ HandleBye(r.call, r.cseq)
    BY <1>1, <1>3, <1>6, <2>1, <2>5, ByeInv
  <2> QED BY <1>6, <2>2, <2>3, <2>4, <2>5 DEF Manage
<1> QED BY <1>2, <1>4, <1>5, <1>6

LEMMA NextInv == IInv /\ [Next]_vars => IInv'
<1> SUFFICES ASSUME IInv, [Next]_vars PROVE IInv'
  OBVIOUS
<1>1. ASSUME NEW c \in Calls, Ring(c) PROVE IInv'
  BY <1>1, RingInv
<1>2. ASSUME NEW c \in Calls, AcceptCall(c) PROVE IInv'
  BY <1>2, AcceptCallInv
<1>3. ASSUME NEW c \in Calls, Answered(c) PROVE IInv'
  BY <1>3, AnsweredInv
<1>4. ASSUME NEW c \in Calls, NEW kind \in Kinds \ {"ACK"}, PeerSends(c, kind) PROVE IInv'
  BY <1>4, PeerSendsInv
<1>5. ASSUME NEW c \in Calls, NEW n \in CSeqs, PeerAcks(c, n) PROVE IInv'
  BY <1>5, PeerAcksInv
<1>6. ASSUME NEW c \in Calls, NEW n \in CSeqs, RepeatAnswer(c, n) PROVE IInv'
  BY <1>6, RepeatAnswerInv
<1>7. ASSUME NEW c \in Calls, NEW i \in 1 .. Len(chan[c]), Receive(c, i) PROVE IInv'
  BY <1>7, ReceiveInv
<1>8. ASSUME NEW c \in Calls, HangUp(c) PROVE IInv'
  BY <1>8, HangUpInv
<1>9. ASSUME NEW c \in Calls, ByeAnswered(c) PROVE IInv'
  BY <1>9, ByeAnsweredInv
<1>10. ASSUME UNCHANGED vars PROVE IInv'
  <2>1. UNCHANGED <<dialog, remote, answer, told, initial, dest, session, hungUp,
                    agreed, overtaken, fatal, chan, cseq, invites, late, acked>>
    BY <1>10 DEF vars, dialogVars, mediaVars, peerVars
  <2>2. TypeOK' /\ Sent' /\ Fresh'
    BY <2>1 DEF IInv, TypeOK, Sent, RequestOf, Fresh
  <2>3. Answers' /\ AckIsFirst' /\ OneCall' /\ SilentAfterBye' /\ ReceiverDiesExplained'
    BY <2>1 DEF IInv, Answers, AckIsFirst, OneCall, SilentAfterBye,
                ReceiverDiesExplained, Alone
  <2> QED BY <2>2, <2>3 DEF IInv
<1> QED BY <1>1, <1>2, <1>3, <1>4, <1>5, <1>6, <1>7, <1>8, <1>9, <1>10 DEF Next

-----------------------------------------------------------------------------
(***************************************************************************)
(* A call whose requests arrive in the order they were sent                *)
(***************************************************************************)

(* Requests are numbered as they are sent, the INVITEs one at a time; an   *)
(* INVITE that waits for its answer is not stale, and no ACK is behind it. *)
InOrder(c) ==
  /\ \A i, j \in 1 .. Len(chan[c]) :
       i < j /\ chan[c][j].kind # "ACK" => chan[c][i].cseq < chan[c][j].cseq
  /\ \A i \in 1 .. Len(chan[c]) :
       chan[c][i].kind # "ACK" /\ answer[c][chan[c][i].cseq] = 0
         => remote[c] <= chan[c][i].cseq
  /\ \A i, j \in 1 .. Len(chan[c]) :
       i < j /\ chan[c][i].kind = "INVITE" /\ answer[c][chan[c][i].cseq] = 0
         => chan[c][j].kind # "ACK"
  /\ remote[c] <= cseq[c]
  /\ \A n \in CSeqs : 500 \notin told[c][n]
  /\ \A m, n \in invites[c] : m = n \/ m \in acked[c] \/ n \in acked[c]

(* The destination is that of the INVITE which is to be acknowledged, and  *)
(* the session's is that of the INVITE acknowledged last.                  *)
Agreed(c) ==
  /\ \A i \in 1 .. Len(chan[c]) :
       chan[c][i].kind = "ACK" => dest = <<c, chan[c][i].cseq>>
  /\ \A n \in invites[c] \ acked[c] : 200 \in told[c][n] => dest = <<c, n>>
  /\ session.call = c /\ agreed[c] # EmptyCSeq => session.dest = <<c, agreed[c]>>

CallOrder(c) ==
  ~overtaken[c] => /\ InOrder(c)
                   /\ late[c] = {} /\ Alone(c) => Agreed(c)

Order == \A c \in Calls : CallOrder(c)

(* A step of one call is enough: with it the others are not alone.         *)
LEMMA OneStep ==
  ASSUME Order, NEW c \in Calls, dialog'[c] # "INIT", CallOrder(c)',
         \A d \in Calls \ {c} :
           /\ chan'[d] = chan[d] /\ answer'[d] = answer[d] /\ told'[d] = told[d]
           /\ remote'[d] = remote[d] /\ cseq'[d] = cseq[d]
           /\ invites'[d] = invites[d] /\ acked'[d] = acked[d]
           /\ overtaken'[d] = overtaken[d]
  PROVE  Order'
<1> SUFFICES ASSUME NEW d \in Calls \ {c}, ~overtaken'[d]
             PROVE  InOrder(d)' /\ ~Alone(d)'
  BY DEF Order, CallOrder
<1>1. ~Alone(d)'
  BY DEF Alone
<1>2. InOrder(d)
  BY DEF Order, CallOrder
<1>3. /\ chan'[d] = chan[d] /\ answer'[d] = answer[d] /\ told'[d] = told[d]
      /\ remote'[d] = remote[d] /\ cseq'[d] = cseq[d]
      /\ invites'[d] = invites[d] /\ acked'[d] = acked[d]
  OBVIOUS
<1>4. InOrder(d)'
  BY <1>2, <1>3 DEF InOrder
<1> QED BY <1>1, <1>4

LEMMA RingOrder ==
  ASSUME IInv, Order, NEW c \in Calls, Ring(c)
  PROVE  Order'
<1> USE Numbers
<1>1. /\ chan[c] = <<>> /\ agreed[c] = EmptyCSeq /\ Len(chan[c]) = 0
      /\ \A n \in CSeqs : told[c][n] = {} /\ answer[c][n] = 0
      /\ 1 <= cseq[c]
  BY EmptySeq DEF Ring, IInv, Fresh, TypeOK
<1>2. /\ dialog'[c] = "EARLY" /\ remote'[c] = 1 /\ invites'[c] = {1}
      /\ \A d \in Calls \ {c} : /\ remote'[d] = remote[d] /\ invites'[d] = invites[d]
      /\ UNCHANGED <<chan, answer, told, cseq, acked, overtaken, agreed, session>>
  BY DEF Ring, IInv, TypeOK
<1>3. InOrder(c)' /\ Agreed(c)'
  BY <1>1, <1>2 DEF InOrder, Agreed
<1> QED BY <1>2, <1>3, OneStep DEF CallOrder

LEMMA AcceptCallOrder ==
  ASSUME IInv, Order, NEW c \in Calls, AcceptCall(c)
  PROVE  Order'
<1> USE Numbers
<1>1. /\ chan[c] = <<>> /\ agreed[c] = EmptyCSeq /\ Len(chan[c]) = 0
      /\ \A n \in CSeqs : told[c][n] = {}
      /\ invites[c] = {1}
  BY EmptySeq DEF AcceptCall, IInv, Fresh
<1>2. /\ dialog'[c] = "CONFIRMED"
      /\ \A d \in Calls \ {c} : /\ answer'[d] = answer[d] /\ told'[d] = told[d]
      /\ told'[c] = [told[c] EXCEPT ![1] = {200}]
      /\ UNCHANGED <<chan, remote, cseq, invites, late, acked, overtaken, agreed, session>>
      /\ dest' = IF 1 \in late[c] THEN dest ELSE <<c, 1>>
  BY DEF AcceptCall, IInv, TypeOK, peerVars
<1>3. \A n \in CSeqs : told'[c][n] = IF n = 1 THEN {200} ELSE {}
  <2>1. told[c] \in [CSeqs -> SUBSET {200, 500}]
    BY DEF IInv, TypeOK
  <2>2. \A n \in CSeqs : told'[c][n] = IF n = 1 THEN {200} ELSE told[c][n]
    BY <2>1, <1>2
  <2> QED BY <2>2, <1>1
<1>4. ASSUME ~overtaken'[c] PROVE InOrder(c)'
  <2>1. InOrder(c)
    BY <1>2, <1>4 DEF Order, CallOrder
  <2> QED BY <2>1, <1>1, <1>2, <1>3 DEF InOrder
<1>5. late'[c] = {} => Agreed(c)'
  BY <1>1, <1>2 DEF Agreed
<1> QED BY <1>2, <1>4, <1>5, OneStep DEF CallOrder

LEMMA AnsweredOrder ==
  ASSUME IInv, Order, NEW c \in Calls, Answered(c)
  PROVE  Order'
<1> USE Numbers
<1>1. /\ chan[c] = <<>> /\ agreed[c] = EmptyCSeq /\ Len(chan[c]) = 0
      /\ invites[c] = {}
  BY EmptySeq DEF Answered, IInv, Fresh
<1>2. /\ dialog'[c] = "CONFIRMED"
      /\ UNCHANGED <<chan, remote, answer, told, cseq, invites, late, acked, overtaken, agreed>>
  BY DEF Answered, IInv, TypeOK, peerVars
<1>4. ASSUME ~overtaken'[c] PROVE InOrder(c)'
  <2>1. InOrder(c)
    BY <1>2, <1>4 DEF Order, CallOrder
  <2> QED BY <2>1, <1>2 DEF InOrder
<1>5. Agreed(c)'
  BY <1>1, <1>2 DEF Agreed
<1> QED BY <1>2, <1>4, <1>5, OneStep DEF CallOrder

LEMMA PeerSendsOrder ==
  ASSUME IInv, Order, NEW c \in Calls, NEW kind \in Kinds \ {"ACK"}, PeerSends(c, kind)
  PROVE  Order'
<1> USE Numbers
<1> DEFINE n == cseq[c] + 1
           s == chan[c]
           e == Req(c, kind, n)
<1>1. /\ dialog'[c] = "CONFIRMED" /\ n \in CSeqs
      /\ cseq'[c] = n /\ chan'[c] = Append(s, e)
      /\ invites'[c] = IF kind = "INVITE" THEN invites[c] \cup {n} ELSE invites[c]
      /\ \A d \in Calls \ {c} : /\ cseq'[d] = cseq[d] /\ chan'[d] = chan[d]
                                /\ invites'[d] = invites[d]
      /\ UNCHANGED <<answer, told, remote, acked, overtaken, dialog, agreed, session, dest>>
  BY DEF PeerSends, IInv, TypeOK, dialogVars, mediaVars
<1>2. late'[c] = {} => late[c] = {}
  BY <1>1, LateFrame DEF PeerSends, IInv
<1>3. cseq[c] \in Nat /\ remote[c] \in Nat
  <2>1. cseq[c] \in CSeqs /\ remote[c] \in CSeqs \cup {EmptyCSeq}
    BY DEF IInv, TypeOK
  <2>2. cseq[c] \in Nat
    BY <2>1
  <2>3. remote[c] \in Nat
    <3>1. CASE remote[c] \in CSeqs
      BY <3>1
    <3>2. CASE remote[c] = EmptyCSeq
      BY <3>2
    <3> QED BY <2>1, <3>1, <3>2
  <2> QED BY <2>2, <2>3
<1>4. s \in Seq(Request) /\ e \in Request /\ e.kind = kind /\ e.cseq = n
  <2>1. s \in Seq(Request)
    BY DEF IInv, TypeOK
  <2> HIDE DEF n
  <2>2. n \in CSeqs /\ kind \in Kinds
    BY <1>1
  <2>3. e \in Request /\ e.kind = kind /\ e.cseq = n
    BY <2>2, Requests
  <2> QED BY <2>1, <2>3
<1>5. /\ Len(Append(s, e)) = Len(s) + 1 /\ Len(s) \in Nat
      /\ \A j \in 1 .. Len(s) : Append(s, e)[j] = s[j]
      /\ Append(s, e)[Len(s) + 1] = e
  BY <1>4, Appended
<1>6. \A j \in 1 .. Len(s) : s[j].cseq \in Nat /\ s[j].cseq < n
  <2> SUFFICES ASSUME NEW j \in 1 .. Len(s) PROVE s[j].cseq \in Nat /\ s[j].cseq < n
    OBVIOUS
  <2>1. s[j] \in Request /\ s[j].cseq <= cseq[c]
    BY <1>4, ElementOfSeq DEF IInv, Sent, RequestOf
  <2> DEFINE k == s[j].cseq
  <2>2. k \in Nat /\ k <= cseq[c]
    BY <2>1 DEF Request
  <2> HIDE DEF k
  <2>3. k < n
    BY <2>2, <1>3
  <2> QED BY <2>2, <2>3 DEF k
<1>7. \A j \in 1 .. Len(s) + 1 : j \in 1 .. Len(s) \/ j = Len(s) + 1
  BY <1>5
<1>8. told[c][n] = {} /\ n \notin invites[c] /\ answer[c][n] = 0
  <2>1. n > cseq[c] /\ ~(n <= cseq[c])
    BY <1>3
  <2> QED BY <2>1, <1>1 DEF IInv, Answers, Sent
<1> HIDE DEF n, s, e
<1>9. ASSUME ~overtaken'[c] PROVE InOrder(c)'
  <2>1. InOrder(c)
    BY <1>1, <1>9 DEF Order, CallOrder
  <2>2. \A i, j \in 1 .. Len(chan'[c]) :
          i < j /\ chan'[c][j].kind # "ACK" => chan'[c][i].cseq < chan'[c][j].cseq
    <3> SUFFICES ASSUME NEW i \in 1 .. Len(s) + 1, NEW j \in 1 .. Len(s) + 1,
                        i < j, chan'[c][j].kind # "ACK"
                 PROVE  chan'[c][i].cseq < chan'[c][j].cseq
      BY <1>1, <1>5
    <3>1. i \in 1 .. Len(s) /\ chan'[c][i] = s[i]
      BY <1>1, <1>5
    <3>2. CASE j \in 1 .. Len(s)
      <4>1. chan'[c][j] = s[j]
        BY <3>2, <1>1, <1>5
      <4>2. s[i].cseq < s[j].cseq
        BY <3>1, <3>2, <4>1, <2>1 DEF InOrder, s
      <4> QED BY <3>1, <4>1, <4>2
    <3>3. CASE j = Len(s) + 1
      BY <3>1, <3>3, <1>1, <1>4, <1>5, <1>6
    <3> QED BY <3>2, <3>3, <1>7
  <2>3. \A i \in 1 .. Len(chan'[c]) :
          chan'[c][i].kind # "ACK" /\ answer'[c][chan'[c][i].cseq] = 0
            => remote'[c] <= chan'[c][i].cseq
    <3> SUFFICES ASSUME NEW i \in 1 .. Len(s) + 1, chan'[c][i].kind # "ACK",
                        answer[c][chan'[c][i].cseq] = 0
                 PROVE  remote[c] <= chan'[c][i].cseq
      BY <1>1, <1>5
    <3>1. CASE i \in 1 .. Len(s)
      <4>1. chan'[c][i] = s[i]
        BY <3>1, <1>1, <1>5
      <4> QED BY <3>1, <4>1, <2>1 DEF InOrder, s
    <3>2. CASE i = Len(s) + 1
      <4>1. chan'[c][i].cseq = n
        BY <3>2, <1>1, <1>4, <1>5
      <4>2. remote[c] <= cseq[c]
        BY <2>1 DEF InOrder
      <4> QED BY <4>1, <4>2, <1>3 DEF n
    <3> QED BY <3>1, <3>2, <1>7
  <2>4. \A i, j \in 1 .. Len(chan'[c]) :
          i < j /\ chan'[c][i].kind = "INVITE" /\ answer'[c][chan'[c][i].cseq] = 0
            => chan'[c][j].kind # "ACK"
    <3> SUFFICES ASSUME NEW i \in 1 .. Len(s) + 1, NEW j \in 1 .. Len(s) + 1,
                        i < j, chan'[c][i].kind = "INVITE", answer[c][chan'[c][i].cseq] = 0
                 PROVE  chan'[c][j].kind # "ACK"
      BY <1>1, <1>5
    <3>1. i \in 1 .. Len(s) /\ chan'[c][i] = s[i]
      BY <1>1, <1>5
    <3>2. CASE j \in 1 .. Len(s)
      <4>1. chan'[c][j] = s[j]
        BY <3>2, <1>1, <1>5
      <4> QED BY <3>1, <3>2, <4>1, <2>1 DEF InOrder, s
    <3>3. CASE j = Len(s) + 1
      BY <3>3, <1>1, <1>4, <1>5
    <3> QED BY <3>2, <3>3, <1>7
  <2>5. remote'[c] <= cseq'[c] /\ \A m \in CSeqs : 500 \notin told'[c][m]
    <3>1. remote[c] <= cseq[c] /\ \A m \in CSeqs : 500 \notin told[c][m]
      BY <2>1 DEF InOrder
    <3>2. remote[c] <= n
      BY <3>1, <1>3 DEF n
    <3> QED BY <3>1, <3>2, <1>1
  <2>6. \A l, m \in invites'[c] : l = m \/ l \in acked'[c] \/ m \in acked'[c]
    <3>1. CASE kind # "INVITE"
      BY <3>1, <2>1, <1>1 DEF InOrder
    <3>2. CASE kind = "INVITE"
      <4>1. \A m \in invites[c] : m \in acked[c]
        <5> SUFFICES ASSUME NEW m \in invites[c] PROVE m \in acked[c]
          OBVIOUS
        <5>1. m \in CSeqs /\ told[c][m] \subseteq {200, 500}
          BY DEF IInv, TypeOK
        <5>2. told[c][m] # {} /\ (200 \in told[c][m] => m \in acked[c])
          BY <3>2 DEF PeerSends, Settled
        <5> QED BY <5>1, <5>2, <2>1 DEF InOrder
      <4> QED BY <4>1, <1>1
    <3> QED BY <3>1, <3>2
  <2> QED BY <2>2, <2>3, <2>4, <2>5, <2>6 DEF InOrder
<1>10. ASSUME ~overtaken'[c], late'[c] = {}, Alone(c)' PROVE Agreed(c)'
  <2>1. Agreed(c)
    BY <1>1, <1>2, <1>10 DEF Order, CallOrder, Alone
  <2>2. \A i \in 1 .. Len(chan'[c]) :
          chan'[c][i].kind = "ACK" => dest' = <<c, chan'[c][i].cseq>>
    <3> SUFFICES ASSUME NEW i \in 1 .. Len(s) + 1, chan'[c][i].kind = "ACK"
                 PROVE  dest = <<c, chan'[c][i].cseq>>
      BY <1>1, <1>5
    <3>1. i \in 1 .. Len(s)
      BY <1>1, <1>4, <1>5, <1>7
    <3>2. chan'[c][i] = s[i]
      BY <3>1, <1>1, <1>5
    <3> QED BY <3>1, <3>2, <2>1 DEF Agreed, s
  <2>3. \A m \in invites'[c] \ acked'[c] : 200 \in told'[c][m] => dest' = <<c, m>>
    BY <2>1, <1>1, <1>8 DEF Agreed
  <2> QED BY <2>1, <2>2, <2>3, <1>1 DEF Agreed
<1>11. dialog'[c] # "INIT"
  BY <1>1
<1> QED BY <1>1, <1>9, <1>10, <1>11, OneStep DEF CallOrder

LEMMA PeerAcksOrder ==
  ASSUME IInv, Order, NEW c \in Calls, NEW n \in CSeqs, PeerAcks(c, n)
  PROVE  Order'
<1> USE Numbers
<1> DEFINE s == chan[c]
           e == Req(c, "ACK", n)
<1>1. /\ n \in invites[c] \ acked[c] /\ 200 \in told[c][n]
      /\ acked'[c] = acked[c] \cup {n} /\ chan'[c] = Append(s, e)
      /\ \A d \in Calls \ {c} : /\ acked'[d] = acked[d] /\ chan'[d] = chan[d]
      /\ UNCHANGED <<answer, told, remote, cseq, invites, late, overtaken, dialog, agreed,
                     session, dest>>
  BY DEF PeerAcks, IInv, TypeOK, dialogVars, mediaVars
<1>2. dialog[c] # "INIT"
  BY <1>1 DEF IInv, Fresh
<1>3. s \in Seq(Request) /\ e \in Request /\ e.kind = "ACK" /\ e.cseq = n
  BY Requests DEF IInv, TypeOK, Kinds
<1>4. /\ Len(Append(s, e)) = Len(s) + 1 /\ Len(s) \in Nat
      /\ \A j \in 1 .. Len(s) : Append(s, e)[j] = s[j]
      /\ Append(s, e)[Len(s) + 1] = e
  BY <1>3, Appended
<1>5. \A j \in 1 .. Len(s) + 1 : j \in 1 .. Len(s) \/ j = Len(s) + 1
  BY <1>4
<1> HIDE DEF s, e
<1>6. ASSUME ~overtaken'[c] PROVE InOrder(c)'
  <2>1. InOrder(c)
    BY <1>1, <1>6 DEF Order, CallOrder
  <2>2. \A i, j \in 1 .. Len(chan'[c]) :
          i < j /\ chan'[c][j].kind # "ACK" => chan'[c][i].cseq < chan'[c][j].cseq
    <3> SUFFICES ASSUME NEW i \in 1 .. Len(s) + 1, NEW j \in 1 .. Len(s) + 1,
                        i < j, chan'[c][j].kind # "ACK"
                 PROVE  chan'[c][i].cseq < chan'[c][j].cseq
      BY <1>1, <1>4
    <3>1. i \in 1 .. Len(s) /\ chan'[c][i] = s[i]
      BY <1>1, <1>4
    <3>2. j \in 1 .. Len(s)
      BY <1>1, <1>3, <1>4, <1>5
    <3>3. chan'[c][j] = s[j]
      BY <3>2, <1>1, <1>4
    <3> QED BY <3>1, <3>2, <3>3, <2>1 DEF InOrder, s
  <2>3. \A i \in 1 .. Len(chan'[c]) :
          chan'[c][i].kind # "ACK" /\ answer'[c][chan'[c][i].cseq] = 0
            => remote'[c] <= chan'[c][i].cseq
    <3> SUFFICES ASSUME NEW i \in 1 .. Len(s) + 1, chan'[c][i].kind # "ACK",
                        answer[c][chan'[c][i].cseq] = 0
                 PROVE  remote[c] <= chan'[c][i].cseq
      BY <1>1, <1>4
    <3>1. i \in 1 .. Len(s)
      BY <1>1, <1>3, <1>4, <1>5
    <3>2. chan'[c][i] = s[i]
      BY <3>1, <1>1, <1>4
    <3> QED BY <3>1, <3>2, <2>1 DEF InOrder, s
  <2>4. \A i, j \in 1 .. Len(chan'[c]) :
          i < j /\ chan'[c][i].kind = "INVITE" /\ answer'[c][chan'[c][i].cseq] = 0
            => chan'[c][j].kind # "ACK"
    <3> SUFFICES ASSUME NEW i \in 1 .. Len(s) + 1, NEW j \in 1 .. Len(s) + 1,
                        i < j, chan'[c][i].kind = "INVITE", answer[c][chan'[c][i].cseq] = 0
                 PROVE  chan'[c][j].kind # "ACK"
      BY <1>1, <1>4
    <3>1. i \in 1 .. Len(s) /\ chan'[c][i] = s[i]
      BY <1>1, <1>4
    <3>2. j \in 1 .. Len(s)
      (* the INVITE would be another one which is not acknowledged *)
      <4>1. s[i] \in Request /\ RequestOf(c, s[i])
        BY <3>1, <1>3, ElementOfSeq DEF IInv, Sent, s
      <4> DEFINE m == s[i].cseq
      <4>2. m \in CSeqs /\ m \in invites[c] /\ answer[c][m] = 0
        BY <3>1, <4>1 DEF RequestOf, Request
      <4> HIDE DEF m
      <4>3. m \notin acked[c] /\ answer[c][n] = 200
        BY <4>2, <1>1 DEF IInv, Answers
      <4>4. m = n
        BY <4>2, <4>3, <1>1, <2>1 DEF InOrder
      <4> QED BY <4>2, <4>3, <4>4
    <3>3. chan'[c][j] = s[j]
      BY <3>2, <1>1, <1>4
    <3> QED BY <3>1, <3>2, <3>3, <2>1 DEF InOrder, s
  <2>5. /\ remote'[c] <= cseq'[c] /\ \A m \in CSeqs : 500 \notin told'[c][m]
        /\ \A l, m \in invites'[c] : l = m \/ l \in acked'[c] \/ m \in acked'[c]
    BY <2>1, <1>1 DEF InOrder
  <2> QED BY <2>2, <2>3, <2>4, <2>5 DEF InOrder
<1>7. ASSUME ~overtaken'[c], late'[c] = {}, Alone(c)' PROVE Agreed(c)'
  <2>1. Agreed(c)
    BY <1>1, <1>7 DEF Order, CallOrder, Alone
  <2>2. \A i \in 1 .. Len(chan'[c]) :
          chan'[c][i].kind = "ACK" => dest' = <<c, chan'[c][i].cseq>>
    <3> SUFFICES ASSUME NEW i \in 1 .. Len(s) + 1, chan'[c][i].kind = "ACK"
                 PROVE  dest = <<c, chan'[c][i].cseq>>
      BY <1>1, <1>4
    <3>1. CASE i \in 1 .. Len(s)
      <4>1. chan'[c][i] = s[i]
        BY <3>1, <1>1, <1>4
      <4> QED BY <3>1, <4>1, <2>1 DEF Agreed, s
    <3>2. CASE i = Len(s) + 1
      <4>1. chan'[c][i].cseq = n
        BY <3>2, <1>1, <1>3, <1>4
      <4> QED BY <4>1, <2>1, <1>1 DEF Agreed
    <3> QED BY <3>1, <3>2, <1>5
  <2>3. \A m \in invites'[c] \ acked'[c] : 200 \in told'[c][m] => dest' = <<c, m>>
    BY <2>1, <1>1 DEF Agreed
  <2> QED BY <2>1, <2>2, <2>3, <1>1 DEF Agreed
<1> QED BY <1>1, <1>2, <1>6, <1>7, OneStep DEF CallOrder

(* Steps of a call that leave its requests and their answers alone.        *)
LEMMA QuietOrder ==
  ASSUME Order, NEW c \in Calls, dialog'[c] # "INIT",
         \A d \in Calls \ {c} : dialog'[d] = dialog[d],
         UNCHANGED <<chan, answer, told, remote, cseq, invites, late, acked, overtaken,
                     agreed, dest>>,
         session' = session \/ session' = Off
  PROVE  Order'
<1>1. ASSUME ~overtaken'[c] PROVE InOrder(c)'
  BY <1>1 DEF Order, CallOrder, InOrder
<1>2. ASSUME ~overtaken'[c], late'[c] = {}, Alone(c)' PROVE Agreed(c)'
  <2>1. Agreed(c)
    BY <1>2 DEF Order, CallOrder, Alone
  <2>2. session'.call = c => session' = session
    BY Places
  <2> QED BY <2>1, <2>2 DEF Agreed
<1> QED BY <1>1, <1>2, OneStep DEF CallOrder

LEMMA HangUpOrder ==
  ASSUME IInv, Order, NEW c \in Calls, HangUp(c)
  PROVE  Order'
<1>1. /\ UNCHANGED <<dialog, chan, answer, told, remote, cseq, invites, late, acked,
                     overtaken, agreed, dest>>
      /\ session' = Off /\ dialog[c] # "INIT"
  BY DEF HangUp, dialogVars, peerVars
<1> QED BY <1>1, QuietOrder

LEMMA ByeAnsweredOrder ==
  ASSUME IInv, Order, NEW c \in Calls, ByeAnswered(c)
  PROVE  Order'
<1>1. /\ UNCHANGED <<chan, answer, told, remote, cseq, invites, late, acked, overtaken,
                     agreed, dest, session>>
      /\ dialog'[c] = "TERMINATED"
      /\ \A d \in Calls \ {c} : dialog'[d] = dialog[d]
  BY DEF ByeAnswered, IInv, TypeOK, mediaVars, peerVars
<1> QED BY <1>1, QuietOrder

(* No request of a call in order is refused.                               *)
LEMMA RepeatAnswerOrder ==
  ASSUME IInv, Order, NEW c \in Calls, NEW n \in CSeqs, RepeatAnswer(c, n)
  PROVE  Order'
<1>1. /\ 500 \in told[c][n]
      /\ UNCHANGED <<dialog, chan, answer, remote, cseq, invites, acked, overtaken>>
      /\ \A d \in Calls \ {c} : told'[d] = told[d]
  BY DEF RepeatAnswer, IInv, TypeOK, peerVars
<1>2. dialog[c] # "INIT"
  BY <1>1 DEF IInv, Fresh
<1>3. overtaken'[c]
  BY <1>1 DEF Order, CallOrder, InOrder
<1> QED BY <1>1, <1>2, <1>3, OneStep DEF CallOrder

-----------------------------------------------------------------------------
(* What is left of the requests when the first is taken, or copied (k is   *)
(* the number of those that have gone).                                    *)
Moved(c, k) ==
  /\ Len(chan'[c]) = Len(chan[c]) - k
  /\ \A j \in 1 .. Len(chan'[c]) :
       j + k \in 1 .. Len(chan[c]) /\ chan'[c][j] = chan[c][j + k]

LEMMA FirstRemoved ==
  ASSUME NEW S, NEW s \in Seq(S), s # <<>>
  PROVE  /\ Len(RemoveAt(s, 1)) = Len(s) - 1
         /\ \A j \in 1 .. Len(s) - 1 : RemoveAt(s, 1)[j] = s[j + 1]
<1> DEFINE a == SubSeq(s, 1, 0)
           b == SubSeq(s, 2, Len(s))
<1>1. Len(s) \in Nat /\ Len(s) # 0
  BY LenProperties, EmptySeq
<1>2. \A k \in 1 .. Len(s) : s[k] \in S
  BY ElementOfSeq
<1>3. a \in Seq(S) /\ Len(a) = 0
  BY SubSeqProperties
<1>4. /\ b \in Seq(S)
      /\ Len(b) = IF 2 <= Len(s) THEN Len(s) - 2 + 1 ELSE 0
      /\ \A k \in 1 .. Len(s) - 2 + 1 : b[k] = s[2 + k - 1]
  <2>1. \A k \in 2 .. Len(s) : s[k] \in S
    BY <1>1, <1>2
  <2> QED BY <2>1, <1>1, SubSeqProperties
<1>5. RemoveAt(s, 1) = a \o b
  BY <1>1 DEF RemoveAt
<1> HIDE DEF a, b
<1>6. /\ Len(a \o b) = Len(a) + Len(b)
      /\ \A k \in 1 .. Len(a) + Len(b) :
           (a \o b)[k] = IF k <= Len(a) THEN a[k] ELSE b[k - Len(a)]
  BY <1>3, <1>4, ConcatProperties
<1>7. Len(b) = Len(s) - 1 /\ Len(a \o b) = Len(s) - 1
  <2>1. CASE 2 <= Len(s)
    BY <2>1, <1>1, <1>3, <1>4, <1>6
  <2>2. CASE ~(2 <= Len(s))
    <3>1. Len(s) = 1
      <4> DEFINE l == Len(s)
      <4>1. l \in Nat /\ l # 0 /\ ~(2 <= l)
        BY <2>2, <1>1
      <4> HIDE DEF l
      <4>2. l = 1
        BY <4>1
      <4> QED BY <4>2 DEF l
    <3> QED BY <3>1, <1>3, <1>4, <1>6
  <2> QED BY <2>1, <2>2
<1>8. ASSUME NEW j \in 1 .. Len(s) - 1 PROVE (a \o b)[j] = s[j + 1]
  <2>1. (a \o b)[j] = b[j - 0]
    BY <1>1, <1>3, <1>6, <1>7
  <2>2. j - 0 = j /\ 2 + j - 1 = j + 1 /\ b[j] = s[2 + j - 1]
    BY <1>1, <1>4
  <2> QED BY <2>1, <2>2
<1> QED BY <1>5, <1>7, <1>8

LEMMA FirstTaken ==
  ASSUME IInv, Order, NEW c \in Calls, NEW i \in 1 .. Len(chan[c]), Receive(c, i),
         ~overtaken'[c]
  PROVE  /\ i = 1 /\ ~overtaken[c] /\ InOrder(c) /\ Len(chan[c]) \in Nat \ {0}
         /\ \E k \in {0, 1} : Moved(c, k)
<1>0. /\ chan \in [Calls -> Seq(Request)] /\ overtaken \in [Calls -> BOOLEAN]
      /\ chan[c] \in Seq(Request)
  BY DEF IInv, TypeOK
<1>1. /\ overtaken' = [overtaken EXCEPT ![c] = @ \/ i # 1]
      /\ chan' = [chan EXCEPT ![c] = RemoveAt(@, i)] \/ chan' = chan
  BY DEF Receive
<1>2. i = 1 /\ ~overtaken[c] /\ InOrder(c)
  BY <1>0, <1>1 DEF Order, CallOrder
<1>3. Len(chan[c]) \in Nat \ {0} /\ chan[c] # <<>>
  BY <1>0, LenProperties, EmptySeq
<1>4. CASE chan' = chan
  <2>1. Moved(c, 0)
    BY <1>3, <1>4 DEF Moved
  <2> QED BY <2>1, <1>2, <1>3
<1>5. CASE chan' = [chan EXCEPT ![c] = RemoveAt(@, i)]
  <2>1. chan'[c] = RemoveAt(chan[c], 1)
    BY <1>0, <1>2, <1>5
  <2>2. /\ Len(chan'[c]) = Len(chan[c]) - 1
        /\ \A j \in 1 .. Len(chan[c]) - 1 : chan'[c][j] = chan[c][j + 1]
    BY <2>1, <1>0, <1>3, FirstRemoved
  <2>3. Moved(c, 1)
    BY <2>2, <1>3 DEF Moved
  <2> QED BY <2>3, <1>2, <1>3
<1> QED BY <1>1, <1>4, <1>5

LEMMA QueueOrder ==
  ASSUME IInv, NEW c \in Calls, InOrder(c), NEW k \in {0, 1}, Moved(c, k),
         Len(chan[c]) \in Nat \ {0},
         UNCHANGED <<cseq, invites, acked>>,
         \A n \in CSeqs : answer'[c][n] = 0 => answer[c][n] = 0,
         \A n \in CSeqs : 500 \notin told'[c][n],
         \/ remote'[c] = remote[c]
         \/ /\ remote'[c] = chan[c][1].cseq
            /\ chan[c][1].kind # "ACK" => answer'[c][chan[c][1].cseq] # 0
  PROVE  InOrder(c)'
<1> USE Numbers
<1> DEFINE s == chan[c]
<1>1. \A j \in 1 .. Len(s) : s[j] \in Request /\ s[j].cseq \in CSeqs /\ s[j].cseq <= cseq[c]
  <2> SUFFICES ASSUME NEW j \in 1 .. Len(s)
               PROVE  s[j] \in Request /\ s[j].cseq \in CSeqs /\ s[j].cseq <= cseq[c]
    OBVIOUS
  <2>1. s \in Seq(Request)
    BY DEF IInv, TypeOK
  <2>2. s[j] \in Request /\ s[j].cseq <= cseq[c]
    BY <2>1, ElementOfSeq DEF IInv, Sent, RequestOf
  <2> QED BY <2>2 DEF Request
<1>2. \A j \in 1 .. Len(chan'[c]) : j + k \in 1 .. Len(s) /\ chan'[c][j] = s[j + k]
  BY DEF Moved
<1>3. \A i, j \in 1 .. Len(chan'[c]) : i < j => i + k < j + k
  OBVIOUS
<1> HIDE DEF s
<1>4. \A i, j \in 1 .. Len(chan'[c]) :
        i < j /\ chan'[c][j].kind # "ACK" => chan'[c][i].cseq < chan'[c][j].cseq
  <2> SUFFICES ASSUME NEW i \in 1 .. Len(chan'[c]), NEW j \in 1 .. Len(chan'[c]),
                      i < j, chan'[c][j].kind # "ACK"
               PROVE  chan'[c][i].cseq < chan'[c][j].cseq
    OBVIOUS
  <2>0. chan'[c][i] = s[i + k] /\ chan'[c][j] = s[j + k]
    BY <1>2
  <2>1. i + k \in 1 .. Len(s) /\ j + k \in 1 .. Len(s) /\ i + k < j + k
    BY <1>2, <1>3
  <2>2. \A a, b \in 1 .. Len(s) : a < b /\ s[b].kind # "ACK" => s[a].cseq < s[b].cseq
    BY DEF InOrder, s
  <2> QED BY <2>0, <2>1, <2>2
<1>5. \A i \in 1 .. Len(chan'[c]) :
        chan'[c][i].kind # "ACK" /\ answer'[c][chan'[c][i].cseq] = 0
          => remote'[c] <= chan'[c][i].cseq
  <2> SUFFICES ASSUME NEW i \in 1 .. Len(chan'[c]), s[i + k].kind # "ACK",
                      answer'[c][s[i + k].cseq] = 0
               PROVE  remote'[c] <= s[i + k].cseq
    BY <1>2
  <2>1. i + k \in 1 .. Len(s) /\ 1 \in 1 .. Len(s)
    BY <1>2 DEF s
  <2> DEFINE l == i + k
  <2> HIDE DEF l
  <2>2. /\ l \in 1 .. Len(s) /\ s[l].kind # "ACK" /\ answer'[c][s[l].cseq] = 0
        /\ s[l].cseq \in CSeqs /\ s[1].cseq \in CSeqs
    BY <2>1, <1>1 DEF l
  <2>3. answer[c][s[l].cseq] = 0
    BY <2>2
  <2>4. CASE remote'[c] = remote[c]
    BY <2>2, <2>3, <2>4 DEF InOrder, s, l
  <2>5. CASE /\ remote'[c] = s[1].cseq
             /\ s[1].kind # "ACK" => answer'[c][s[1].cseq] # 0
    <3>1. l # 1
      BY <2>2, <2>5
    <3>2. 1 < l
      BY <3>1, <2>2
    <3>3. \A a, b \in 1 .. Len(s) : a < b /\ s[b].kind # "ACK" => s[a].cseq < s[b].cseq
      BY DEF InOrder, s
    <3>4. s[1].cseq < s[l].cseq
      BY <3>2, <3>3, <2>1, <2>2
    <3> DEFINE x == s[1].cseq
               y == s[l].cseq
    <3>5. x \in Nat /\ y \in Nat /\ x < y
      BY <3>4, <2>2
    <3> HIDE DEF x, y
    <3>6. x <= y
      BY <3>5
    <3> QED BY <3>6, <2>5 DEF x, y, l
  <2> QED BY <2>4, <2>5 DEF s
<1>6. \A i, j \in 1 .. Len(chan'[c]) :
        i < j /\ chan'[c][i].kind = "INVITE" /\ answer'[c][chan'[c][i].cseq] = 0
          => chan'[c][j].kind # "ACK"
  <2> SUFFICES ASSUME NEW i \in 1 .. Len(chan'[c]), NEW j \in 1 .. Len(chan'[c]),
                      i < j, chan'[c][i].kind = "INVITE", answer'[c][chan'[c][i].cseq] = 0
               PROVE  chan'[c][j].kind # "ACK"
    OBVIOUS
  <2>0. chan'[c][i] = s[i + k] /\ chan'[c][j] = s[j + k]
    BY <1>2
  <2>1. i + k \in 1 .. Len(s) /\ j + k \in 1 .. Len(s) /\ i + k < j + k
    BY <1>2, <1>3
  <2>2. answer[c][s[i + k].cseq] = 0
    BY <2>0, <2>1, <1>1
  <2>3. \A a, b \in 1 .. Len(s) :
          a < b /\ s[a].kind = "INVITE" /\ answer[c][s[a].cseq] = 0 => s[b].kind # "ACK"
    BY DEF InOrder, s
  <2> QED BY <2>0, <2>1, <2>2, <2>3
<1>7. remote'[c] <= cseq'[c]
  <2>1. 1 \in 1 .. Len(s)
    BY DEF s
  <2> QED BY <2>1, <1>1 DEF InOrder, s
<1>8. \A m, n \in invites'[c] : m = n \/ m \in acked'[c] \/ n \in acked'[c]
  BY DEF InOrder
<1> QED BY <1>4, <1>5, <1>6, <1>7, <1>8 DEF InOrder

(* The destination stays, and so do the answers to the INVITEs.            *)
LEMMA QueueAgreed ==
  ASSUME NEW c \in Calls, Agreed(c), NEW k \in {0, 1}, Moved(c, k),
         UNCHANGED <<invites, acked, dest>>,
         \A n \in invites[c] : told'[c][n] = told[c][n],
         session'.call = c /\ agreed'[c] # EmptyCSeq => session'.dest = <<c, agreed'[c]>>
  PROVE  Agreed(c)'
<1>1. \A i \in 1 .. Len(chan'[c]) :
        chan'[c][i].kind = "ACK" => dest' = <<c, chan'[c][i].cseq>>
  BY DEF Moved, Agreed
<1>2. \A n \in invites'[c] \ acked'[c] : 200 \in told'[c][n] => dest' = <<c, n>>
  BY DEF Agreed
<1> QED BY <1>1, <1>2 DEF Agreed

(* What a request that is taken in order does.                             *)
LEMMA ReceiveOrder ==
  ASSUME IInv, Order, NEW c \in Calls, NEW i \in 1 .. Len(chan[c]), Receive(c, i)
  PROVE  Order'
<1> USE Numbers
<1> DEFINE r == chan[c][i]
           n == r.cseq
<1>1. Taken(c, r)
  BY ReceiveTakes
<1>2. /\ n \in CSeqs /\ r.kind \in Kinds /\ r.call = c
      /\ UNCHANGED <<cseq, invites, acked, late>>
      /\ dialog[c] # "INIT"
      /\ \A d \in Calls \ {c} : chan'[d] = chan[d] /\ overtaken'[d] = overtaken[d]
  BY <1>1, Numbered DEF Taken, peerVars
<1>3. \/ /\ r.kind # "ACK" /\ answer[c][n] # 0 /\ AnswerCopy(r)
         /\ UNCHANGED <<dialog, remote, answer, mediaVars, agreed, fatal>>
      \/ /\ dialog[c] = "TERMINATED"
         /\ UNCHANGED <<dialogVars, mediaVars, agreed, fatal>>
      \/ /\ r.kind = "ACK" \/ answer[c][n] = 0
         /\ dialog[c] # "TERMINATED" /\ Manage(r)
  <2>1. \/ /\ r.kind # "ACK" /\ answer[c][r.cseq] # 0 /\ AnswerCopy(r)
           /\ UNCHANGED <<dialog, remote, answer, mediaVars, agreed, fatal>>
        \/ /\ dialog[c] = "TERMINATED"
           /\ UNCHANGED <<dialogVars, mediaVars, agreed, fatal>>
        \/ /\ ~(r.kind # "ACK" /\ answer[c][r.cseq] # 0)
           /\ dialog[c] # "TERMINATED" /\ Manage(r)
    BY DEF Receive
  <2> QED BY <2>1
<1>4. /\ answer \in [Calls -> [CSeqs -> {0, 200}]] /\ remote \in [Calls -> CSeqs \cup {EmptyCSeq}]
      /\ told \in [Calls -> [CSeqs -> SUBSET {200, 500}]]
      /\ dialog \in [Calls -> {"INIT", "EARLY", "CONFIRMED", "TERMINATED"}]
  BY DEF IInv, TypeOK
<1>5. r.kind = "ACK" => n \in acked[c]
  BY <1>1 DEF Taken, RequestOf
<1>6. r.kind \in {"OPTIONS", "BYE"} => n \notin invites[c]
  BY <1>1 DEF Taken, RequestOf
<1>7. r.kind = "INVITE" => n \in invites[c]
  BY <1>1 DEF Taken, RequestOf
<1>8. ASSUME ~overtaken'[c]
      PROVE  /\ i = 1 /\ ~overtaken[c] /\ InOrder(c) /\ Len(chan[c]) \in Nat \ {0}
             /\ \E k \in {0, 1} : Moved(c, k)
  BY <1>8, FirstTaken
<1>9. ASSUME ~overtaken'[c], late'[c] = {}, Alone(c)', \A d \in Calls \ {c} : dialog'[d] = dialog[d]
      PROVE  Agreed(c)
  BY <1>2, <1>8, <1>9 DEF Order, CallOrder, Alone
<1> HIDE DEF r, n
<1>10. CASE /\ r.kind # "ACK" /\ answer[c][n] # 0 /\ AnswerCopy(r)
            /\ UNCHANGED <<dialog, remote, answer, mediaVars, agreed, fatal>>
  <2>1. /\ answer[c][n] = 200
        /\ told'[c][n] = IF r.kind # "INVITE" \/ 500 \in told[c][n]
                           THEN told[c][n] \cup {200} ELSE told[c][n]
        /\ \A m \in CSeqs : m # n => told'[c][m] = told[c][m]
        /\ \A d \in Calls \ {c} : told'[d] = told[d]
    <3>1. answer[c][r.cseq] # 0
      BY <1>10 DEF n
    <3>2. Copied(c, r)
      BY <3>1, <1>1, <1>10, CopyFrame
    <3> QED BY <3>2 DEF n, Copied
  <2>2. UNCHANGED <<dialog, remote, answer, dest, session, agreed>>
    BY <1>10 DEF mediaVars
  <2>3. ASSUME ~overtaken'[c] PROVE InOrder(c)'
    <3>1. PICK k \in {0, 1} : Moved(c, k)
      BY <2>3, <1>8
    <3>2. \A m \in CSeqs : 500 \notin told[c][m]
      BY <2>3, <1>8 DEF InOrder
    <3>3. \A m \in CSeqs : 500 \notin told'[c][m]
      <4> SUFFICES ASSUME NEW m \in CSeqs PROVE 500 \notin told'[c][m]
        OBVIOUS
      <4>1. told'[c][m] \subseteq told[c][m] \cup {200}
        BY <2>1
      <4> QED BY <4>1, <3>2
    <3> QED BY <3>1, <3>3, <2>2, <2>3, <1>2, <1>8, QueueOrder
  <2>4. ASSUME ~overtaken'[c], late'[c] = {}, Alone(c)' PROVE Agreed(c)'
    <3>1. PICK k \in {0, 1} : Moved(c, k)
      BY <2>4, <1>8
    <3>2. Agreed(c)
      BY <2>2, <2>4, <1>9
    <3>3. \A m \in CSeqs : 500 \notin told[c][m]
      BY <2>4, <1>8 DEF InOrder
    <3>4. \A m \in invites[c] : told'[c][m] = told[c][m]
      <4> SUFFICES ASSUME NEW m \in invites[c] PROVE told'[c][m] = told[c][m]
        OBVIOUS
      <4>1. m \in CSeqs
        BY DEF IInv, TypeOK
      <4>2. CASE m = n
        BY <4>2, <3>3, <2>1, <1>2, <1>6, <1>10 DEF Kinds
      <4>3. CASE m # n
        BY <4>1, <4>3, <2>1
      <4> QED BY <4>2, <4>3
    <3>5. session'.call = c /\ agreed'[c] # EmptyCSeq => session'.dest = <<c, agreed'[c]>>
      BY <3>2, <2>2 DEF Agreed
    <3> QED BY <3>1, <3>2, <3>4, <3>5, <2>2, <1>2, QueueAgreed
  <2> QED BY <2>1, <2>2, <2>3, <2>4, <1>2, OneStep DEF CallOrder
<1>11. CASE /\ dialog[c] = "TERMINATED"
            /\ UNCHANGED <<dialogVars, mediaVars, agreed, fatal>>
  <2>1. UNCHANGED <<dialog, remote, answer, told, dest, session, agreed>>
    BY <1>11 DEF dialogVars, mediaVars
  <2>2. ASSUME ~overtaken'[c] PROVE InOrder(c)'
    <3>1. PICK k \in {0, 1} : Moved(c, k)
      BY <2>2, <1>8
    <3>2. \A m \in CSeqs : 500 \notin told'[c][m]
      BY <2>1, <2>2, <1>8 DEF InOrder
    <3> QED BY <3>1, <3>2, <2>1, <2>2, <1>2, <1>8, QueueOrder
  <2>3. ASSUME ~overtaken'[c], late'[c] = {}, Alone(c)' PROVE Agreed(c)'
    <3>1. PICK k \in {0, 1} : Moved(c, k)
      BY <2>3, <1>8
    <3>2. Agreed(c)
      BY <2>1, <2>3, <1>9
    <3>3. session'.call = c /\ agreed'[c] # EmptyCSeq => session'.dest = <<c, agreed'[c]>>
      BY <3>2, <2>1 DEF Agreed
    <3> QED BY <3>1, <3>2, <3>3, <2>1, <1>2, QueueAgreed
  <2> QED BY <2>1, <2>2, <2>3, <1>2, OneStep DEF CallOrder
<1>12. CASE /\ r.kind = "ACK" \/ answer[c][n] = 0
            /\ dialog[c] # "TERMINATED" /\ Manage(r)
  <2>0. /\ \A d \in Calls \ {c} : remote'[d] = remote[d]
        /\ remote'[c] = IF Stale(c, n) THEN remote[c] ELSE n
    BY <1>2, <1>4, <1>12 DEF Manage, CheckCSeq, n
  <2>1. CASE r.kind = "INVITE" /\ HandleReInvite(c, n)
    <3>1. /\ answer[c][n] = 0
          /\ Recorded(c, n)
          /\ told' = [told EXCEPT ![c][n] = {IF Stale(c, n) THEN 500 ELSE 200}]
          /\ dest' = IF n \in late[c] THEN dest ELSE <<c, n>>
          /\ UNCHANGED <<dialog, session, agreed>>
      BY <2>1, <1>2, <1>12, AnswerFrame DEF HandleReInvite
    <3>2. \A d \in Calls \ {c} : told'[d] = told[d] /\ answer'[d] = answer[d]
      BY <3>1, <1>4 DEF Recorded
    <3>3. ASSUME ~overtaken'[c]
          PROVE  /\ \A m \in CSeqs : told'[c][m] = IF m = n THEN {200} ELSE told[c][m]
                 /\ r = chan[c][1]
      <4>1. i = 1 /\ InOrder(c) /\ Len(chan[c]) \in Nat \ {0}
        BY <3>3, <1>8
      <4>2. remote[c] <= n
        BY <4>1, <3>1, <2>1 DEF InOrder, r, n
      <4>3. remote[c] \in Nat /\ n \in Nat
        <5>1. remote[c] \in CSeqs \cup {EmptyCSeq}
          BY <1>4
        <5>2. remote[c] = EmptyCSeq => remote[c] \in Nat
          OBVIOUS
        <5>3. remote[c] \in CSeqs => remote[c] \in Nat
          OBVIOUS
        <5>4. n \in Nat
          BY <1>2
        <5> QED BY <5>1, <5>2, <5>3, <5>4
      <4>4. ~Stale(c, n)
        BY <4>2, <4>3 DEF Stale
      <4>5. told' = [told EXCEPT ![c][n] = {200}]
        BY <4>4, <3>1
      <4> QED BY <4>1, <4>5, <1>2, <1>4 DEF r
    <3>4. ASSUME ~overtaken'[c] PROVE InOrder(c)'
      <4>1. PICK k \in {0, 1} : Moved(c, k)
        BY <3>4, <1>8
      <4>2. \A m \in CSeqs : 500 \notin told'[c][m]
        <5>1. \A m \in CSeqs : 500 \notin told[c][m]
          BY <3>4, <1>8 DEF InOrder
        <5> SUFFICES ASSUME NEW m \in CSeqs PROVE 500 \notin told'[c][m]
          OBVIOUS
        <5>2. told'[c][m] = {200} \/ told'[c][m] = told[c][m]
          BY <3>3, <3>4
        <5> QED BY <5>1, <5>2
      <4>3. \A m \in CSeqs : answer'[c][m] = 0 => answer[c][m] = 0
        BY <3>1 DEF Recorded
      <4>4. remote'[c] = remote[c] \/ (remote'[c] = n /\ answer'[c][n] # 0)
        BY <2>0, <3>1 DEF Recorded
      <4>5. n = chan[c][1].cseq
        BY <3>3, <3>4 DEF n
      <4> QED BY <4>1, <4>2, <4>3, <4>4, <4>5, <3>4, <1>2, <1>8, QueueOrder
    <3>5. ASSUME ~overtaken'[c], late'[c] = {}, Alone(c)' PROVE Agreed(c)'
      <4>1. PICK k \in {0, 1} : Moved(c, k)
        BY <3>5, <1>8
      <4>2. Agreed(c)
        BY <3>1, <3>5, <1>9
      <4>3. InOrder(c) /\ Len(chan[c]) \in Nat \ {0} /\ r = chan[c][1]
        BY <3>3, <3>5, <1>8
      <4>4. dest' = <<c, n>>
        BY <3>1, <3>5, <1>2
      <4>5. \A j \in 1 .. Len(chan'[c]) : chan'[c][j].kind # "ACK"
        <5> SUFFICES ASSUME NEW j \in 1 .. Len(chan'[c]) PROVE chan'[c][j].kind # "ACK"
          OBVIOUS
        <5>1. j + k \in 1 .. Len(chan[c]) /\ chan'[c][j] = chan[c][j + k]
          BY <4>1 DEF Moved
        <5> DEFINE l == j + k
        <5>2. l \in 1 .. Len(chan[c]) /\ chan'[c][j] = chan[c][l]
          BY <5>1
        <5> HIDE DEF l
        <5>3. CASE l = 1
          BY <5>2, <5>3, <4>3, <2>1
        <5>4. CASE l # 1
          <6>1. 1 < l /\ 1 \in 1 .. Len(chan[c])
            BY <5>2, <5>4, <4>3
          <6>2. chan[c][1].kind = "INVITE" /\ answer[c][chan[c][1].cseq] = 0
            BY <4>3, <3>1, <2>1 DEF n
          <6> QED BY <6>1, <6>2, <5>2, <4>3 DEF InOrder
        <5> QED BY <5>3, <5>4
      <4>6. n \in invites[c] /\ n \notin acked[c]
        <5>1. n \in acked[c] => answer[c][n] = 200
          BY <1>2 DEF IInv, Answers
        <5> QED BY <5>1, <3>1, <2>1, <1>7
      <4>7. \A m \in invites'[c] \ acked'[c] : 200 \in told'[c][m] => dest' = <<c, m>>
        BY <4>3, <4>4, <4>6, <1>2 DEF InOrder
      <4>8. session'.call = c /\ agreed'[c] # EmptyCSeq => session'.dest = <<c, agreed'[c]>>
        BY <4>2, <3>1 DEF Agreed
      <4> QED BY <4>5, <4>7, <4>8 DEF Agreed
    <3> QED BY <2>0, <3>1, <3>2, <3>4, <3>5, <1>2, OneStep DEF CallOrder
  <2>2. CASE r.kind = "ACK" /\ HandleAck(c, n)
    <3> DEFINE d == IF dest = Nowhere /\ n \in late[c] THEN <<c, n>> ELSE dest
    <3>1. /\ UNCHANGED <<dialog, answer, told>> /\ dest' = d
          /\ \/ session' = [call |-> c, dest |-> d] /\ agreed' = [agreed EXCEPT ![c] = n]
             \/ /\ session # Off /\ session' = [session EXCEPT !.dest = d]
                /\ agreed' = [agreed EXCEPT ![c] = n]
             \/ UNCHANGED <<session, agreed>>
      BY <2>2 DEF HandleAck
    <3>2. ASSUME ~overtaken'[c] PROVE InOrder(c)'
      <4>1. PICK k \in {0, 1} : Moved(c, k)
        BY <3>2, <1>8
      <4>2. \A m \in CSeqs : 500 \notin told'[c][m]
        BY <3>1, <3>2, <1>8 DEF InOrder
      <4>3. /\ remote'[c] = remote[c] \/ remote'[c] = chan[c][1].cseq
            /\ chan[c][1].kind = "ACK"
        BY <2>0, <2>2, <3>2, <1>8 DEF n, r
      <4> QED BY <4>1, <4>2, <4>3, <3>1, <3>2, <1>2, <1>8, QueueOrder
    <3>3. ASSUME ~overtaken'[c], late'[c] = {}, Alone(c)' PROVE Agreed(c)'
      <4>1. PICK k \in {0, 1} : Moved(c, k)
        BY <3>3, <1>8
      <4>2. Agreed(c)
        BY <3>1, <3>3, <1>9
      <4>3. dest' = dest /\ d = dest
        BY <3>1, <3>3, <1>2
      <4>4. dest = <<c, n>>
        BY <4>2, <2>2 DEF Agreed, r, n
      <4>5. agreed \in [Calls -> CSeqs \cup {EmptyCSeq}] /\ session \in Session \cup {Off}
        BY DEF IInv, TypeOK
      <4> HIDE DEF d
      <4>6. session'.call = c /\ agreed'[c] # EmptyCSeq => session'.dest = <<c, agreed'[c]>>
        <5>1. CASE session' = [call |-> c, dest |-> d] /\ agreed' = [agreed EXCEPT ![c] = n]
          BY <5>1, <4>3, <4>4, <4>5
        <5>2. CASE /\ session # Off /\ session' = [session EXCEPT !.dest = d]
                   /\ agreed' = [agreed EXCEPT ![c] = n]
          <6>1. session'.dest = d
            BY <5>2, <4>5 DEF Session
          <6> QED BY <6>1, <5>2, <4>3, <4>4, <4>5
        <5>3. CASE UNCHANGED <<session, agreed>>
          BY <5>3, <4>2 DEF Agreed
        <5> QED BY <5>1, <5>2, <5>3, <3>1
      <4> QED BY <4>1, <4>2, <4>3, <4>6, <3>1, <1>2, QueueAgreed
    <3> QED BY <2>0, <3>1, <3>2, <3>3, <1>2, OneStep DEF CallOrder
  <2>3. CASE r.kind \in {"OPTIONS", "BYE"} /\ (HandleOptions(c, n) \/ HandleBye(c, n))
    <3>1. /\ Recorded(c, n)
          /\ UNCHANGED <<told, dest, agreed>>
          /\ session' = session \/ session' = Off
          /\ dialog'[c] # "INIT" /\ \A d \in Calls \ {c} : dialog'[d] = dialog[d]
      <4>1. Recorded(c, n)
        BY <2>3, <1>2, AnswerFrame DEF HandleOptions, HandleBye
      <4> QED BY <4>1, <2>3, <1>2, <1>4 DEF HandleOptions, HandleBye, mediaVars
    <3>2. ASSUME ~overtaken'[c] PROVE InOrder(c)'
      <4>1. PICK k \in {0, 1} : Moved(c, k)
        BY <3>2, <1>8
      <4>2. \A m \in CSeqs : 500 \notin told'[c][m]
        BY <3>1, <3>2, <1>8 DEF InOrder
      <4>3. \A m \in CSeqs : answer'[c][m] = 0 => answer[c][m] = 0
        BY <3>1, <2>3, <1>12 DEF Recorded
      <4>4. remote'[c] = remote[c] \/ (remote'[c] = n /\ answer'[c][n] # 0)
        BY <2>0, <3>1 DEF Recorded
      <4>5. n = chan[c][1].cseq
        BY <3>2, <1>8 DEF n, r
      <4> QED BY <4>1, <4>2, <4>3, <4>4, <4>5, <3>2, <1>2, <1>8, QueueOrder
    <3>3. ASSUME ~overtaken'[c], late'[c] = {}, Alone(c)' PROVE Agreed(c)'
      <4>1. PICK k \in {0, 1} : Moved(c, k)
        BY <3>3, <1>8
      <4>2. Agreed(c)
        BY <3>1, <3>3, <1>9
      <4>3. session'.call = c /\ agreed'[c] # EmptyCSeq => session'.dest = <<c, agreed'[c]>>
        BY <4>2, <3>1, Places DEF Agreed
      <4> QED BY <4>1, <4>2, <4>3, <3>1, <1>2, QueueAgreed
    <3>4. \A d \in Calls \ {c} : told'[d] = told[d] /\ answer'[d] = answer[d]
      BY <3>1 DEF Recorded
    <3> QED BY <2>0, <3>1, <3>2, <3>3, <3>4, <1>2, OneStep DEF CallOrder
  <2> QED BY <2>1, <2>2, <2>3, <1>2, <1>12 DEF Manage, n
<1> QED BY <1>3, <1>10, <1>11, <1>12

LEMMA InitOrder == Init => Order
<1> SUFFICES ASSUME Init, NEW c \in Calls PROVE InOrder(c) /\ Agreed(c)
  BY DEF Order, CallOrder
<1>1. /\ chan[c] = <<>> /\ Len(chan[c]) = 0 /\ invites[c] = {} /\ agreed[c] = EmptyCSeq
      /\ remote[c] = EmptyCSeq /\ cseq[c] = 1 /\ \A n \in CSeqs : told[c][n] = {}
  BY EmptySeq DEF Init
<1> QED BY <1>1, Numbers DEF InOrder, Agreed

LEMMA NextOrder == IInv /\ Order /\ [Next]_vars => Order'
<1> SUFFICES ASSUME IInv, Order, [Next]_vars PROVE Order'
  OBVIOUS
<1>1. ASSUME NEW c \in Calls, Ring(c) PROVE Order'
  BY <1>1, RingOrder
<1>2. ASSUME NEW c \in Calls, AcceptCall(c) PROVE Order'
  BY <1>2, AcceptCallOrder
<1>3. ASSUME NEW c \in Calls, Answered(c) PROVE Order'
  BY <1>3, AnsweredOrder
<1>4. ASSUME NEW c \in Calls, NEW kind \in Kinds \ {"ACK"}, PeerSends(c, kind) PROVE Order'
  BY <1>4, PeerSendsOrder
<1>5. ASSUME NEW c \in Calls, NEW n \in CSeqs, PeerAcks(c, n) PROVE Order'
  BY <1>5, PeerAcksOrder
<1>6. ASSUME NEW c \in Calls, NEW n \in CSeqs, RepeatAnswer(c, n) PROVE Order'
  BY <1>6, RepeatAnswerOrder
<1>7. ASSUME NEW c \in Calls, NEW i \in 1 .. Len(chan[c]), Receive(c, i) PROVE Order'
  BY <1>7, ReceiveOrder
<1>8. ASSUME NEW c \in Calls, HangUp(c) PROVE Order'
  BY <1>8, HangUpOrder
<1>9. ASSUME NEW c \in Calls, ByeAnswered(c) PROVE Order'
  BY <1>9, ByeAnsweredOrder
<1>10. ASSUME UNCHANGED vars PROVE Order'
  BY <1>10 DEF vars, dialogVars, mediaVars, peerVars, Order, CallOrder, InOrder, Agreed, Alone
<1> QED BY <1>1, <1>2, <1>3, <1>4, <1>5, <1>6, <1>7, <1>8, <1>9, <1>10 DEF Next

-----------------------------------------------------------------------------
(* The inductive invariant.                                                *)
THEOREM Inductive == Spec => []IInv
BY InitInv, NextInv, PTL DEF Spec

(* The variables keep their types, whatever the peers number, repeat and   *)
(* reorder.                                                                *)
THEOREM TypeCorrect == Spec => []TypeOK
<1>1. IInv => TypeOK
  BY DEF IInv
<1> QED BY <1>1, Inductive, PTL

(* handleBye: what comes after the BYE of a call does not start its        *)
(* session again.                                                          *)
THEOREM ByeSilences == Spec => []SilentAfterBye
<1>1. IInv => SilentAfterBye
  BY DEF IInv
<1> QED BY <1>1, Inductive, PTL

(* handleAck: why the receiver thread ends.                                *)
THEOREM AckIsSafe == Spec => []ReceiverDiesExplained
<1>1. IInv => ReceiverDiesExplained
  BY DEF IInv
<1> QED BY <1>1, Inductive, PTL

(* handleReInvite, handleAck: as long as its requests arrive in the order  *)
(* they were sent, a call's sound goes where the INVITE acknowledged last  *)
(* asks for.                                                               *)
THEOREM SoundFollowsAnswer == Spec => []SessionFollowsAnswer
<1>1. Spec => [](IInv /\ Order)
  <2>1. Init => IInv /\ Order
    BY InitInv, InitOrder
  <2>2. (IInv /\ Order) /\ [Next]_vars => (IInv /\ Order)'
    BY NextInv, NextOrder
  <2> QED BY <2>1, <2>2, PTL DEF Spec
<1>2. IInv /\ Order => SessionFollowsAnswer
  BY DEF Order, CallOrder, Agreed, SessionFollowsAnswer
<1> QED BY <1>1, <1>2, PTL
=============================================================================
