--------------------------- MODULE CapturePipeline ---------------------------
(***************************************************************************)
(* The three threads that CaptureRtpSender starts for a session, Capture,  *)
(* Encoder and RtpSender, the two bounded pipes between them, the flags    *)
(* with which stop ends them, and the latch at which they wait for each    *)
(* other.  Data is counted in units; a pipe's write gives away one unit at *)
(* a time and blocks while the pipe is full, its read blocks while the pipe*)
(* is empty.  The sound source returns data, or null, which it does for    *)
(* ever after the end of the file or when the sound manager is closed.     *)
(* Files of the media debug mode, and so the returns of a thread that could*)
(* not open one, are left out.                                             *)
(* The names are not those of MediaSession, whose session has the sender:  *)
(* Media_proofs extends both modules.                                      *)
(***************************************************************************)
EXTENDS Naturals, FiniteSets

CONSTANTS
    PipeSize,  \* bound: the units that a pipe holds (PIPE_SIZE)
    Chunk,     \* the units that the sound source returns
    Packet     \* the units of an RTP packet (BUFFER_SIZE / 2)

ASSUME PipelineAssumption ==
    /\ PipeSize \in Nat \ {0}
    /\ Chunk \in Nat \ {0}
    /\ Packet \in Nat \ {0}

Workers == {"capture", "encoder", "rtpSender"}

VARIABLES
    pc,         \* where each thread is
    left,       \* the units it has still to write, or to read
    raw,        \* the units in the pipe from Capture to Encoder
    encoded,    \* the units in the pipe from Encoder to RtpSender
    isStopped,  \* the threads whose flag isStopped is set
    silent,     \* the sound source has returned null
    latch       \* the count of the latch

pipeVars == <<pc, left, raw, encoded, isStopped, silent, latch>>

(* loop: before the test of isStopped; source, poll, check: Capture is in  *)
(* readData, Encoder waits for data, RtpSender tests whether its packet is *)
(* full; write, read: in a pipe; send; latch, await: at the latch.         *)
Step == {"loop", "source", "write", "poll", "check", "read", "send", "latch", "await", "ended"}

PipeTypeOK ==
    /\ pc \in [Workers -> Step]
    /\ left \in [Workers -> Nat]
    /\ raw \in 0 .. PipeSize
    /\ encoded \in 0 .. PipeSize
    /\ isStopped \subseteq Workers
    /\ silent \in BOOLEAN
    /\ latch \in 0 .. 3

(* CaptureRtpSender.start has just started the threads.                    *)
PipeInit ==
    /\ pc = [t \in Workers |-> "loop"]
    /\ left = [t \in Workers |-> 0]
    /\ raw = 0
    /\ encoded = 0
    /\ isStopped = {}
    /\ silent = FALSE
    /\ latch = 3

Doing(t, step) == pc[t] = step
SetPc(t, step) == pc' = [pc EXCEPT ![t] = step]
SetLeft(t, n) == left' = [left EXCEPT ![t] = n]

-----------------------------------------------------------------------------
(***************************************************************************)
(* CaptureRtpSender                                                        *)
(***************************************************************************)

(* stop sets the three flags one after the other, in this order.           *)
Stop(t) ==
    /\ t \notin isStopped
    /\ t = "encoder" => "capture" \in isStopped
    /\ t = "rtpSender" => "encoder" \in isStopped
    /\ isStopped' = isStopped \cup {t}
    /\ UNCHANGED <<pc, left, raw, encoded, silent, latch>>

-----------------------------------------------------------------------------
(***************************************************************************)
(* Capture                                                                 *)
(***************************************************************************)

CaptureLoop ==
    /\ Doing("capture", "loop")
    /\ SetPc("capture", IF "capture" \in isStopped THEN "latch" ELSE "source")
    /\ UNCHANGED <<left, raw, encoded, isStopped, silent, latch>>

ReadData ==
    /\ Doing("capture", "source")
    /\ ~silent
    /\ SetLeft("capture", Chunk)
    /\ SetPc("capture", "write")
    /\ UNCHANGED <<raw, encoded, isStopped, silent, latch>>

ReadNull ==
    /\ Doing("capture", "source")
    /\ silent' = TRUE
    /\ SetPc("capture", "latch")
    /\ UNCHANGED <<left, raw, encoded, isStopped, latch>>

CaptureWrites ==
    /\ Doing("capture", "write")
    /\ raw < PipeSize
    /\ raw' = raw + 1
    /\ SetLeft("capture", left["capture"] - 1)
    /\ SetPc("capture", IF left["capture"] = 1 THEN "loop" ELSE "write")
    /\ UNCHANGED <<encoded, isStopped, silent, latch>>

-----------------------------------------------------------------------------
(***************************************************************************)
(* Encoder                                                                 *)
(***************************************************************************)

EncoderLoop ==
    /\ Doing("encoder", "loop")
    /\ SetPc("encoder", IF "encoder" \in isStopped THEN "latch" ELSE "poll")
    /\ UNCHANGED <<left, raw, encoded, isStopped, silent, latch>>

(* The data that is available is taken, and encoded as a whole.            *)
EncoderReads ==
    /\ Doing("encoder", "poll")
    /\ "encoder" \notin isStopped
    /\ raw > 0
    /\ raw' = 0
    /\ SetLeft("encoder", raw)
    /\ SetPc("encoder", "write")
    /\ UNCHANGED <<encoded, isStopped, silent, latch>>

(* Mutant: only the outer loop of Encoder looks at isStopped.              *)
EncoderKeepsPolling ==
    /\ Doing("encoder", "poll")
    /\ "encoder" \in isStopped
    /\ raw > 0
    /\ SetPc("encoder", "latch")
    /\ UNCHANGED <<left, raw, encoded, isStopped, silent, latch>>

EncoderStopsPolling ==
    /\ Doing("encoder", "poll")
    /\ "encoder" \in isStopped
    /\ SetPc("encoder", "latch")
    /\ UNCHANGED <<left, raw, encoded, isStopped, silent, latch>>

EncoderWrites ==
    /\ Doing("encoder", "write")
    /\ encoded < PipeSize
    /\ encoded' = encoded + 1
    /\ SetLeft("encoder", left["encoder"] - 1)
    /\ SetPc("encoder", IF left["encoder"] = 1 THEN "loop" ELSE "write")
    /\ UNCHANGED <<raw, isStopped, silent, latch>>

-----------------------------------------------------------------------------
(***************************************************************************)
(* RtpSender                                                               *)
(***************************************************************************)

SenderLoop ==
    /\ Doing("rtpSender", "loop")
    /\ IF "rtpSender" \in isStopped
       THEN SetPc("rtpSender", "latch") /\ UNCHANGED left
       ELSE SetPc("rtpSender", "check") /\ SetLeft("rtpSender", Packet)
    /\ UNCHANGED <<raw, encoded, isStopped, silent, latch>>

SenderChecks ==
    /\ Doing("rtpSender", "check")
    /\ SetPc("rtpSender", IF "rtpSender" \in isStopped \/ left["rtpSender"] = 0 THEN "send" ELSE "read")
    /\ UNCHANGED <<left, raw, encoded, isStopped, silent, latch>>

(* Mutant: a read that does not fill the packet is begun anew.             *)
SenderRestarts ==
    /\ Doing("rtpSender", "read")
    /\ encoded > 0
    /\ LET n == IF encoded < left["rtpSender"] THEN encoded ELSE left["rtpSender"]
       IN  /\ encoded' = encoded - n
           /\ SetLeft("rtpSender", IF n = Packet THEN 0 ELSE Packet)
    /\ SetPc("rtpSender", "check")
    /\ UNCHANGED <<raw, isStopped, silent, latch>>

SenderReads ==
    /\ Doing("rtpSender", "read")
    /\ encoded > 0
    /\ LET n == IF encoded < left["rtpSender"] THEN encoded ELSE left["rtpSender"]
       IN  /\ encoded' = encoded - n
           /\ SetLeft("rtpSender", left["rtpSender"] - n)
    /\ SetPc("rtpSender", "check")
    /\ UNCHANGED <<raw, isStopped, silent, latch>>

(* The packet is sent; a pause keeps the pace.                             *)
SenderSends ==
    /\ Doing("rtpSender", "send")
    /\ SetPc("rtpSender", "loop")
    /\ UNCHANGED <<left, raw, encoded, isStopped, silent, latch>>

-----------------------------------------------------------------------------
(***************************************************************************)
(* The end of the three threads                                            *)
(***************************************************************************)

(* Mutant: a thread does not wait for the others.                          *)
CountDownAndEnd(t) ==
    /\ Doing(t, "latch")
    /\ latch' = latch - 1
    /\ SetPc(t, "ended")
    /\ UNCHANGED <<left, raw, encoded, isStopped, silent>>

CountDown(t) ==
    /\ Doing(t, "latch")
    /\ latch' = latch - 1
    /\ SetPc(t, "await")
    /\ UNCHANGED <<left, raw, encoded, isStopped, silent>>

Await(t) ==
    /\ Doing(t, "await")
    /\ latch = 0
    /\ SetPc(t, "ended")
    /\ UNCHANGED <<left, raw, encoded, isStopped, silent, latch>>

-----------------------------------------------------------------------------
Capture == CaptureLoop \/ ReadData \/ ReadNull \/ CaptureWrites
Encoder == EncoderLoop \/ EncoderReads \/ EncoderStopsPolling \/ EncoderWrites
RtpSender == SenderLoop \/ SenderChecks \/ SenderReads \/ SenderSends

PipeNext ==
    \/ Capture
    \/ Encoder
    \/ RtpSender
    \/ \E t \in Workers : Stop(t) \/ CountDown(t) \/ Await(t)

(* Every thread goes on while it can, and a stop that began is carried out.*)
PipeFairness ==
    /\ WF_pipeVars(Capture)
    /\ WF_pipeVars(Encoder)
    /\ WF_pipeVars(RtpSender)
    /\ \A t \in Workers : WF_pipeVars(CountDown(t) \/ Await(t))
    /\ \A t \in Workers : WF_pipeVars("capture" \in isStopped /\ Stop(t))

PipeSpec == PipeInit /\ [][PipeNext]_pipeVars /\ PipeFairness

-----------------------------------------------------------------------------
(***************************************************************************)
(* Properties                                                              *)
(***************************************************************************)

(* "... to avoid read end dead exceptions": no thread is in a pipe, or will*)
(* be, when the thread at its other end is dead.                           *)
NoDeadEnd ==
    \A t \in Workers : Doing(t, "ended") => \A u \in Workers : pc[u] \in {"await", "ended"}

(* A thread that stop cannot reach is blocked in a pipe whose other end    *)
(* waits for it at the latch: RtpSender reads an empty pipe, or Capture or *)
(* Encoder writes to a full one.                                           *)
Stuck ==
    \/ Doing("rtpSender", "read") /\ encoded = 0 /\ Doing("encoder", "await")
    \/ Doing("capture", "write") /\ raw = PipeSize /\ Doing("encoder", "await")
    \/ Doing("encoder", "write") /\ encoded = PipeSize /\ Doing("rtpSender", "await")

(* stop, once it has begun, ends the three threads, or strands one in a    *)
(* pipe.                                                                   *)
StopEndsOrStrands == "capture" \in isStopped ~> (Stuck \/ \A t \in Workers : Doing(t, "ended"))

(* While the source has data and nobody stops the session, packets are sent*)
(* again and again: the bounded pipes do not block the three threads.      *)
PacketsFlow == []<>(Doing("rtpSender", "send") \/ silent \/ isStopped # {})
===============================================================================
