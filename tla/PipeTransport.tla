---------------------------- MODULE PipeTransport ----------------------------
(***************************************************************************)
(* PipeProducer and PipeConsumer (apps/common/ipc/pipe_transport.cpp): a   *)
(* frame is written with as many calls of writev as it takes, and read     *)
(* with as many of read, header first.  The pipe (the operating system's)  *)
(* holds PipeUnits at most; a write is cut short where it fills up, a read *)
(* by what there is.                                                       *)
(***************************************************************************)
EXTENDS Transport

CONSTANT PipeUnits   \* what the pipe holds

ASSUME PipeAssumption == PipeUnits \in Nat \ {0}

VARIABLES
    pipe,            \* the units under way
    writeOpen,       \* the producer's process has its end
    readOpen         \* the consumer has not closed its end

pipeVars == <<pipe, writeOpen, readOpen>>

PipeInit == pipe = <<>> /\ writeOpen = TRUE /\ readOpen = TRUE

-----------------------------------------------------------------------------
(* A cut within the header skips a unit of what is left. *)
MAdvance(units, n) == SubSeq(units, IF n < HeaderUnits THEN n + 2 ELSE n + 1, Len(units))

(* The iovecs moved past what a call has written. *)
Advance(units, n) == SubSeq(units, n + 1, Len(units))

(* A turn of send_frame's loop: writev takes some of what is left. *)
PipeWrite ==
    /\ kind = "pipe" /\ tx.pc = "in" /\ readOpen
    /\ \E n \in 1..Len(tx.frame) :
         LET rest == Advance(tx.frame, n)
         IN /\ Len(pipe) + n <= PipeUnits
            /\ pipe' = pipe \o SubSeq(tx.frame, 1, n)
            /\ IF rest = <<>> THEN SendReturns(TRUE) ELSE tx' = [tx EXCEPT !.frame = rest]
    /\ UNCHANGED <<rx, got, writeOpen, readOpen>>

(* The reader is gone: SIGPIPE, which the producer's program leaves at its  *)
(* default, ends it inside writev.                                          *)
PipeBroken == kind = "pipe" /\ tx.pc = "in" /\ ~readOpen

(* A call of read within read_all, for the header first and then for the    *)
(* payload that the header announces.  A header whose magic is wrong ends   *)
(* the stream.                                                              *)
PipeRead ==
    /\ kind = "pipe" /\ rx.pc = "in"
    /\ LET have == Len(rx.frame)
           wanted == IF have < HeaderUnits THEN HeaderUnits - have ELSE FrameUnits - have
       IN \E n \in 1..wanted :
            LET units == rx.frame \o SubSeq(pipe, 1, n)
            IN /\ n <= Len(pipe)
               /\ pipe' = Advance(pipe, n)
               /\ IF Len(units) >= HeaderUnits /\ ~HasMagic(units)
                  THEN ReceiveFails
                  ELSE IF Len(units) = FrameUnits
                  THEN ReceiveReturns(units)
                  ELSE rx' = [rx EXCEPT !.frame = units] /\ UNCHANGED got
    /\ UNCHANGED <<tx, writeOpen, readOpen>>

(* read returns 0: the pipe is empty and no process can write to it. *)
PipeEof ==
    /\ kind = "pipe" /\ rx.pc = "in" /\ pipe = <<>> /\ ~writeOpen
    /\ ReceiveFails
    /\ UNCHANGED <<tx, pipeVars>>

(* ~PipeConsumer closes its end. *)
PipeClose ==
    /\ kind = "pipe" /\ readOpen
    /\ readOpen' = FALSE
    /\ UNCHANGED <<calls, got, pipe, writeOpen>>

=============================================================================
