---------------------------- MODULE ReliableStream ----------------------------
(***************************************************************************)
(* What one direction of a QUIC stream promises to the two applications,   *)
(* whatever the network does.  The i-th byte the sending application       *)
(* writes is represented by its offset i, so that a byte that ends up at   *)
(* the wrong place is told apart from the right one.                       *)
(***************************************************************************)
EXTENDS Integers, Sequences

VARIABLES written,   \* number of bytes the sending application has written
          finished,  \* the sending application has closed its direction
          avail,     \* bytes that have arrived, without a gap from offset 0
          eof,       \* the receiver has everything up to the end of stream
          out,       \* bytes the receiving application has taken, in order
          released,  \* bytes the sender has thrown away from its send buffer
          done       \* the sender believes that the transfer is complete

vars == <<written, finished, avail, eof, out, released, done>>

Init ==
    /\ written = 0 /\ avail = 0 /\ released = 0
    /\ finished = FALSE /\ eof = FALSE /\ done = FALSE
    /\ out = << >>

(* The application appends to the stream, or closes it. *)
Produce ==
    /\ ~finished
    /\ written' >= written
    /\ finished' \in BOOLEAN
    /\ UNCHANGED <<avail, eof, out, released, done>>

(* Bytes that were written, and only those, arrive.  The end of stream is  *)
(* reported only when the stream has been closed and every byte is there.  *)
Arrive ==
    /\ ~eof
    /\ avail' \in avail .. written
    /\ eof' \in BOOLEAN
    /\ eof' => finished /\ avail' = written
    /\ UNCHANGED <<written, finished, out, released, done>>

(* The receiving application takes bytes: the ones written, in order. *)
Take ==
    /\ \E n \in Len(out) .. avail : out' = [i \in 1 .. n |-> i - 1]
    /\ UNCHANGED <<written, finished, avail, eof, released, done>>

(* The sender forgets bytes only after they have arrived, and declares the *)
(* transfer complete only after the receiver has the end of stream.        *)
Acknowledge ==
    /\ released' \in released .. avail
    /\ done' \in BOOLEAN
    /\ done => done'
    /\ done' => eof
    /\ UNCHANGED <<written, finished, avail, eof, out>>

Next == Produce \/ Arrive \/ Take \/ Acknowledge

Spec == Init /\ [][Next]_vars
===============================================================================
