---------------------------- MODULE PipeChannel ----------------------------
(***************************************************************************)
(* What pipes promise their users: while somebody holds a pipe the bytes   *)
(* written to it are read in the order in which they were written, each    *)
(* once, and never more than fit are kept.  A pipe starts empty.           *)
(***************************************************************************)
EXTENDS Integers, Sequences, SequencesExt

CONSTANTS Pipes, Bytes, Capacity

VARIABLES held,         \* whether anybody holds the pipe
          chan,         \* the bytes written and not yet read
          delivered     \* what the last reader got

Open(k) ==
    /\ ~held[k]
    /\ held' = [held EXCEPT ![k] = TRUE]
    /\ chan' = [chan EXCEPT ![k] = << >>]
    /\ UNCHANGED delivered

Close(k) ==
    /\ held[k]
    /\ held' = [held EXCEPT ![k] = FALSE]
    /\ chan' = [chan EXCEPT ![k] = << >>]
    /\ UNCHANGED delivered

Send(k, s) ==
    /\ held[k]
    /\ Len(chan[k]) + Len(s) <= Capacity
    /\ chan' = [chan EXCEPT ![k] = @ \o s]
    /\ UNCHANGED <<held, delivered>>

Receive(k, n) ==
    /\ held[k]
    /\ n \in 1 .. Len(chan[k])
    /\ delivered' = SubSeq(chan[k], 1, n)
    /\ chan' = [chan EXCEPT ![k] = SubSeq(@, n + 1, Len(@))]
    /\ UNCHANGED held

ChannelInit ==
    /\ held = [k \in Pipes |-> FALSE]
    /\ chan = [k \in Pipes |-> << >>]
    /\ delivered = << >>

ChannelNext ==
    \E k \in Pipes :
        \/ Open(k)
        \/ Close(k)
        \/ \E s \in BoundedSeq(Bytes, Capacity) : Send(k, s)
        \/ \E n \in 1 .. Capacity : Receive(k, n)

ChannelSpec == ChannelInit /\ [][ChannelNext]_<<held, chan, delivered>>

=============================================================================
