---------------------------- MODULE ChannelTable ----------------------------
(***************************************************************************)
(* What the sorter promises an update: a table of channels, in which the   *)
(* first stream of a channel makes its entry and later ones can only fill  *)
(* what it leaves empty.  Channels are lost only in a step of an update    *)
(* that has failed to write.  An update that is cut off leaves some state  *)
(* of its table to the next one.                                           *)
(***************************************************************************)
CONSTANTS Slots, Entries, None,
          Fills(_, _)  \* Fills(e, f): f is e with empty attributes filled in

VARIABLES table, left, failed

Tables == [Slots -> Entries \cup {None}]
Empty == [k \in Slots |-> None]

Init == table = Empty /\ left = Empty /\ failed = FALSE

Begin == table = Empty /\ table' = left /\ left' = Empty /\ failed' = FALSE

(* Every slot of ks keeps its entry, or a failure loses it.                *)
KeptIn(ks) == \A k \in ks : table'[k] = table[k] \/ (failed' /\ table'[k] = None)

(* The table changes while failures are remembered.                        *)
Changes == table' \in Tables /\ (failed => failed') /\ UNCHANGED left

Put(k) ==
    /\ table[k] = None
    /\ Changes /\ table'[k] # None /\ KeptIn(Slots \ {k})

Fill(k) ==
    /\ table[k] # None
    /\ Changes /\ table'[k] # None /\ Fills(table[k], table'[k]) /\ KeptIn(Slots \ {k})

Lose == Changes /\ KeptIn(Slots)

End == table' = Empty /\ (failed => failed') /\ UNCHANGED left

Cut == table' = Empty /\ left' \in Tables

Next ==
    \/ Begin \/ Lose \/ End \/ Cut
    \/ \E k \in Slots : Put(k) \/ Fill(k)

Spec == Init /\ [][Next]_<<table, left, failed>>

=============================================================================
