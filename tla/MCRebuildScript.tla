-------------------------- MODULE MCRebuildScript ----------------------------
(***************************************************************************)
(* Instances of RebuildScript for TLC.                                      *)
(***************************************************************************)
EXTENDS RebuildScript, MCSellerLedger

\* One order, paid and settled, and one that is only recorded.
RebuildCalls == PaidOrder(o1, 1) \cup {RecordOrder(o2, 4, 250)}
OneDay == {SettleDefault(1)}
=============================================================================
