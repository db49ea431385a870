---------------------------- MODULE MCDownsampler ----------------------------
(***************************************************************************)
(* Small instances of Downsampler: two tiers, with buckets of an hour, and *)
(* a configuration that moves compact_after.  A slot is half an hour.  The *)
(* raw samples begin at slot 1, in the middle of a bucket, so the chunks   *)
(* of a backfill cut buckets; the last chunk ends at slot 4, half an hour  *)
(* after it began.  With MCFar it ends at slot 2, and at slot 3, in the    *)
(* middle of a bucket, when the clock is at 7.                             *)
(***************************************************************************)
EXTENDS Downsampler

MCTier(n, t, a) == [name |-> n, table |-> t, after |-> a]

MCNear == <<MCTier("1h", "samples_1h", 1), MCTier("6h", "samples_6h", 2)>>
MCFar == <<MCTier("1h", "samples_1h", 2), MCTier("6h", "samples_6h", 3)>>

MCConfigs == {MCNear, MCFar}
MCOneConfig == {MCNear}

MCResolution == [t \in TierTables |-> 2]
=============================================================================
