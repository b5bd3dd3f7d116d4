----------------------------- MODULE AuditTrail -----------------------------
(***************************************************************************)
(* What the audit log promises: a list that only grows, each event of which*)
(* names the hash of the one before it.                                    *)
(***************************************************************************)
EXTENDS Integers, Sequences

CONSTANTS Genesis, Hash

VARIABLE trail

HeadHash == IF trail = <<>> THEN Genesis ELSE trail[Len(trail)].hash

Record(hash) == trail' = Append(trail, [hash |-> hash, prev |-> HeadHash])

TrailInit == trail = <<>>

TrailNext == \E hash \in Hash : Record(hash)

TrailSpec == TrailInit /\ [][TrailNext]_trail
=============================================================================
