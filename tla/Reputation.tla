----------------------------- MODULE Reputation -----------------------------
(***************************************************************************)
(* The reputation program (programs/roundfi-reputation) as one wallet sees *)
(* it: its profile, its identity record, and the attestations about it.    *)
(* The pools attest as they are paid (a call that may not fail, or the     *)
(* payment fails with it); the admin attests and revokes by hand; anybody  *)
(* promotes the level and refreshes the identity against the account the   *)
(* passport bridge keeps for it.                                           *)
(*                                                                         *)
(* A revoked attestation is never read again and no nonce is used twice,   *)
(* so what is kept is the bag of the standing ones.  The pause of the      *)
(* program, which keeps the admin from attesting and the wallet from       *)
(* linking, is left out, and so are the payloads.                          *)
(***************************************************************************)
EXTENDS Integers, Sequences, Bags, FiniteSetsExt

CONSTANTS
  LEVEL_THRESHOLD,                   \* the score each level from 2 on takes
  LEVEL_MIN_CYCLES,                  \* and the pools completed
  MIN_POOL_COMPLETE_COOLDOWN_SECS,
  MIN_ADMIN_ATTEST_COOLDOWN_SECS,
  Attested,                          \* the schemas attested
  IdentityFloors,                    \* the values the gate is set to
  Ttls,                              \* what the bridge gives, 0 for no expiry
  MaxAttestations,                   \* bound
  MaxClock                           \* bound

LEVEL_MIN == 1
LEVEL_MAX == 4
IDENTITY_HARD_FLOOR_LEVEL == LEVEL_MAX

SCORE == [PAYMENT |-> 10, POOL_COMPLETE |-> 50, LATE |-> -100, DEFAULT |-> -500,
          PAYOUT_CLAIMED |-> 0, CLAIM_NEGLECT |-> -100, LEVEL_UP |-> 0]
Schemas == DOMAIN SCORE

ASSUME ReputationAssumption ==
  /\ {LEVEL_THRESHOLD, LEVEL_MIN_CYCLES} \subseteq [2..LEVEL_MAX -> Nat]
  /\ \A l \in 2..LEVEL_MAX - 1 : LEVEL_MIN_CYCLES[l] <= LEVEL_MIN_CYCLES[l + 1]
  /\ {MIN_POOL_COMPLETE_COOLDOWN_SECS, MIN_ADMIN_ATTEST_COOLDOWN_SECS} \subseteq Nat
  /\ Attested \subseteq Schemas
  /\ IdentityFloors \subseteq {0} \cup 2..LEVEL_MAX
  /\ Ttls \subseteq Nat
  /\ {MaxAttestations, MaxClock} \subseteq Nat

VARIABLES
  profile,       \* ReputationProfile
  identity,      \* IdentityRecord, NoRecord while there is none
  required_min_level,   \* of IdentityGateConfig
  clock,
  standing,      \* the bag of the attestations that are not revoked
  credited,      \* history: when each credited completion was attested
  attested       \* how many attestations there have been

rvars == <<profile, identity, required_min_level, clock, standing, credited, attested>>

NoRecord == [status |-> "None", expires_at |-> 0]

\* Any real clock is far past the cooldowns when the program starts.
ReputationInit ==
  /\ profile = [score |-> 0, level |-> LEVEL_MIN, on_time_payments |-> 0,
                late_payments |-> 0, defaults |-> 0, cycles_completed |-> 0,
                total_participated |-> 0, last_cycle_complete_at |-> 0,
                last_admin_attest_at |-> 0]
  /\ identity = NoRecord
  /\ required_min_level = 0
  /\ clock = MIN_POOL_COMPLETE_COOLDOWN_SECS + MIN_ADMIN_ATTEST_COOLDOWN_SECS
  /\ standing = EmptyBag
  /\ credited = <<>>
  /\ attested = 0

----------------------------------------------------------------------------
(* The profile.                                                            *)

\* u64: it stays at zero.
apply_score_delta(p, delta) == [p EXCEPT !.score = IF @ + delta > 0 THEN @ + delta ELSE 0]

resolve_level(p) ==
  Max({LEVEL_MIN} \cup
      {l \in 2..LEVEL_MAX : /\ p.score >= LEVEL_THRESHOLD[l]
                            /\ p.cycles_completed >= LEVEL_MIN_CYCLES[l]})

cap_level_for_identity(level, verified) ==
  IF verified THEN level
  ELSE Min({level, IDENTITY_HARD_FLOOR_LEVEL - 1}
           \cup (IF required_min_level = 0 THEN {} ELSE {required_min_level - 1}))

is_verified(rec) ==
  rec.status = "Verified" /\ (rec.expires_at = 0 \/ rec.expires_at > clock)

demote_to_identity_floor(p) == [p EXCEPT !.level = cap_level_for_identity(@, FALSE)]

----------------------------------------------------------------------------
(* attest and revoke.                                                      *)

\* Only rewards are halved for a wallet that is not verified.
Delta(schema, verified) ==
  IF SCORE[schema] > 0 /\ ~verified THEN SCORE[schema] \div 2 ELSE SCORE[schema]

Counted(p, schema, by) ==
  [p EXCEPT !.on_time_payments = IF schema = "PAYMENT" THEN @ + by ELSE @,
            !.late_payments = IF schema = "LATE" THEN @ + by ELSE @,
            !.defaults = IF schema = "DEFAULT" THEN @ + by ELSE @,
            !.cycles_completed = IF schema = "POOL_COMPLETE" THEN @ + by ELSE @,
            !.total_participated =
               IF schema \in {"POOL_COMPLETE", "PAYOUT_CLAIMED"} THEN @ + by ELSE @]

InCooldown == clock - profile.last_cycle_complete_at < MIN_POOL_COMPLETE_COOLDOWN_SECS

AdminMay(schema) ==
  /\ schema = "POOL_COMPLETE" => ~InCooldown
  /\ schema \in {"PAYMENT", "LATE", "DEFAULT", "CLAIM_NEGLECT"} =>
       clock - profile.last_admin_attest_at >= MIN_ADMIN_ATTEST_COOLDOWN_SECS

\* What an attestation that counts does to the profile.
Applied(schema, verified) ==
  LET p == Counted(apply_score_delta(profile, Delta(schema, verified)), schema, 1)
  IN  CASE schema = "DEFAULT" -> [p EXCEPT !.level = Min({@, resolve_level(p)})]
        [] schema = "POOL_COMPLETE" -> [p EXCEPT !.last_cycle_complete_at = clock]
        [] OTHER -> p

\* By the admin, or by a pool for core.  A completion within the cooldown is
\* recorded without credit, as the call may not fail.  The identity is an optional
\* account: left out, the wallet is treated as one that is not verified.
attest(issuer, schema, verified) ==
  LET neutralized == schema = "POOL_COMPLETE" /\ InCooldown
      p == IF neutralized THEN profile ELSE Applied(schema, verified)
  IN
  /\ attested < MaxAttestations
  /\ verified => is_verified(identity)
  /\ attested' = attested + 1
  /\ issuer = "admin" => AdminMay(schema)
  /\ profile' = IF issuer = "admin" THEN [p EXCEPT !.last_admin_attest_at = clock] ELSE p
  /\ standing' = standing (+) SetToBag({[issuer |-> issuer, schema |-> schema,
                                         verified_at_attest |-> verified,
                                         neutralized |-> neutralized]})
  /\ credited' = IF schema = "POOL_COMPLETE" /\ ~neutralized
                 THEN Append(credited, clock) ELSE credited
  /\ UNCHANGED <<identity, required_min_level, clock>>

\* Weighed as the wallet is now (before SEV-008).
ReversedDelta_mutant(a) == -Delta(a.schema, is_verified(identity))

ReversedDelta(a) == -Delta(a.schema, a.verified_at_attest)

\* The cooldown is lifted with the completion.
Reversed_mutant(a) ==
  IF a.neutralized THEN profile
  ELSE [Counted(apply_score_delta(profile, ReversedDelta(a)), a.schema, -1)
          EXCEPT !.last_cycle_complete_at = IF a.schema = "POOL_COMPLETE" THEN 0 ELSE @]

Reversed(a) ==
  IF a.neutralized THEN profile
  ELSE Counted(apply_score_delta(profile, ReversedDelta(a)), a.schema, -1)

\* The issuer takes it back; a pool never does.
revoke(a) ==
  /\ a.issuer = "admin"
  /\ profile' = Reversed(a)
  /\ standing' = standing (-) SetToBag({a})
  /\ UNCHANGED <<identity, required_min_level, clock, credited, attested>>

promote_level ==
  LET new_level == cap_level_for_identity(resolve_level(profile), is_verified(identity))
  IN
  /\ new_level > profile.level
  /\ profile' = [profile EXCEPT !.level = new_level]
  /\ UNCHANGED <<identity, required_min_level, clock, standing, credited, attested>>

----------------------------------------------------------------------------
(* Identity.                                                               *)

\* What validate_passport_attestation makes of a passport account.
Active == {[status |-> "Verified", expires_at |-> IF ttl = 0 THEN 0 ELSE clock + ttl] :
             ttl \in Ttls}
Lapsed == {[status |-> s, expires_at |-> 0] : s \in {"Expired", "Revoked"}}

\* Another passport, or the same one while the record is not Verified.
link_passport_identity(view) ==
  /\ identity' = view
  /\ UNCHANGED <<profile, required_min_level, clock, standing, credited, attested>>

\* The passport that is linked; an account that does not validate counts as
\* revoked.  The caller leaves out a profile only where there is none.
refresh_identity(view) ==
  /\ identity.status # "None"
  /\ identity' = IF view.status = "Verified" THEN view
                 ELSE [identity EXCEPT !.status = view.status]
  /\ profile' = IF is_verified(identity') THEN profile ELSE demote_to_identity_floor(profile)
  /\ UNCHANGED <<required_min_level, clock, standing, credited, attested>>

\* The wallet may leave its profile out of the call.
unlink_identity ==
  /\ identity.status # "None"
  /\ identity' = NoRecord
  /\ profile' \in {profile, demote_to_identity_floor(profile)}
  /\ UNCHANGED <<required_min_level, clock, standing, credited, attested>>

set_identity_gate(floor) ==
  /\ required_min_level' = floor
  /\ UNCHANGED <<profile, identity, clock, standing, credited, attested>>

ClockTicks ==
  /\ clock < MaxClock
  /\ clock' = clock + 1
  /\ UNCHANGED <<profile, identity, required_min_level, standing, credited, attested>>

ReputationNext ==
  \/ \E issuer \in {"admin", "pool"}, schema \in Attested, verified \in BOOLEAN :
       attest(issuer, schema, verified)
  \/ \E a \in BagToSet(standing) : revoke(a)
  \/ promote_level
  \/ \E view \in Active \cup Lapsed : link_passport_identity(view) \/ refresh_identity(view)
  \/ unlink_identity
  \/ \E floor \in IdentityFloors : set_identity_gate(floor)
  \/ ClockTicks

ReputationSpec == ReputationInit /\ [][ReputationNext]_rvars

----------------------------------------------------------------------------

\* "LEVEL_n_MIN_CYCLES [...] rate-limited by MIN_POOL_COMPLETE_COOLDOWN_SECS"
\* (constants.rs:139-144): however attestations of pools and of the admin, late
\* identities and revocations interleave, the completions a wallet was credited
\* are a cooldown apart, and a level above the first took as many as it asks for.
LevelsAreEarnedSlowly ==
  /\ \A i \in 2..Len(credited) :
       credited[i] - credited[i - 1] >= MIN_POOL_COMPLETE_COOLDOWN_SECS
  /\ \A l \in 2..profile.level : Len(credited) >= LEVEL_MIN_CYCLES[l]

Count(schemas) ==
  MapThenSumSet(LAMBDA a : standing[a],
                {a \in BagToSet(standing) : a.schema \in schemas /\ ~a.neutralized})

\* "apply + revoke is exactly zero-sum regardless of identity-status changes"
\* (revoke.rs:64-67), but for the penalties a score of zero did not feel: the
\* score is at least what the standing attestations are worth, each weighed as
\* it was when it was made, and the counters count just those.
ScoreCoversTheRecord ==
  /\ profile.score >= MapThenSumSet(
       LAMBDA a : standing[a] * Delta(a.schema, a.verified_at_attest),
       {a \in BagToSet(standing) : ~a.neutralized})
  /\ profile.on_time_payments = Count({"PAYMENT"})
  /\ profile.late_payments = Count({"LATE"})
  /\ profile.defaults = Count({"DEFAULT"})
  /\ profile.cycles_completed = Count({"POOL_COMPLETE"})
  /\ profile.total_participated = Count({"POOL_COMPLETE", "PAYOUT_CLAIMED"})
=============================================================================
