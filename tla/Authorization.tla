---------------------------- MODULE Authorization ---------------------------
(***************************************************************************)
(* A station's local authorization (src/src/station/authorization.rs): the  *)
(* operator's list with its versions, the cache of the CSMS's answers, and   *)
(* the decision between them.                                                *)
(*                                                                          *)
(* The CSMS (external) sends updates of the list, each under a version, that *)
(* arrive late, repeated or out of order, and answers Authorize requests     *)
(* with verdicts that change.  An info is its verdict and the instant it     *)
(* expires; groups and languages are copies.                                 *)
(***************************************************************************)
EXTENDS Integers, Sequences, FiniteSets

CONSTANTS
  Tokens,          \* the tokens drivers present
  Updates,         \* the SendLocalList requests: [type, version, entries]
  Infos,           \* the verdicts of the CSMS: [status, expires]
  Limit,           \* LocalAuthListCtrlr.Entries
  Capacity,        \* AuthorizationCache::capacity
  MaxClock,        \* bound: how often the cache is used
  Never            \* no expiry, no info

ASSUME AuthorizationAssumption ==
  /\ Limit \in Nat /\ Capacity \in Nat \ {0} /\ MaxClock \in Nat
  /\ \A i \in Infos : i.status \in STRING /\ i.expires \in Nat \cup {Never}
  /\ \A u \in Updates : /\ u.type \in {"Full", "Differential"} /\ u.version \in Int
                        /\ Len(u.entries) \in Nat /\ DOMAIN u.entries = 1 .. Len(u.entries)

VARIABLES
  version, list,     \* LocalAuthorizationList: its version and its entries
  cache,             \* AuthorizationCache::entries, tokens to [stamp, info]
  clock, enabled,
  today,             \* the time of day
  applied,           \* history: the updates the list is made of
  said               \* history: what the CSMS last answered about each token

authVars == <<version, list, cache, clock, enabled, today, applied, said>>

AuthInit ==
  /\ version = 0 /\ list = << >>
  /\ cache = << >> /\ clock = 0 /\ enabled = TRUE
  /\ today = 0
  /\ applied = {} /\ said = [t \in Tokens |-> Never]

(* IdTokenInfo::status_at *)
status_at(info) == IF info.expires # Never /\ info.expires <= today THEN "Expired" ELSE info.status

---------------------------------------------------------------------------
(* The list.  An entry of an update is <<token, info>>, and <<token, Never>> *)
(* deletes the token.                                                        *)

Adds(es) == {i \in DOMAIN es : es[i][2] # Never}
(* The size update expects, one entry at a time: an entry counts although    *)
(* another names its token too.                                              *)
projected_any(u) ==  \* mutant: a deletion counts although the list does not hold the token
  LET known == {i \in DOMAIN u.entries : u.entries[i][1] \in DOMAIN list}
  IN IF u.type = "Full" THEN Cardinality(Adds(u.entries))
     ELSE Cardinality(DOMAIN list) + Cardinality(Adds(u.entries) \ known) - Cardinality(DOMAIN u.entries \ Adds(u.entries))
projected(u) ==
  LET known == {i \in DOMAIN u.entries : u.entries[i][1] \in DOMAIN list}
  IN IF u.type = "Full" THEN Cardinality(Adds(u.entries))
     ELSE Cardinality(DOMAIN list) + Cardinality(Adds(u.entries) \ known) - Cardinality(known \ Adds(u.entries))

Without1(f, t) == [x \in DOMAIN f \ {t} |-> f[x]]
With1(f, t, v) == [x \in DOMAIN f \cup {t} |-> IF x = t THEN v ELSE f[x]]
Changed(f, e) == IF e[2] = Never THEN Without1(f, e[1]) ELSE With1(f, e[1], e[2])
Patched(es, f) ==
  LET After[n \in 0 .. Len(es)] == IF n = 0 THEN f ELSE Changed(After[n - 1], es[n])
  IN After[Len(es)]

VersionMismatch_never(u) == FALSE  \* mutant: a differential update is always in order
VersionMismatch(u) == u.type = "Differential" /\ u.version <= version

(* update, when it answers Accepted; any other answer changes nothing.  The  *)
(* size is a usize: where deletions of one token twice take it below zero it *)
(* wraps, or panics, and the update is not applied.                          *)
update_list(u) ==
  /\ ~VersionMismatch(u) /\ projected(u) \in 0 .. Limit
  /\ list' = Patched(u.entries, IF u.type = "Full" THEN << >> ELSE list)
  /\ version' = u.version
  /\ applied' = (IF u.type = "Full" THEN {} ELSE applied) \cup {u}
  /\ UNCHANGED <<cache, clock, enabled, today, said>>

clear_list ==
  /\ list' = << >> /\ version' = 0 /\ applied' = {}
  /\ UNCHANGED <<cache, clock, enabled, today, said>>

---------------------------------------------------------------------------
(* The cache. *)

oldest(f) == CHOOSE t \in DOMAIN f : \A x \in DOMAIN f : f[t].stamp <= f[x].stamp
Evicted(f) == IF Cardinality(DOMAIN f) > Capacity THEN Without1(f, oldest(f)) ELSE f

(* Authorizer::remember, with the CSMS's answer. *)
remember(t, info) ==
  /\ clock < MaxClock
  /\ said' = [said EXCEPT ![t] = info]
  /\ IF enabled
     THEN /\ clock' = clock + 1
          /\ cache' = Evicted(With1(cache, t, [stamp |-> clock + 1, info |-> info]))
     ELSE UNCHANGED <<clock, cache>>
  /\ UNCHANGED <<version, list, enabled, today, applied>>

get(t) ==
  /\ clock' = clock + 1
  /\ IF t \in DOMAIN cache THEN cache' = [cache EXCEPT ![t].stamp = clock + 1]
     ELSE UNCHANGED cache

set_enabled_keeping(on) ==  \* mutant: the entries outlive the switch
  /\ enabled' = on /\ UNCHANGED cache
set_enabled(on) ==
  /\ enabled' = on
  /\ cache' = IF on THEN cache ELSE << >>

Switch(on) ==
  /\ enabled # on /\ set_enabled(on)
  /\ UNCHANGED <<version, list, clock, today, applied, said>>

clear_cache ==
  /\ cache # << >> /\ cache' = << >>
  /\ UNCHANGED <<version, list, clock, enabled, today, applied, said>>

---------------------------------------------------------------------------
(* Authorizer::decide.  A policy is the set of AuthorizationPolicy's fields   *)
(* that are true.                                                            *)

Policy == {"local_auth_list_enabled", "local_authorize_offline", "local_pre_authorize", "offline_tx_for_unknown_id"}

Listed(t, policy) == "local_auth_list_enabled" \in policy /\ t \in DOMAIN list
Cached(t) == enabled /\ t \in DOMAIN cache

Local(t, policy) ==
  IF Listed(t, policy) THEN list[t] ELSE IF Cached(t) THEN cache[t].info ELSE Never

may_use_local(online, policy) ==
  (IF online THEN "local_pre_authorize" ELSE "local_authorize_offline") \in policy

decide(t, online, policy) ==
  LET info == Local(t, policy)
  IN IF info # Never /\ status_at(info) = "Accepted" /\ may_use_local(online, policy) THEN "Accepted"
     ELSE IF info # Never /\ status_at(info) # "Accepted" /\ ~online THEN status_at(info)
     ELSE IF online THEN "AskCsms"
     ELSE IF "offline_tx_for_unknown_id" \in policy THEN "StartAnyway" ELSE "Unknown"

(* decide asks the cache, and refreshes the entry it finds, only about a     *)
(* token that the list does not answer for.                                  *)
Present(t, policy) ==
  /\ clock < MaxClock /\ ~Listed(t, policy) /\ enabled
  /\ get(t)
  /\ UNCHANGED <<version, list, enabled, today, applied, said>>

(* Time passes (external). *)
Midnight == today < 1 /\ today' = today + 1
            /\ UNCHANGED <<version, list, cache, clock, enabled, applied, said>>

AuthNext ==
  \/ \E u \in Updates : update_list(u)
  \/ \E t \in Tokens, i \in Infos : remember(t, i)
  \/ \E t \in Tokens, policy \in SUBSET Policy : Present(t, policy)
  \/ \E on \in BOOLEAN : Switch(on)
  \/ clear_list \/ clear_cache \/ Midnight

AuthSpec == AuthInit /\ [][AuthNext]_authVars

---------------------------------------------------------------------------

Says(info) == IF info = Never THEN Never ELSE status_at(info)
Names(u) == {u.entries[i][1] : i \in DOMAIN u.entries}
Word(u, t) == u.entries[CHOOSE i \in DOMAIN u.entries : u.entries[i][1] = t /\ \A j \in DOMAIN u.entries : u.entries[j][1] = t => j <= i][2]

(* Whatever arrives late, twice or out of order, and however often an update *)
(* names a token, each token's entry is what the newest of the updates that   *)
(* made the list says of it last, and the list is empty of what none of them  *)
(* names (LocalAuthorizationList::update, clear).                             *)
NewestWins ==
  \A t \in Tokens :
    LET about == {u \in applied : t \in Names(u)}
        newest == CHOOSE u \in about : \A w \in about : w.version <= u.version
    IN IF about = {} \/ Word(newest, t) = Never THEN t \notin DOMAIN list
       ELSE t \in DOMAIN list /\ list[t] = Word(newest, t)

(* An empty list that refuses to hold more than `limit` entries              *)
(* (LocalAuthorizationList::bounded): whatever update accepts.               *)
WithinLimit == Cardinality(DOMAIN list) <= Limit

(* update predicts its size from the entries before it applies them one by   *)
(* one: the prediction is only ever too small through an update, of those     *)
(* since the last snapshot, that names a token twice.                        *)
NamesOnce(u) == \A i, j \in DOMAIN u.entries : u.entries[i][1] = u.entries[j][1] => i = j
OnlyRepeatsOverfill == (\A u \in applied : NamesOnce(u)) => WithinLimit

(* A driver is accepted without the CSMS only on the strength of an entry    *)
(* that says so today: the operator's, or else the CSMS's own last answer    *)
(* about the token, even if the cache was evicted, cleared, switched off and *)
(* on in between (decide, remember, set_enabled).                            *)
NeverStaleAccept ==
  \A t \in DOMAIN list \cup DOMAIN cache, online \in BOOLEAN, policy \in SUBSET Policy :
    decide(t, online, policy) = "Accepted" =>
      IF Listed(t, policy) THEN Says(list[t]) = "Accepted" ELSE Says(said[t]) = "Accepted"

=============================================================================
