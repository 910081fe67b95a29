-------------------------------- MODULE Boot --------------------------------
(***************************************************************************)
(* The gateway's start (main in gateway/main.go): VETO_STATIC_KEYS is      *)
(* parsed (parseStaticKeys in gateway/staticauth.go) and decides between   *)
(* static-key and dynamic mode; the key lookup, metering and the           *)
(* organisation limiter each connect to Redis with a ping of their own.    *)
(* Whatever fails ends the process before it listens.                      *)
(*                                                                         *)
(* An entry of VETO_STATIC_KEYS is what is left of the text between two    *)
(* commas after trimming: its number of fields, and its fields.            *)
(***************************************************************************)
EXTENDS Integers, Sequences

CONSTANTS
    Keys,        \* well-formed API keys
    Items,       \* entries that may be written in VETO_STATIC_KEYS
    MaxItems,    \* bound on the number of entries
    FreeLimit    \* monthly_requests_limit of the free tier in tiers.json

(* config.tiers: the hard cap of each tier; null, for no cap, is 0.         *)
Tiers == [free |-> FreeLimit, pro |-> 0, enterprise |-> 0]

(* LimitForTier: a tier that is not in the table has no cap.                *)
LimitForTier(t) == IF t \in DOMAIN Tiers THEN Tiers[t] ELSE 0

ASSUME FreeLimitAssumption == FreeLimit \in Nat \ {0}
ASSUME ItemsAssumption ==
    /\ \A e \in Items : DOMAIN e = {"fields", "key", "org", "tier"}
    /\ MaxItems \in Nat

VARIABLES
    env,        \* VETO_STATIC_KEYS, VETO_REDIS_URL, and whether the cloud is configured
    boot,       \* where main() is before it serves
    item,       \* index of the next entry to parse
    table,      \* staticKeys: the entry of each static key
    lookup,     \* the key lookup is connected
    metering,   \* metering is connected
    orgRL       \* the organisation limiter is connected

bootVars == <<env, boot, item, table, lookup, metering, orgRL>>

Blank(e) == e.fields = 0

(* VETO_STATIC_KEYS is unset, or holds nothing but space.                   *)
Unset == Len(env.keys) = 0 \/ (Len(env.keys) = 1 /\ Blank(env.keys[1]))

(* The cloud's settings are read in dynamic mode only.                      *)
BootInit ==
    /\ env \in [keys : UNION {[1..n -> Items] : n \in 0..MaxItems},
                redis : {"unset", "malformed", "set"},
                cloud : BOOLEAN]
    /\ ~Unset => env.cloud
    /\ boot = "parse"
    /\ item = 1
    /\ table = <<>>
    /\ lookup = FALSE
    /\ metering = FALSE
    /\ orgRL = FALSE

-----------------------------------------------------------------------------
(* parseStaticKeys.                                                         *)

StaticMode == DOMAIN table # {}

(* Variant of Rejected: a repeated key replaces the earlier entry.          *)
RejectedNotRepeated(e) ==
    \/ e.fields # 3
    \/ e.key \notin Keys
    \/ e.org = ""
    \/ e.tier \notin {"free", "pro", "enterprise"}

(* What makes an entry, and with it the whole variable, unacceptable.       *)
Rejected(e) ==
    \/ e.fields # 3
    \/ e.key \notin Keys
    \/ e.org = ""
    \/ e.tier \notin {"free", "pro", "enterprise"}
    \/ e.key \in DOMAIN table

With(e) == [k \in DOMAIN table \cup {e.key} |->
              IF k = e.key THEN [org |-> e.org, tier |-> e.tier] ELSE table[k]]

(* One turn of the loop: a blank entry is skipped, an unacceptable one ends *)
(* the process.                                                             *)
ParseEntry ==
    /\ boot = "parse" /\ ~Unset
    /\ item <= Len(env.keys)
    /\ LET e == env.keys[item] IN
       \/ /\ Blank(e)
          /\ UNCHANGED <<boot, table>>
       \/ /\ ~Blank(e) /\ Rejected(e)
          /\ boot' = "exited"
          /\ UNCHANGED table
       \/ /\ ~Blank(e) /\ ~Rejected(e)
          /\ table' = With(e)
          /\ UNCHANGED boot
    /\ item' = item + 1
    /\ UNCHANGED <<env, lookup, metering, orgRL>>

(* The end of the list: blank entries alone are an error, too.              *)
ParseDone ==
    /\ boot = "parse" /\ ~Unset
    /\ item > Len(env.keys)
    /\ boot' = IF StaticMode THEN "metering" ELSE "exited"
    /\ UNCHANGED <<env, item, table, lookup, metering, orgRL>>

(* Nothing is written: dynamic mode.                                        *)
ParseNothing ==
    /\ boot = "parse" /\ Unset
    /\ boot' = "lookup"
    /\ UNCHANGED <<env, item, table, lookup, metering, orgRL>>

-----------------------------------------------------------------------------
(* The connections.                                                         *)

(* redis.ParseURL fails, or the ping does.                                  *)
CannotConnect == env.redis \in {"malformed", "set"}

CanConnect == env.redis = "set"

(* newLookup, in dynamic mode only.  Since it insists on VETO_REDIS_URL,    *)
(* main's own check of it in dynamic mode never fires.                      *)
NewLookup ==
    /\ boot = "lookup"
    /\ \/ /\ CanConnect /\ env.cloud
          /\ lookup' = TRUE
          /\ boot' = "metering"
       \/ /\ env.redis = "unset" \/ ~env.cloud \/ CannotConnect
          /\ boot' = "exited"
          /\ UNCHANGED lookup
    /\ UNCHANGED <<env, item, table, metering, orgRL>>

(* newMetering, when VETO_REDIS_URL is set; without it, a static-mode       *)
(* gateway has neither metering nor a cap.                                  *)
NewMetering ==
    /\ boot = "metering"
    /\ \/ /\ env.redis = "unset"
          /\ boot' = "serving"
          /\ UNCHANGED metering
       \/ /\ CanConnect
          /\ metering' = TRUE
          /\ boot' = "orgRL"
       \/ /\ CannotConnect
          /\ boot' = "exited"
          /\ UNCHANGED metering
    /\ UNCHANGED <<env, item, table, lookup, orgRL>>

(* Variant of NewOrgRateLimiter: a failed ping is logged only.              *)
NewOrgRateLimiterOptional ==
    /\ boot = "orgRL"
    /\ orgRL' \in BOOLEAN
    /\ boot' = "serving"
    /\ UNCHANGED <<env, item, table, lookup, metering>>

NewOrgRateLimiter ==
    /\ boot = "orgRL"
    /\ \/ /\ CanConnect
          /\ orgRL' = TRUE
          /\ boot' = "serving"
       \/ /\ CannotConnect
          /\ boot' = "exited"
          /\ UNCHANGED orgRL
    /\ UNCHANGED <<env, item, table, lookup, metering>>

BootStep ==
    ParseEntry \/ ParseDone \/ ParseNothing \/ NewLookup \/ NewMetering \/ NewOrgRateLimiter

-----------------------------------------------------------------------------
(* Properties.                                                              *)

Tags == [org : {e.org : e \in Items}, tier : {e.tier : e \in Items}]

BootTypeOK ==
    /\ boot \in {"parse", "lookup", "metering", "orgRL", "serving", "exited"}
    /\ item \in 1..(MaxItems + 1)
    /\ DOMAIN table \subseteq Keys
    /\ \A k \in DOMAIN table : table[k] \in Tags
    /\ {lookup, metering, orgRL} \subseteq BOOLEAN

(* Entries that say something.                                              *)
Written == {env.keys[i] : i \in {j \in DOMAIN env.keys : ~Blank(env.keys[j])}}

(* A gateway that serves lacks nothing in silence ("fail loud at boot       *)
(* rather than surprise operators in prod", main.go): it runs from static   *)
(* keys exactly if some were written; otherwise it has its lookup; and      *)
(* metering and the cap are both there exactly if Redis was asked for,      *)
(* whichever of the three pings fails and whichever setting is wrong.       *)
NothingMissingInSilence ==
    boot = "serving" =>
        /\ StaticMode <=> Written # {}
        /\ lookup <=> ~StaticMode
        /\ metering <=> env.redis # "unset"
        /\ orgRL <=> metering
=============================================================================
