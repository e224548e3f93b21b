--------------------------- MODULE ProviderConfig ---------------------------
(***************************************************************************)
(* The part of the configuration that says where the site and Telegram     *)
(* providers send: what validate accepts and what the providers make of    *)
(* it.  Two keys of a YAML map that differ in white space only name the    *)
(* same target or bot; which of them counts is left to the iteration order *)
(* of a Go map, and may be another one each time.  So the operators give   *)
(* the set of possible results, and the empty set for an error.            *)
(***************************************************************************)
EXTENDS Notification

CONSTANTS
    Base,     \* redis.prefix
    PublicApi \* https://api.telegram.org

ASSUME ProviderConfigAssumption ==
    {Base, PublicApi, "default"} \subseteq {t \in Texts \ {""} : Trim[t] = t}

Names(map) == {Trim[k] : k \in DOMAIN map}

\* The maps the loop over map may build, with trimmed keys.
Trimmed(map) ==
    {[x \in Names(map) |-> map[key[x]]] :
        key \in {f \in [Names(map) -> DOMAIN map] : \A x \in Names(map) : Trim[f[x]] = x}}

TheOnly(S) == CHOOSE x \in S : TRUE

\* Mutant: the default target need not be among the targets.
EffectiveTargetsUnchecked(s) ==
    LET names == Names(s.targets)
        default == IF Trim[s.defaultTarget] # "" \/ names = {}
                   THEN Trim[s.defaultTarget] ELSE TheOnly(names)
    IN {[default |-> default, prefix |-> [x \in names |-> <<Base, x>>]]}

\* A prefix is the sequence of texts it is put together from.
EffectiveTargets(s) ==
    LET names   == Names(s.targets)
        default == IF Trim[s.defaultTarget] # "" THEN Trim[s.defaultTarget]
                   ELSE IF names = {} THEN "default"
                   ELSE IF Cardinality(names) = 1 THEN TheOnly(names)
                   ELSE ""
        Prefix(x, raw) == IF Trim[raw] # "" THEN <<Trim[raw]>>
                          ELSE IF Cardinality(names) = 1 THEN <<Base>>
                          ELSE <<Base, x>>
    IN IF names = {} THEN {[default |-> default, prefix |-> [x \in {default} |-> <<Base>>]]}
       ELSE IF "" \in names \/ default \notin names THEN {}
       ELSE {[default |-> default, prefix |-> [x \in names |-> Prefix(x, map[x])]] :
                map \in Trimmed(s.targets)}

\* Telegram's API addresses, once defaults has filled them in.
WithDefaults(t) ==
    LET api == IF t.api = "" THEN PublicApi ELSE t.api
    IN [t EXCEPT !.api = api,
                 !.bots = [k \in DOMAIN @ |->
                             IF Trim[@[k].api] = "" THEN [@[k] EXCEPT !.api = api] ELSE @[k]]]

\* bot_token gives a bot named "default", in place of one that has that name.
EffectiveBots(t) ==
    LET Bot(b)  == [token |-> Trim[b.token],
                    api   |-> IF Trim[b.api] # "" THEN Trim[b.api] ELSE PublicApi]
        legacy  == IF Trim[t.token] # "" THEN {"default"} ELSE {}
        names   == Names(t.bots) \cup legacy
        default == IF Trim[t.defaultBot] # "" THEN Trim[t.defaultBot]
                   ELSE IF "default" \in names THEN "default"
                   ELSE IF Cardinality(names) = 1 THEN TheOnly(names)
                   ELSE ""
    IN IF \/ "" \in Names(t.bots)
          \/ \E k \in DOMAIN t.bots : Trim[t.bots[k].token] = ""
          \/ default \notin names
       THEN {}
       ELSE {[default |-> default,
              bots    |-> [x \in names |-> IF x \in legacy THEN Bot(t) ELSE Bot(map[x])]] :
                map \in Trimmed(t.bots)}

\* rest: is all else that validate looks at in order?
Validates(c) ==
    /\ c.rest
    /\ c.site.enabled => EffectiveTargets(c.site) # {}
    /\ c.telegram.enabled => EffectiveBots(WithDefaults(c.telegram)) # {}
=============================================================================
