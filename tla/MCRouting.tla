------------------------------ MODULE MCRouting ------------------------------
(* One user, whose UUID is u, or U in another spelling.                      *)
EXTENDS Routing

MCTrim == [t \in {"", "normal", "urgent", "soon", "u", "U", "x", "site", "telegram", "email",
                  "web_push", "bill", "bill*", "news", "main", "admin", "default", "notify:",
                  "old:", "tok1", "tok2", "api", "42"} |-> t]
          @@ (" " :> "") @@ (" u" :> "u") @@ (" main" :> "main") @@ (" site" :> "site")
          @@ (" bill*" :> "bill*") @@ (" news" :> "news")

MCWildcard == [t \in DOMAIN MCTrim |->
                  IF t \in {"bill*", " bill*"} THEN {"bill"} ELSE {}]

MCUuids == {"u", "U"}

Site(enabled, default, targets) ==
    [enabled |-> enabled, defaultTarget |-> default, targets |-> targets]
Telegram(enabled, token, default, bots) ==
    [enabled |-> enabled, token |-> token, api |-> "", defaultBot |-> default, bots |-> bots]
Bots == ("main" :> [token |-> "tok1", api |-> ""]) @@ ("admin" :> [token |-> "tok2", api |-> "api"])
Two == ("main" :> "") @@ ("admin" :> "old:")

\* One target and no bots; two of each; two keys that name one target; faults.
MCConfigs ==
    {[rest |-> TRUE, site |-> Site(TRUE, "", <<>>), telegram |-> Telegram(FALSE, "", "", <<>>)],
     [rest |-> TRUE, site |-> Site(TRUE, "main", Two), telegram |-> Telegram(TRUE, "tok1", "", Bots)],
     [rest |-> TRUE, site |-> Site(TRUE, "", ("main" :> "old:") @@ (" main" :> "")),
      telegram |-> Telegram(TRUE, "", "admin", Bots)],
     [rest |-> TRUE, site |-> Site(TRUE, "x", Two), telegram |-> Telegram(FALSE, "", "", <<>>)],
     [rest |-> TRUE, site |-> Site(FALSE, "", Two), telegram |-> Telegram(TRUE, "", "", Bots)]}

Note(topic, recipients, channels, target, bot) ==
    [topic |-> topic, title |-> "x", priority |-> "", recipients |-> recipients,
     channels |-> channels, target |-> target, bot |-> bot]

MCSends ==
    {Note(" news", <<"u", " u", "U">>, <<>>, "", ""),
     Note("bill", <<"u">>, <<>>, "x", "main"),
     Note("news", <<" u", "u">>, <<"site", " site", "telegram">>, " ", "x"),
     Note("news", <<"x">>, <<>>, "", "")}

Body(channel, enabled, topics, config_) ==
    [channel |-> channel, enabled |-> enabled, topics |-> topics, config |-> config_]
Cfg(target, bot, chat) == [ok |-> TRUE, target |-> target, bot |-> bot, chat |-> chat]

MCPuts ==
    {Body("site", TRUE, <<" bill*", "bill*">>, Cfg(" main", "", "")),
     Body(" site", FALSE, <<>>, EmptyConfig),
     Body("telegram", TRUE, <<" news", " ", "bill">>, Cfg("", "admin", "42")),
     Body("telegram", TRUE, <<" ">>, [EmptyConfig EXCEPT !.ok = FALSE]),
     Body("web_push", TRUE, <<>>, EmptyConfig),
     Body("x", TRUE, <<>>, EmptyConfig)}
=============================================================================
