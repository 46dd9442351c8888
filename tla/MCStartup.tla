------------------------------ MODULE MCStartup ------------------------------
(* TLC instances of Startup: an NI9208 with one channel and an NI9411 with one *)
(* counter and no alias, files an operator might leave, and small numbers.     *)
EXTENDS Startup

CONSTANTS cur1, ctr1,                        (* the modules *)
          product, mod1, mod2, twoWords, n0, n1  (* texts *)

MCModules == <<cur1, ctr1>>
MCCreates == {cur1}
MCTexts == {product, mod1, mod2, twoWords, n0, n1, Yes, No, Garbage}
MCIdents == STRING
MCFirstWord == [t \in MCTexts |-> IF t = twoWords THEN mod2 ELSE t]

\* The values of the key names in nm, 0 for the other keys of the file.
Table(f, nm) == [k \in Scalars(f) |->
    IF \E p \in nm : p[1] = k THEN (CHOOSE p \in nm : p[1] = k)[2] ELSE 0]

MCDefault == [f \in {Server, cur1, ctr1} |->
    IF f = Server THEN Table(f, {<<ServerKeys[1], Yes>>, <<ServerKeys[2], 2>>})
    ELSE Table(f, {<<Name, product>>, <<Alias, IF f = cur1 THEN mod1 ELSE Empty>>,
                   <<ChanMax, 2>>, <<ChanMin, IF f = cur1 THEN -2 ELSE 0>>,
                   <<CountingMax, UintSize - 1>>,
                   <<CountKey(IF f = cur1 THEN "channel" ELSE "counter"), 1>>})]
MCNames == [f \in {Server, cur1, ctr1} |->
    [l \in Lists |-> IF <<f, l>> \in {<<cur1, "channel">>, <<ctr1, "counter">>}
                     THEN <<n0>> ELSE <<>>]]

Text(kind) == [kind |-> kind, id |-> <<"", 0>>, val |-> Empty]

\* The operator's file of the NI9208: complete limits, a name and a comment; the
\* limits below the defaults, in two blocks of one section, one key twice, one key
\* above every header, a key of his own; values that do not parse; too many names.
MCCurrent ==
    { Missing, <<>>,
      << Header("modules"), Entry(Alias, twoWords), Text("text"),
         Header("channels"), Entry(ChanMax, 1), Entry(ChanMin, 0),
         Entry(Key("channels", "channel", 0), n1) >>,
      << Entry(ChanMax, 1), Header("channels"), Entry(ChanMax, 1), Entry(ChanMin, -4),
         Header("notes"), Entry(Key("notes", "note", 0), n1),
         Header("channels"), Entry(ChanMax, -3) >>,
      << Text("unknown"), Header("channels"), Entry(ChanMax, n1), Entry(ChanMin, 1),
         Entry(CountKey("channel"), n0) >>,
      << Header("channels"), Entry(CountKey("channel"), -2),
         Entry(Key("channels", "channel", 1), n1) >> }

\* Of the NI9411: none; limits in order, and not; an alias.
MCCounter ==
    { <<>>,
      << Header("counters"), Entry(CountingMax, 2), Entry(CountingMin, 1), Text("text"),
         Header("modules"), Entry(Shunt[1], 1) >>,
      << Header("counters"), Entry(CountingMin, 2), Entry(CountingMax, 1),
         Header("modules"), Entry(Alias, mod2), Entry(Shunt[1], 1) >> }

MCServer ==
    { << Header("exlog"), Entry(ServerKeys[1], No), Header("exlogmapping"),
         Entry(ServerKeys[2], n0) >> }

MCContents == [f \in {Server, cur1, ctr1} |->
    IF f = Server THEN MCServer ELSE IF f = cur1 THEN MCCurrent ELSE MCCounter]

Good == [i \in 1..9 |-> "number"]
MCTables == { << Good, [Good EXCEPT ![6] = "word", ![7] = "huge"], <<>>, Good >>,
              << Good, [Good EXCEPT ![2] = "huge", ![7] = "word"] >> }

===============================================================================
