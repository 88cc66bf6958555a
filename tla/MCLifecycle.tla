---------------------------- MODULE MCLifecycle ----------------------------
(***************************************************************************)
(* Three addresses, two of the seed and one entered by hand, of which at   *)
(* most two answer; files that are complete, repeated, short or wrong.     *)
(***************************************************************************)
EXTENDS Lifecycle

Line(name, value) == [comment |-> FALSE, fields |-> <<name, value>>]
Number(n) == [t |-> "number", v |-> n]
Bool(b) == [t |-> "bool", v |-> b]
Text(s) == [t |-> "text", v |-> s]
Comment == [comment |-> TRUE, fields |-> <<"#">>]

\* A value of its type for every setting, and those that matter.
Plain(name) == IF name \in Bools THEN Bool(FALSE) ELSE IF name \in Texts THEN Text(<<name>>) ELSE Number(3)
File(values) ==
    LET names == FoldSet(LAMBDA name, seq : Append(seq, name), <<>>, Settings)
    IN  <<Comment>> \o [i \in DOMAIN names |->
            Line(names[i], IF names[i] \in DOMAIN values THEN values[names[i]] ELSE Plain(names[i]))]

Values(threads_, max, seed, custom) ==
    [name \in {"N_THREADS", "MAX_CONNECTIONS", "CONNECT_TO_DNS_NODES", "CUSTOM_NODES_IPS"} |->
        CASE name = "N_THREADS" -> Number(threads_) [] name = "MAX_CONNECTIONS" -> Number(max)
          [] name = "CONNECT_TO_DNS_NODES" -> Bool(seed) [] OTHER -> Text(custom)]

Seeded == File(Values(2, 0, TRUE, <<"a.b", "n3">>))
Custom == File(Values(2, 1, FALSE, <<"n1">>))
Nobody == File(Values(2, 0, FALSE, <<>>))
TooMany == File(Values(2, 2, FALSE, <<"n1">>))
IsThreads(line) == ~line.comment /\ line.fields[1] = "N_THREADS"
Short == SelectSeq(Custom, LAMBDA line : ~IsThreads(line))
Repeated == Append(Short, Line("MAX_CONNECTIONS", Number(0)))
Unknown == Append(Custom, Line("N_THREAD", Number(2)))
Blank == Append(Custom, [comment |-> FALSE, fields |-> <<"">>])

FileNames == {"seeded", "custom", "nobody", "too many", "short", "repeated", "unknown", "blank", "none"}
MCFiles == [f \in FileNames |->
    [found |-> f # "none",
     lines |-> CASE f = "seeded" -> Seeded [] f = "custom" -> Custom [] f = "nobody" -> Nobody
                 [] f = "too many" -> TooMany [] f = "short" -> Short [] f = "repeated" -> Repeated
                 [] f = "unknown" -> Unknown [] f = "blank" -> Blank [] OTHER -> <<>>]]
Launch(argc, i, file) == [argc |-> argc, i |-> i, file |-> file]
MCLaunches == {Launch(2, FALSE, f) : f \in FileNames \ {"custom"}} \cup {Launch(3, TRUE, f) : f \in {"custom", "short"}}
              \cup {Launch(1, FALSE, "none"), Launch(3, FALSE, "custom")}

MCIps == {"n1", "n2", "n3"}
V4(ip) == [v4 |-> TRUE, ip |-> ip]
MCResolutions == {[ok |-> TRUE, addrs |-> <<V4("n1"), [v4 |-> FALSE, ip |-> "n6"], V4("n2")>>],
                  [ok |-> FALSE, addrs |-> <<>>]}
Network(a, b, c) == [ip \in MCIps |-> CASE ip = "n1" -> a [] ip = "n2" -> b [] OTHER -> c]
MCNetworks == {Network("down", "up", "up"), Network("up", "silent", "down"), Network("down", "down", "up"),
               Network("down", "down", "down")}
=============================================================================
