------------------------------- MODULE MCBuild -------------------------------
(* Arguments, configurations, packages and stores for Build.                *)
EXTENDS Build, TLC

CONSTANTS A, B, X1, X2, C1, C2

(* ---- packages ----------------------------------------------------------- *)
MCFolder == {A, B, X1, X2, C1, C2}
MCNameOf == (A :> "a") @@ (B :> "b") @@ (X1 :> "x") @@ (X2 :> "x") @@ (C1 :> "c") @@ (C2 :> "c")

(* What a folder may depend on, by name; no package needs itself.           *)
Later == (A :> {B, X1, X2, C1, C2}) @@ (B :> {X1, X2, C1, C2}) @@ (X2 :> {C1, C2})
           @@ (C2 :> {X1}) @@ (X1 :> {C1}) @@ (C1 :> {})
DepsOf(f) ==
  {[n \in {MCNameOf[g] : g \in S} |-> CHOOSE g \in S : MCNameOf[g] = n] :
     S \in {T \in SUBSET Later[f] : \A g, h \in T : MCNameOf[g] = MCNameOf[h] => g = h}}
Graphs ==
  {(A :> a) @@ (B :> b) @@ (X1 :> p) @@ (X2 :> q) @@ (C1 :> <<>>) @@ (C2 :> r) :
     a \in DepsOf(A), b \in DepsOf(B), p \in DepsOf(X1), q \in DepsOf(X2), r \in DepsOf(C2)}
NoDeps == [f \in MCFolder |-> <<>>]

(* ---- projects ------------------------------------------------------------ *)
MCCategory == {"read", "net", "import"}
MCPathCategory == {"read"}
MCFloor == V(0, 2, 5, Release, 0)
Old == V(0, 2, 4, Release, 0)
Ahead == V(0, 3, 0, Beta, 1)

Rel == Item("rel")
Host == Item("host")
Exe == Item("exe token")
MapA == [read |-> Entry(Value("true", {}))]
MapB == [read |-> Object(Value("true", {}), Value("array", {Rel, Empty})),
         net |-> Entry(Value("string", {Host}))]
MapC == [read |-> Entry(Value("string", {Empty})), camera |-> Entry(Value("true", {})),
         import |-> Entry(Value("array", {Empty, Host})), net |-> Entry(Value("false", {}))]
MapD == [read |-> Object(Value("array", {Exe, Rel}), Value("absent", {})),
         net |-> Object(Value("array", {}), Value("string", {Host})),
         import |-> Entry(Value("array", {}))]
Broken == [net |-> Entry(Value("string", {Newline, Host}))]

Name(n) == Source("name", n, <<>>)
Map(m) == Source("map", "", m)
Other == Source("other", "", <<>>)
Sets(s) == [default |-> Set(TRUE, MapA), s |-> s]

File == [NoConfig EXCEPT !.state = "ok"]
Conf(c, k, s) == [File EXCEPT !.compile = c, !.marker = k, !.sets = s]
P(json, jsonc, pkg) == [json |-> json, jsonc |-> jsonc, pkg |-> pkg]
Plainly(json) == P(json, NoConfig, NoConfig)
At(op, v) == [op |-> op, text |-> Display(v)]

Pkg == Conf(Map(MapA), Name("s"), Sets(Set(TRUE, MapD)))
MCProject ==
  {P(Conf(c, k, s), NoConfig, p) :
     c \in {Absent, Name("s"), Other}, k \in {Absent, Name("all"), Name("gone")},
     s \in {<<>>, Sets(Set(TRUE, MapB)), Sets(Set(FALSE, <<>>))}, p \in {NoConfig, Pkg}}
  \cup {Plainly(Conf(Absent, Map(m), <<>>)) : m \in {MapC, MapD, Broken}}
  \cup {P([NoConfig EXCEPT !.state = "bad"], Conf(Map(MapC), Absent, <<>>), Pkg)}
  \cup {Plainly([Conf(Map(MapD), Absent, <<>>) EXCEPT !.base = b]) : b \in {"exe", "cwd", "else"}}
  \cup {P([File EXCEPT !.runtime = At("", Old)], NoConfig, [File EXCEPT !.runtime = At(">", Old), !.tested = At("", MCFloor)])}
  \cup {Plainly([File EXCEPT !.tested = At(">=", MCFloor)])}

Flag(k) == [k |-> k, words |-> 1]
Grant(k, c, l) == [k |-> k, cat |-> c, list |-> l, words |-> 1]
Val(k, v, w) == [k |-> k, val |-> v, words |-> w]
MCToken ==
  {Flag("all"), Flag("beta"), Flag("stable"),
   [k |-> "set", name |-> "s", words |-> 2], [k |-> "set", name |-> "default", words |-> 1],
   Grant("allow", "read", NoLine), Grant("allow", "read", {Rel, Exe}), Grant("allow", "net", {Host}),
   Grant("allow", "net", {Empty}), Grant("allow", "camera", NoLine), Grant("allow", "net", {Newline}),
   Grant("deny", "read", {Rel}), Grant("deny", "net", NoLine), Grant("deny", "net", {Empty}),
   Val("base", "exe", 2), Val("base", "exe", 1),
   Val("runtime", At("", Old), 2), Val("runtime", At(">=", Ahead), 2),
   Val("tested", At("", MCFloor), 2), Val("tested", At(">=", MCFloor), 2)}

MCStore == {{Old}, {Old, MCFloor}, {MCFloor, Ahead}}

-----------------------------------------------------------------------------
(* Dependencies are only varied for a plain build.                          *)
Init ==
  \/ BuildInit({NoDeps}, {<<>>})
  \/ /\ BuildInit(Graphs, {<<A>>, <<B, X1>>})
     /\ cmd = "build" /\ project = Plainly(File) /\ toolchain = "dev" /\ out = "none"

Next == BuildNext /\ (deps # NoDeps => args' = <<>>)

Spec == Init /\ [][Next]_buildVars
=============================================================================
