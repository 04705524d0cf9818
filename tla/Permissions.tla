---------------------------- MODULE Permissions ----------------------------
(***************************************************************************)
(* From what a project or a command line grants to what the runtime allows: *)
(* configuration values, permission flags, the lines of the permission DSL, *)
(* the host-side expansion of paths and the runtime's reading of the lines. *)
(*                                                                          *)
(* A list is the set of items its text splits into at the commas, so the    *)
(* empty text and a lone comma are {Empty}.  A DSL has at most one line per *)
(* category and kind; NoLine (no item at all) is the absence of the line.   *)
(***************************************************************************)
EXTENDS FiniteSets

CONSTANTS
  Category,      \* the permission categories
  PathCategory,  \* those whose items are paths: read and write
  Plain,         \* texts of items that mean the same everywhere
  Relative       \* texts of relative paths

Special == {"*", "", "newline", "exe token", "project token"}

ASSUME PermissionsAssumption ==
  /\ PathCategory \subseteq Category
  /\ Plain \cap Relative = {} /\ (Plain \cup Relative) \cap Special = {}

(* `at`: the directory a relative path is taken from.                       *)
Item(t) == [text |-> t, at |-> "launch"]
Items == [text : Plain \cup Relative \cup Special \cup {"."}, at : {"launch", "exe", "project"}]
All == Item("*")
Empty == Item("")
Newline == Item("newline")
NoLine == {}

(* ---- values of package.json and deno.json --------------------------------- *)

(* JSON: `items` of a string or of all strings of an array, `allow` and      *)
(* `deny` of an object, whose kinds are "absent" when the key is.            *)
Value(k, s) == [kind |-> k, items |-> s]
Entry(v) == [kind |-> v.kind, items |-> v.items, allow |-> Value("absent", {}), deny |-> Value("absent", {})]
Object(a, d) == [kind |-> "object", items |-> {}, allow |-> a, deny |-> d]

(* What a configuration can hold under the categories it names: only an      *)
(* object has a key "deny".                                                 *)
IsValue(v) == v.items \subseteq Items
IsEntry(e) ==
  IsValue(e) /\ IsValue(e.allow) /\ IsValue(e.deny) /\ (e.kind # "object" => e.deny.kind = "absent")
IsMap(map) == \A c \in DOMAIN map : IsEntry(map[c])

(* render_val, None read as the empty text. *)
Rendered(v) ==
  CASE v.kind = "true" -> {All}
    [] v.kind = "string" -> v.items
    [] v.kind = "array" /\ v.items \ {Empty} # {} -> v.items \ {Empty}
    [] OTHER -> {Empty}

HasItems(list) == list \ {Empty} # {}

(* An itemless list is dropped with a warning. *)
Pushed(list) == IF HasItems(list) THEN list ELSE NoLine

AllowLine(e) ==
  CASE e.kind \in {"true", "string", "array"} -> Pushed(Rendered(e))
    [] e.kind = "object" /\ e.allow.kind # "absent" -> Pushed(Rendered(e.allow))
    [] OTHER -> NoLine
DenyLine(e) ==
  IF e.kind = "object" /\ e.deny.kind # "absent" THEN Pushed(Rendered(e.deny)) ELSE NoLine

(* ---- the DSL -------------------------------------------------------------- *)

NoDsl == [all |-> FALSE, allow |-> [c \in Category |-> NoLine], deny |-> [c \in Category |-> NoLine]]

(* A category map; unknown categories are ignored with a warning. *)
CategoryMap(map) ==
  [all |-> FALSE,
   allow |-> [c \in Category |-> IF c \in DOMAIN map THEN AllowLine(map[c]) ELSE NoLine],
   deny |-> [c \in Category |-> IF c \in DOMAIN map THEN DenyLine(map[c]) ELSE NoLine]]

(* A newline would start a line of its own: the build is refused. *)
Representable(dsl) == \A c \in Category : Newline \notin dsl.allow[c] \cup dsl.deny[c]

(* Repeated flags of a category: "*" wins, lists are joined. *)
MergeCat(entries, c) ==
  LET lists == {e.list : e \in {x \in entries : x.cat = c}}
  IN IF {All} \in lists THEN {All} ELSE UNION lists

(* The DSL of granular flags and of -A. *)
FlagsDsl(f) ==
  [all |-> f.all,
   allow |-> [c \in Category |-> IF f.all THEN NoLine ELSE MergeCat(f.allow, c)],
   deny |-> [c \in Category |-> MergeCat(f.deny, c)]]

(* ---- expansion by the launcher and by inka run ------------------------------ *)

(* A path token is an absolute directory from here on. *)
AnchorItem(i, base) ==
  CASE i.text = "exe token" -> [text |-> ".", at |-> "exe"]
    [] i.text = "project token" -> [text |-> ".", at |-> "project"]
    [] i.text \in Relative /\ base = "exe" -> [text |-> i.text, at |-> "exe"]
    [] OTHER -> i

ExpandLines(lines, base) ==
  [c \in Category |->
     IF c \in PathCategory THEN {AnchorItem(i, base) : i \in lines[c]} ELSE lines[c]]

ExpandPermissions(dsl, base) ==
  [all |-> dsl.all, allow |-> ExpandLines(dsl.allow, base), deny |-> ExpandLines(dsl.deny, base)]

(* ---- the runtime ------------------------------------------------------------ *)

(* parse_perm_dsl refuses an allow line without items. *)
Accepted(dsl) == \A c \in Category : dsl.allow[c] # NoLine => HasItems(dsl.allow[c])

(* Options of PermissionsOptions: None is <<>>, and Some of no items is all. *)
Expand(line) == <<IF All \in line THEN {} ELSE line \ {Empty}>>

CatAllow(dsl, c) ==
  IF dsl.allow[c] # NoLine THEN Expand(dsl.allow[c]) ELSE IF dsl.all THEN <<{}>> ELSE <<>>

CatDeny(dsl, c) == IF dsl.deny[c] # NoLine THEN Expand(dsl.deny[c]) ELSE <<>>

Names(option, i) == option # <<>> /\ (option[1] = {} \/ i \in option[1])

(* What Deno's permission container answers, without prompts. *)
Permits(dsl, c, i) == Names(CatAllow(dsl, c), i) /\ ~Names(CatDeny(dsl, c), i)
=============================================================================
