------------------------------- MODULE CdpMux -------------------------------
(***************************************************************************)
(* The DevTools multiplexer of `inka desktop --inspect`.  A DevTools client *)
(* connects to /unified, which fronts the renderer (CEF) and, as a child    *)
(* target, the Deno isolate; or to /cef or /deno, a plain proxy of one of   *)
(* them.  Under --inspect-brk the renderer must have been paused before     *)
(* /debugger-attached releases the app.  Clients come one after the other;  *)
(* the isolates are processes of their own; everyone may leave at any time. *)
(***************************************************************************)
EXTENDS Naturals, Sequences

CONSTANTS
  MaxAsked,    \* bound: requests a client sends
  MaxEvents,   \* bound: frames that are not asked for, and departures
  MaxClients   \* bound: clients that connect

ASSUME MuxAssumption == MaxAsked \in Nat /\ MaxEvents \in Nat /\ MaxClients \in Nat

Upstream == {"cef", "deno"}
Peer == Upstream \cup {"client"}
MuxKind == Upstream \cup {"unified"}

VARIABLES
  brk,        \* inspect_brk
  attached,   \* debugger_attached
  released,   \* the app has been told so
  paused,     \* the renderer has executed the injected Debugger.pause
  kind,       \* the path the client connected to, "none" before the first
  phase,      \* the step of the task that serves it
  conn,       \* per peer: it is connected
  inbox,      \* per peer: frames it has sent and nobody has read
  outgoing,   \* per peer: the channel of its writer task
  reader,     \* per peer: its reader task, or proxy direction, runs
  writer,     \* per peer: its writer task runs
  announced,  \* deno_announced
  acks,       \* ids of the injected requests whose replies have been read
  asked,      \* history: the client's requests, by id
  got,        \* history: the frames the client has received
  todo,       \* per isolate: requests it has not answered yet
  events, clients   \* counters for the bounds

gate == <<brk, attached, released, paused>>
wires == <<conn, inbox, outgoing, reader, writer>>
talk == <<asked, got, todo>>
muxVars == <<gate, kind, phase, wires, announced, acks, talk, events, clients>>

Phases == {"none", "connect", "inject", "open", "over"}

(* Frames: type, id, method or context name, sessionId.                     *)
F(t, id, m, s) == [t |-> t, id |-> id, m |-> m, s |-> s]
Close == F("close", 0, "-", "none")
Ping == F("ping", 0, "-", "none")
Enable == F("request", MaxAsked + 1, "enable", "none")   \* id -1 in the code
Pause == F("request", MaxAsked + 2, "pause", "none")     \* id -2

Methods == {"plain", "autoAttach", "attachDeno", "detachDeno"}
SessionsOf(m) == IF m = "autoAttach" THEN {"none", "deno"} ELSE {"none"}
Frame == [t : {"request", "reply", "event", "ping", "close"}, id : 0..(MaxAsked + 2),
          m : Methods \cup {"enable", "pause", "attached", "detached", "main realm",
                            "Renderer", "Deno", "-"},
          s : {"none", "deno"}]

MuxTypeOK ==
  /\ {brk, attached, released, paused, announced} \subseteq BOOLEAN
  /\ kind \in MuxKind \cup {"none"} /\ phase \in Phases
  /\ conn \in [Peer -> BOOLEAN]
  /\ inbox \in [Peer -> Seq(Frame)] /\ outgoing \in [Peer -> Seq(Frame)]
  /\ reader \in [Peer -> BOOLEAN] /\ writer \in [Peer -> BOOLEAN]
  /\ acks \subseteq {Enable.id, Pause.id}
  /\ asked \in Seq(Frame) /\ got \in Seq(Frame)
  /\ todo \in [Upstream -> SUBSET Frame]
  /\ events \in 0..MaxEvents /\ clients \in 0..MaxClients

MuxInit ==
  /\ brk \in BOOLEAN
  /\ attached = FALSE /\ released = FALSE /\ paused = FALSE /\ announced = FALSE
  /\ kind = "none" /\ phase = "none" /\ conn = [p \in Peer |-> FALSE]
  /\ inbox = [p \in Peer |-> <<>>] /\ outgoing = [p \in Peer |-> <<>>]
  /\ reader = [p \in Peer |-> FALSE] /\ writer = [p \in Peer |-> FALSE]
  /\ acks = {} /\ asked = <<>> /\ got = <<>>
  /\ todo = [u \in Upstream |-> {}]
  /\ events = 0 /\ clients = 0

(* Who takes part; when a session ends, none of its sockets or tasks stay. *)
Peers == IF kind = "unified" THEN Peer ELSE {"client", kind}
Over ==
  /\ phase' = "over" /\ conn' = [p \in Peer |-> FALSE]
  /\ inbox' = [p \in Peer |-> <<>>] /\ outgoing' = [p \in Peer |-> <<>>]
  /\ reader' = [p \in Peer |-> FALSE] /\ writer' = [p \in Peer |-> FALSE]

(* A frame arrives at a peer that still reads. *)
Deliver(p, f) ==
  /\ got' = IF p = "client" THEN Append(got, f) ELSE got
  /\ todo' = [u \in Upstream |-> IF u = p /\ f.t = "request" THEN todo[u] \cup {f} ELSE todo[u]]
  /\ UNCHANGED asked

(* ---- the HTTP side ------------------------------------------------------ *)

(* An Origin is none, a DevTools frontend, or the authority of a page.      *)
Requests == [path : MuxKind \cup {"gate"}, method : {"GET", "POST"},
             host : {"none", "localhost", "elsewhere"},
             origin : {"none", "devtools", "localhost", "elsewhere"}]

ValidHost(r) == r.host \in {"none", "localhost"}

ValidOrigin(r) ==
  r.origin \in {"none", "devtools"} \/ (r.host # "none" /\ r.origin = r.host)

Served(r) == ValidHost(r) /\ r.method = "GET"

(* The app asks whether it may navigate. *)
Poll(r) ==
  /\ r.path = "gate" /\ Served(r)
  /\ attached /\ ~released /\ released' = TRUE
  /\ UNCHANGED <<brk, attached, paused, kind, phase, wires, announced, acks, talk, events,
                 clients>>

(* The websocket of a client; /deno opens the gate at once.                 *)
Upgrade(r) ==
  /\ r.path \in MuxKind /\ Served(r) /\ ValidOrigin(r)
  /\ phase \in {"none", "over"} /\ clients < MaxClients
  /\ clients' = clients + 1
  /\ kind' = r.path /\ phase' = "connect"
  /\ attached' = (attached \/ r.path = "deno")
  /\ conn' = [conn EXCEPT !["client"] = TRUE]
  /\ announced' = FALSE /\ acks' = {} /\ asked' = <<>> /\ got' = <<>>
  /\ todo' = [u \in Upstream |-> {}]
  /\ UNCHANGED <<brk, released, paused, inbox, outgoing, reader, writer, events>>

(* ---- connecting, and the pause ------------------------------------------ *)

Injects == brk /\ kind # "deno"

(* All upstreams answer within 30 s; the client is not looked at meanwhile. *)
Connected ==
  /\ phase = "connect" /\ phase' = IF Injects THEN "inject" ELSE "open"
  /\ attached' = (attached \/ ~Injects)
  /\ conn' = [p \in Peer |-> IF p = "client" THEN conn[p] ELSE p \in Peers]
  /\ reader' = [p \in Peer |-> p \in Peers]
  /\ writer' = [p \in Peer |-> kind = "unified"]
  /\ todo' = [todo EXCEPT !["cef"] = IF Injects THEN {Enable, Pause} ELSE {}]
  /\ UNCHANGED <<brk, released, paused, kind, inbox, outgoing, announced, acks, asked, got,
                 events, clients>>

ConnectFails ==
  /\ phase = "connect" /\ Over
  /\ UNCHANGED <<gate, kind, announced, acks, talk, events, clients>>

(* Mutant: one reply is enough. *)
InjectReadOne ==
  /\ phase = "inject" /\ inbox["cef"] # <<>>
  /\ inbox' = [inbox EXCEPT !["cef"] = Tail(@)]
  /\ acks' = acks \cup ({Head(inbox["cef"]).id} \cap {Enable.id, Pause.id})
  /\ LET done == acks' # {} IN
     /\ phase' = (IF done THEN "open" ELSE phase) /\ attached' = (attached \/ done)
  /\ UNCHANGED <<brk, released, paused, kind, conn, outgoing, reader, writer, announced, talk,
                 events, clients>>

(* Every frame is swallowed until both replies have been read. *)
InjectRead ==
  /\ phase = "inject" /\ inbox["cef"] # <<>>
  /\ inbox' = [inbox EXCEPT !["cef"] = Tail(@)]
  /\ acks' = acks \cup ({Head(inbox["cef"]).id} \cap {Enable.id, Pause.id})
  /\ LET done == acks' = {Enable.id, Pause.id} IN
     /\ phase' = (IF done THEN "open" ELSE phase) /\ attached' = (attached \/ done)
  /\ UNCHANGED <<brk, released, paused, kind, conn, outgoing, reader, writer, announced, talk,
                 events, clients>>

(* The unified session gives up; the proxy of the renderer goes on without. *)
InjectFails ==
  /\ phase = "inject" /\ inbox["cef"] = <<>> /\ ~conn["cef"]
  /\ \/ kind = "unified" /\ Over /\ UNCHANGED attached
     \/ kind = "cef" /\ phase' = "open" /\ attached' = TRUE /\ UNCHANGED wires
  /\ UNCHANGED <<brk, released, paused, kind, announced, acks, talk, events, clients>>

(* ---- the unified session ------------------------------------------------- *)

(* A send to a channel whose writer has returned is lost. *)
Send(q, p, fs) == IF writer[p] THEN [q EXCEPT ![p] = @ \o fs] ELSE q

Unified == kind = "unified" /\ phase = "open"

(* What the client is told by the mux itself about a request. *)
Announcement(f) ==
  IF f.m = "autoAttach" /\ ~announced THEN <<F("event", 0, "attached", "none")>> ELSE <<>>

LocalAnswer(f) ==
  CASE f.m = "attachDeno" -> <<F("reply", f.id, f.m, "none")>>
    [] f.m = "detachDeno" -> <<F("reply", f.id, f.m, "none"),
                               F("event", 0, "detached", "none")>>
    [] OTHER -> <<>>

(* Mutant: Deno is announced at the request after the answer to the first   *)
(* one that asks for targets.                                               *)
RouteLate(f) ==
  IF f.s = "deno" THEN /\ outgoing' = Send(outgoing, "deno", <<[f EXCEPT !.s = "none"]>>)
                       /\ UNCHANGED announced
  ELSE /\ announced' = (announced \/ \E n \in DOMAIN got : got[n].m = "autoAttach")
       /\ outgoing' = Send(Send(outgoing, "client",
                               (IF announced' # announced
                                  THEN <<F("event", 0, "attached", "none")>> ELSE <<>>)
                                 \o LocalAnswer(f)),
                        "cef", IF LocalAnswer(f) = <<>> THEN <<f>> ELSE <<>>)

(* Mutant: the detach of the child target is answered, and forwarded too.   *)
RouteForwards(f) ==
  IF f.s = "deno" THEN /\ outgoing' = Send(outgoing, "deno", <<[f EXCEPT !.s = "none"]>>)
                       /\ UNCHANGED announced
  ELSE /\ announced' = (announced \/ f.m = "autoAttach")
       /\ outgoing' = Send(Send(outgoing, "client", Announcement(f) \o LocalAnswer(f)),
                        "cef", <<f>>)

(* route_client_text *)
Route(f) ==
  IF f.s = "deno" THEN /\ outgoing' = Send(outgoing, "deno", <<[f EXCEPT !.s = "none"]>>)
                       /\ UNCHANGED announced
  ELSE /\ announced' = (announced \/ f.m = "autoAttach")
       /\ outgoing' = Send(Send(outgoing, "client", Announcement(f) \o LocalAnswer(f)),
                        "cef", IF LocalAnswer(f) = <<>> THEN <<f>> ELSE <<>>)

ReadFrom(p) ==
  /\ reader[p] /\ inbox[p] # <<>> /\ inbox' = [inbox EXCEPT ![p] = Tail(@)]

ReadClient ==
  /\ Unified /\ ReadFrom("client")
  /\ LET f == Head(inbox["client"]) IN
     \/ f.t = "request" /\ Route(f) /\ UNCHANGED reader
     \/ /\ f.t = "close" /\ reader' = [reader EXCEPT !["client"] = FALSE]
        /\ outgoing' = Send(Send(outgoing, "cef", <<f>>), "deno", <<f>>) /\ UNCHANGED announced
     \/ /\ f.t = "ping" /\ outgoing' = Send(outgoing, "cef", <<f>>)
        /\ UNCHANGED <<announced, reader>>
  /\ UNCHANGED <<gate, kind, phase, conn, writer, acks, talk, events, clients>>

(* rewrite_text_from_upstream: text frames get the session of the child and *)
(* contexts the name of their isolate.                                      *)
FromUpstream(u, f) ==
  IF f.t \notin {"reply", "event"} THEN f
  ELSE [f EXCEPT !.s = IF u = "deno" THEN "deno" ELSE @,
                 !.m = IF @ # "main realm" THEN @
                       ELSE IF u = "deno" THEN "Deno" ELSE "Renderer"]

ReadUpstream(u) ==
  /\ Unified /\ ReadFrom(u)
  /\ outgoing' = Send(outgoing, "client", <<FromUpstream(u, Head(inbox[u]))>>)
  /\ reader' = [reader EXCEPT ![u] = writer["client"]]
  /\ UNCHANGED <<gate, kind, phase, conn, writer, announced, acks, talk, events, clients>>

Write(p) ==
  /\ Unified /\ writer[p] /\ outgoing[p] # <<>>
  /\ LET f == Head(outgoing[p]) IN
     IF ~conn[p] THEN
       /\ writer' = [writer EXCEPT ![p] = FALSE] /\ outgoing' = [outgoing EXCEPT ![p] = <<>>]
       /\ UNCHANGED talk
     ELSE
       /\ Deliver(p, f) /\ writer' = [writer EXCEPT ![p] = f.t # "close"]
       /\ outgoing' = [outgoing EXCEPT ![p] = IF f.t = "close" THEN <<>> ELSE Tail(@)]
  /\ UNCHANGED <<gate, kind, phase, conn, inbox, reader, announced, acks, events, clients>>

(* A read fails once the peer has gone. *)
ReadFails(p) ==
  /\ phase = "open" /\ reader[p] /\ inbox[p] = <<>> /\ ~conn[p]
  /\ reader' = [reader EXCEPT ![p] = FALSE]
  /\ UNCHANGED <<gate, kind, phase, conn, inbox, outgoing, writer, announced, acks, talk, events,
                 clients>>

(* Mutant: all readers are waited for, instead of the first. *)
TeardownJoin ==
  /\ Unified /\ \A p \in Peer : ~reader[p]
  /\ Over
  /\ UNCHANGED <<gate, kind, announced, acks, talk, events, clients>>

(* The first reader that returns takes all other tasks with it. *)
Teardown ==
  /\ Unified /\ \E p \in Peer : ~reader[p]
  /\ Over
  /\ UNCHANGED <<gate, kind, announced, acks, talk, events, clients>>

(* ---- /cef and /deno: proxy_frames ---------------------------------------- *)

Proxied == kind \in Upstream /\ phase = "open"

Pump(from) ==
  /\ Proxied /\ ReadFrom(from)
  /\ LET f == Head(inbox[from])
         to == CHOOSE p \in Peers : p # from IN
     IF ~conn[to] THEN reader' = [reader EXCEPT ![from] = FALSE] /\ UNCHANGED talk
     ELSE Deliver(to, f) /\ reader' = [reader EXCEPT ![from] = f.t # "close"]
  /\ UNCHANGED <<gate, kind, phase, conn, outgoing, writer, announced, acks, events, clients>>

ProxyDone ==
  /\ Proxied /\ \A p \in Peers : ~reader[p]
  /\ Over
  /\ UNCHANGED <<gate, kind, announced, acks, talk, events, clients>>

(* ---- clients and isolates ------------------------------------------------ *)

Utter(p, f) == conn[p] /\ inbox' = [inbox EXCEPT ![p] = Append(@, f)]

Ask(m, s) ==
  /\ Len(asked) < MaxAsked
  /\ LET f == F("request", Len(asked) + 1, m, s) IN
     Utter("client", f) /\ asked' = Append(asked, f)
  /\ UNCHANGED <<gate, kind, phase, conn, outgoing, reader, writer, announced, acks, got, todo,
                 events, clients>>

Answer(u, f) ==
  /\ f \in todo[u] /\ Utter(u, F("reply", f.id, f.m, "none"))
  /\ todo' = [todo EXCEPT ![u] = @ \ {f}]
  /\ paused' = (paused \/ f = Pause)
  /\ UNCHANGED <<brk, attached, released, kind, phase, conn, outgoing, reader, writer, announced,
                 acks, asked, got, events, clients>>

(* A keep-alive of the client, or a new context in an isolate. *)
MuxEvent(p) ==
  /\ events < MaxEvents /\ events' = events + 1
  /\ Utter(p, IF p = "client" THEN Ping ELSE F("event", 0, "main realm", "none"))
  /\ UNCHANGED <<gate, kind, phase, conn, outgoing, reader, writer, announced, acks, talk,
                 clients>>

(* With a Close frame, or without. *)
Leave(p) ==
  /\ events < MaxEvents /\ events' = events + 1
  /\ conn[p] /\ conn' = [conn EXCEPT ![p] = FALSE]
  /\ \E polite \in BOOLEAN : inbox' = [inbox EXCEPT ![p] = IF polite THEN Append(@, Close) ELSE @]
  /\ UNCHANGED <<gate, kind, phase, outgoing, reader, writer, announced, acks, talk, clients>>

Environment ==
  \/ \E m \in Methods : \E s \in SessionsOf(m) : Ask(m, s)
  \/ \E u \in Upstream : \E f \in todo[u] : Answer(u, f)
  \/ \E p \in Peer : MuxEvent(p) \/ Leave(p)

Mux ==
  \/ Connected \/ ConnectFails \/ InjectRead \/ InjectFails
  \/ ReadClient \/ Teardown \/ ProxyDone
  \/ \E u \in Upstream : ReadUpstream(u)
  \/ \E p \in Peer : Write(p) \/ ReadFails(p) \/ Pump(p)

MuxNext == Mux \/ Environment \/ \E r \in Requests : Upgrade(r) \/ Poll(r)

(* The tasks of the mux run on a multi-threaded executor: one that can go   *)
(* on does.  Nothing is assumed of clients, isolates or the app.            *)
MuxFairness ==
  /\ WF_muxVars(Connected \/ ConnectFails) /\ WF_muxVars(InjectRead) /\ WF_muxVars(InjectFails)
  /\ WF_muxVars(ReadClient) /\ WF_muxVars(Teardown) /\ WF_muxVars(ProxyDone)
  /\ \A u \in Upstream : WF_muxVars(ReadUpstream(u))
  /\ \A p \in Peer : WF_muxVars(Write(p)) /\ WF_muxVars(ReadFails(p)) /\ WF_muxVars(Pump(p))

MuxSpec == MuxInit /\ [][MuxNext]_muxVars /\ MuxFairness

-----------------------------------------------------------------------------
(* In the unified session every isolate receives only what is addressed to  *)
(* it, Deno without the session the mux invented, the renderer nothing      *)
(* about the child it does not know; and every reply the client receives    *)
(* answers one of its own requests, once, in the session it was asked in    *)
(* (desktop_devtools.rs:978-1000, 1237-1359).                                *)
RoutedBySession ==
  kind = "unified" =>
    /\ \A f \in todo["deno"] : f.s = "none" /\ asked[f.id].s = "deno"
    /\ \A f \in todo["cef"] \ {Enable, Pause} :
         f = asked[f.id] /\ f.s = "none" /\ LocalAnswer(f) = <<>>
    /\ \A i \in DOMAIN got : got[i].t = "reply" =>
         /\ got[i].id \in DOMAIN asked /\ got[i].s = asked[got[i].id].s
         /\ \A j \in DOMAIN got : got[j].t = "reply" /\ got[j].id = got[i].id => i = j
    /\ \A i \in DOMAIN got : got[i].m \in {"Renderer", "Deno"} =>
         (got[i].m = "Deno" <=> got[i].s = "deno")
    /\ ~\E i \in DOMAIN got : got[i].m = "main realm"

(* Deno is announced at most once in a session, not before the client has   *)
(* asked for targets, and before the answer to that (1269-1277): a frontend *)
(* that is not listening yet loses the event, and one that has its answer   *)
(* shows a page without the runtime.                                        *)
AnnouncedInTime ==
  kind = "unified" =>
    LET at == {i \in DOMAIN got : got[i].m = "attached"} IN
    /\ \A i, j \in at : i = j
    /\ at # {} => \E n \in DOMAIN asked : asked[n].m = "autoAttach" /\ asked[n].s = "none"
    /\ \A j \in DOMAIN got :
         got[j].t = "reply" /\ got[j].m = "autoAttach" /\ got[j].s = "none" =>
           \E i \in at : i < j

(* Under --inspect-brk the gate opens only after the renderer has paused    *)
(* (956-1000, 1026-1035), except for a client of /deno, which does not wait  *)
(* for it, and for a renderer that is gone (656-686).                       *)
GateOpensAfterPause ==
  [][attached' # attached /\ brk =>
       \/ paused
       \/ kind' = "deno" /\ phase' = "connect"
       \/ kind = "cef" /\ ~conn["cef"]]_muxVars

(* A unified session whose client or one of whose isolates has gone ends,   *)
(* with all its tasks and sockets: nothing waits for the other two for ever *)
(* (1201-1219).                                                             *)
UnifiedEnds == \A p \in Peer : (Unified /\ ~conn[p]) ~> (phase = "over")
=============================================================================
