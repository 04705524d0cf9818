----------------------------- MODULE DesktopEvents -----------------------------
(***************************************************************************)
(* The desktop API of a running app.  The backend's UI thread reports what  *)
(* happens to windows and notifications, and the calls that pages make of   *)
(* bound functions, through one bounded channel; the worker takes them off  *)
(* one by one.  The two threads also share sets that say which windows and  *)
(* notifications are there.                                                 *)
(***************************************************************************)
EXTENDS Naturals, Sequences, FiniteSets

CONSTANTS
  Window,    \* windows, by the id the backend gives them
  Notice,    \* notifications, by id
  Call,      \* calls that pages make
  Fn,        \* functions the app binds; one name stands for all
  Capacity,  \* of the channel
  Nobody

(* What is being made: it is on the screen, but not known to the API yet. *)
Half == [of : Window \cup Notice, step : {"bare", "wired"}]

ASSUME EventsAssumption ==
  /\ Capacity \in Nat \ {0}
  /\ Nobody \notin Window \cup Notice \cup Fn \cup Half
  /\ Window \cap Notice = {}

VARIABLES
  worker,         \* the worker runs, or has ended
  channel,        \* DesktopEventTx, DesktopEventReceiver
  bound,          \* windowBindCallbacks[w]
  call,           \* call[c]: what the page has of its call
  taken,          \* taken[c]: the function that runs for it
  offered,        \* history: what was bound on its window since the call
  shows,          \* shows[x]: the window or notification x on the screen
  making,         \* what the worker is creating
  openWindows, closedWindows,
  devtools,       \* devtools_window
  tools,          \* history: all windows that show DevTools
  handles,        \* the notifications of the API, with their handles
  tracked,        \* the notifications of the script, with their objects
  missed          \* history: closed before its handler was there, or unheard

eventVars == <<worker, channel, bound, call, taken, offered, shows, making,
               openWindows, closedWindows, devtools, tools, handles, tracked, missed>>
callVars == <<bound, call, taken, offered>>
windowVars == <<openWindows, closedWindows, devtools, tools>>
noticeVars == <<handles, tracked>>

Event == [kind : {"call"}, of : Call, to : Window] \cup [kind : {"closed"}, of : Notice]
           \cup [kind : {"other"}]
Other == [kind |-> "other"]

EventsTypeOK ==
  /\ worker \in {"runs", "ended"}
  /\ channel \in Seq(Event) /\ Len(channel) <= Capacity
  /\ bound \in [Window -> Fn \cup {Nobody}]
  /\ call \in [Call -> {"none", "waits", "resolved", "rejected"}]
  /\ taken \in [Call -> Fn \cup {Nobody}]
  /\ offered \in [Call -> SUBSET (Fn \cup {Nobody})]
  /\ shows \in [Window \cup Notice -> {"none", "shown", "closed"}]
  /\ making \in Half \cup {Nobody}
  /\ {openWindows, closedWindows, tools} \subseteq SUBSET Window
  /\ devtools \in Window \cup {Nobody}
  /\ {handles, tracked} \subseteq SUBSET Notice
  /\ missed \subseteq Window \cup Notice

EventsInit ==
  /\ worker = "runs" /\ channel = <<>>
  /\ bound = [w \in Window |-> Nobody]
  /\ call = [c \in Call |-> "none"]
  /\ taken = [c \in Call |-> Nobody] /\ offered = [c \in Call |-> {}]
  /\ shows = [x \in Window \cup Notice |-> "none"]
  /\ making = Nobody
  /\ openWindows = {} /\ closedWindows = {} /\ devtools = Nobody /\ tools = {}
  /\ handles = {} /\ tracked = {} /\ missed = {}

(* The worker is one thread: nothing else runs in it while it is creating.  *)
Free == worker # "ended" /\ making = Nobody
Making(x) == making # Nobody /\ making.of = x

(* try_send: a full channel, or one whose receiver is gone, takes nothing.  *)
Takes == worker # "ended" /\ Len(channel) < Capacity
Sends(ev) == channel' = IF Takes THEN Append(channel, ev) ELSE channel

(* ---- bound functions ----------------------------------------------------- *)

Binds(w, f) ==
  /\ Free /\ shows[w] # "none" /\ w \notin tools
  /\ bound' = [bound EXCEPT ![w] = f]
  /\ offered' = [c \in Call |-> IF call[c] = "waits" THEN offered[c] \cup {f} ELSE offered[c]]
  /\ UNCHANGED <<worker, channel, call, taken, shows, making, windowVars, noticeVars, missed>>

Bind(w, f) == f \in Fn /\ Binds(w, f)
Unbind(w) == bound[w] # Nobody /\ Binds(w, Nobody)

(* Mutant: the call goes by the window that the backend reports for it.     *)
PageCallsByRenderer(c, w) ==
  /\ call[c] = "none" /\ bound[w] # Nobody
  /\ \/ /\ Takes
        /\ \E v \in Window : Sends([kind |-> "call", of |-> c, to |-> v])
        /\ call' = [call EXCEPT ![c] = "waits"]
     \/ call' = [call EXCEPT ![c] = "rejected"] /\ UNCHANGED channel
  /\ offered' = [offered EXCEPT ![c] = IF call'[c] = "waits" THEN {bound[w]} ELSE {}]
  /\ UNCHANGED <<worker, bound, taken, shows, making, windowVars, noticeVars, missed>>

(* A page calls a binding of its window.  It is told at once when its       *)
(* arguments nest too deep and when the channel does not take the call.     *)
PageCalls(c, w) ==
  /\ call[c] = "none" /\ bound[w] # Nobody
  /\ \/ /\ Takes
        /\ Sends([kind |-> "call", of |-> c, to |-> w])
        /\ call' = [call EXCEPT ![c] = "waits"]
     \/ call' = [call EXCEPT ![c] = "rejected"] /\ UNCHANGED channel
  /\ offered' = [offered EXCEPT ![c] = IF call'[c] = "waits" THEN {bound[w]} ELSE {}]
  /\ UNCHANGED <<worker, bound, taken, shows, making, windowVars, noticeVars, missed>>

(* The loop looks the function up when it comes to the call; it does not    *)
(* wait for its result.                                                     *)
TakeCall ==
  /\ Free /\ channel # <<>> /\ Head(channel).kind = "call"
  /\ channel' = Tail(channel)
  /\ LET c == Head(channel).of
         f == bound[Head(channel).to]
     IN /\ taken' = [taken EXCEPT ![c] = f]
        /\ offered' = [offered EXCEPT ![c] = {}]
        /\ call' = IF f = Nobody THEN [call EXCEPT ![c] = "rejected"] ELSE call
  /\ UNCHANGED <<worker, bound, shows, making, windowVars, noticeVars, missed>>

(* The function ends; a result that cannot be sent counts as an error.      *)
Returns(c) ==
  /\ Free /\ taken[c] # Nobody /\ call[c] = "waits"
  /\ \E r \in {"resolved", "rejected"} : call' = [call EXCEPT ![c] = r]
  /\ taken' = [taken EXCEPT ![c] = Nobody]
  /\ UNCHANGED <<worker, channel, bound, offered, shows, making, windowVars, noticeVars, missed>>

(* Input, menus, docks and trays: what a handler does is another action.    *)
Input ==
  /\ Takes /\ Sends(Other)
  /\ UNCHANGED <<worker, callVars, shows, making, windowVars, noticeVars, missed>>

TakeOther ==
  /\ Free /\ channel # <<>> /\ Head(channel).kind = "other"
  /\ channel' = Tail(channel)
  /\ UNCHANGED <<worker, callVars, shows, making, windowVars, noticeVars, missed>>

(* ---- windows ----------------------------------------------------------------- *)

(* The backend shows the window or notification; its handlers come next.    *)
Creates(x) ==
  /\ Free /\ shows[x] = "none"
  /\ shows' = [shows EXCEPT ![x] = "shown"]
  /\ making' = [of |-> x, step |-> "bare"]

NewWindow(w) ==
  /\ Creates(w)
  /\ UNCHANGED <<worker, channel, callVars, windowVars, noticeVars, missed>>

(* A DevTools window that is still there is only focused.                   *)
OpenDevTools(w) ==
  /\ devtools = Nobody \/ devtools \in closedWindows
  /\ Creates(w) /\ tools' = tools \cup {w}
  /\ UNCHANGED <<worker, channel, callVars, openWindows, closedWindows, devtools, noticeVars, missed>>

(* setup_window_events; for a notification, the slot with its id.           *)
Wire ==
  /\ making # Nobody /\ making.step = "bare"
  /\ making' = [making EXCEPT !.step = "wired"]
  /\ UNCHANGED <<worker, channel, callVars, shows, windowVars, noticeVars, missed>>

KeepWindow ==
  /\ making # Nobody /\ making.step = "wired" /\ making.of \in Window
  /\ openWindows' = openWindows \cup {making.of}
  /\ devtools' = IF making.of \in tools THEN making.of ELSE devtools
  /\ making' = Nobody
  /\ UNCHANGED <<worker, channel, callVars, shows, closedWindows, tools, noticeVars, missed>>

(* Mutant: the close handler does not note that the window is closed.       *)
CloseRequestedUnnoted(w) ==
  /\ shows[w] = "shown" /\ ~(Making(w) /\ making.step = "bare")
  /\ shows' = [shows EXCEPT ![w] = "closed"]
  /\ openWindows' = openWindows \ {w}
  /\ missed' = IF Making(w) THEN missed \cup {w} ELSE missed
  /\ Sends(Other)
  /\ UNCHANGED <<worker, callVars, making, closedWindows, devtools, tools, noticeVars>>

(* The user closes a window; its handler completes the close.               *)
CloseRequested(w) ==
  /\ shows[w] = "shown" /\ ~(Making(w) /\ making.step = "bare")
  /\ shows' = [shows EXCEPT ![w] = "closed"]
  /\ closedWindows' = closedWindows \cup {w} /\ openWindows' = openWindows \ {w}
  /\ missed' = IF Making(w) THEN missed \cup {w} ELSE missed
  /\ Sends(Other)
  /\ UNCHANGED <<worker, callVars, making, devtools, tools, noticeVars>>

CloseWindow(w) ==
  /\ Free /\ shows[w] # "none" /\ w \notin tools
  /\ shows' = [shows EXCEPT ![w] = "closed"]
  /\ closedWindows' = closedWindows \cup {w} /\ openWindows' = openWindows \ {w}
  /\ UNCHANGED <<worker, channel, callVars, making, devtools, tools, noticeVars, missed>>

(* What is closed before it has handlers closes without a word.             *)
ClosesBare ==
  /\ making # Nobody /\ making.step = "bare"
  /\ shows' = [shows EXCEPT ![making.of] = "closed"]
  /\ missed' = missed \cup {making.of}
  /\ UNCHANGED <<worker, channel, callVars, making, windowVars, noticeVars>>

(* ---- notifications ------------------------------------------------------------ *)

ShowNotification(n) ==
  /\ Creates(n)
  /\ UNCHANGED <<worker, channel, callVars, windowVars, noticeVars, missed>>

(* The backend has no notifications, and hands out no id.                   *)
NotificationError ==
  /\ Free /\ Sends(Other)
  /\ UNCHANGED <<worker, callVars, shows, making, windowVars, noticeVars, missed>>

KeepNotification ==
  /\ making # Nobody /\ making.step = "wired" /\ making.of \in Notice
  /\ handles' = handles \cup {making.of} /\ tracked' = tracked \cup {making.of}
  /\ making' = Nobody
  /\ UNCHANGED <<worker, channel, callVars, shows, windowVars, missed>>

NotificationCloses(n) ==
  /\ shows[n] = "shown" /\ ~(Making(n) /\ making.step = "bare")
  /\ shows' = [shows EXCEPT ![n] = "closed"]
  /\ Sends([kind |-> "closed", of |-> n])
  /\ handles' = handles \ {n}
  /\ missed' = IF Making(n) \/ ~Takes THEN missed \cup {n} ELSE missed
  /\ UNCHANGED <<worker, callVars, making, windowVars, tracked>>

TakeClosed ==
  /\ Free /\ channel # <<>> /\ Head(channel).kind = "closed"
  /\ channel' = Tail(channel)
  /\ tracked' = tracked \ {Head(channel).of}
  /\ UNCHANGED <<worker, callVars, shows, making, windowVars, handles, missed>>

(* ---- the end -------------------------------------------------------------------- *)

(* The app is done, or exits, or the dialog of its first uncaught error is  *)
(* dismissed: until then the loop goes on behind it.  The receiver goes     *)
(* with the isolate.                                                        *)
WorkerGone ==
  /\ Free /\ worker' = "ended" /\ channel' = <<>>
  /\ UNCHANGED <<callVars, shows, making, windowVars, noticeVars, missed>>

EventsNext ==
  \/ \E w \in Window :
       \/ \E f \in Fn : Bind(w, f)
       \/ Unbind(w)
       \/ \E c \in Call : PageCalls(c, w)
       \/ NewWindow(w) \/ OpenDevTools(w) \/ CloseRequested(w) \/ CloseWindow(w)
  \/ \E c \in Call : Returns(c)
  \/ TakeCall \/ Input \/ TakeOther
  \/ Wire \/ KeepWindow \/ ClosesBare
  \/ \E n \in Notice : ShowNotification(n) \/ NotificationCloses(n)
  \/ NotificationError \/ KeepNotification \/ TakeClosed
  \/ WorkerGone

EventsSpec == EventsInit /\ [][EventsNext]_eventVars

-----------------------------------------------------------------------------
InChannel(ev) == \E i \in DOMAIN channel : channel[i] = ev
Queued(c) == \E i \in DOMAIN channel : channel[i].kind = "call" /\ channel[i].of = c

(* No page waits for nothing: as long as the worker is there, a call that   *)
(* has no answer is either still in the channel or with one function of the *)
(* app, however full the channel was.  And what the loop finds bound for it *)
(* is what its own window has, or has had since the call was made           *)
(* (desktop_api.rs:375-444, desktop_js.rs:800-827).                         *)
CallsAnswered ==
  /\ \A c \in Call :
       /\ call[c] = "waits" /\ worker # "ended" => (Queued(c) <=> taken[c] = Nobody)
       /\ call[c] # "waits" => ~Queued(c)
  /\ \A i \in DOMAIN channel :
       channel[i].kind = "call" => bound[channel[i].to] \in offered[channel[i].of]

(* Both threads agree on what is on the screen, but for what is closed      *)
(* while it is being made or by a channel that is full: a reload finds all  *)
(* windows and no closed one, there is one DevTools window, which can be    *)
(* opened again, and the app hears of every notification until it is closed *)
(* (desktop_api.rs:26-33, 180-191, 322-352, 693-751).                       *)
WindowsTracked ==
  /\ \A w \in Window :
       /\ shows[w] = "shown" /\ ~Making(w) => w \in openWindows
       /\ shows[w] = "closed" /\ w \in openWindows => w \in missed
  /\ \A v, w \in tools : shows[v] = "shown" /\ shows[w] = "shown" => v = w
  /\ devtools # Nobody /\ shows[devtools] = "closed" => devtools \in closedWindows \cup missed
  /\ \A n \in Notice :
       /\ shows[n] = "shown" /\ ~Making(n) => n \in handles \cap tracked
       /\ shows[n] = "closed" /\ n \in handles => n \in missed
       /\ shows[n] = "closed" /\ n \in tracked =>
            worker = "ended" \/ n \in missed \/ InChannel([kind |-> "closed", of |-> n])
================================================================================
