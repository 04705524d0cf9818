----------------------------- MODULE RulesProofs -----------------------------
(***************************************************************************)
(* Sets of rules and the events of a desktop app, each on its own variables. *)
(***************************************************************************)
EXTENDS ArtifactFormat, DesktopEvents, Fetch, Framework, ModuleResolution, VersionRules, VersionsProofs

-----------------------------------------------------------------------------
(***************************************************************************)
(* Calls, windows and notifications of a desktop app, for any number of     *)
(* each and every capacity of the channel.                                  *)
(***************************************************************************)

CallEvent(i) == i \in DOMAIN channel /\ channel[i].kind = "call"

(* A call is in the channel once. *)
QueuedOnce ==
  \A i, j \in DOMAIN channel :
    CallEvent(i) /\ CallEvent(j) /\ channel[i].of = channel[j].of => i = j

(* What has not been shown yet is known to nobody. *)
Unknown ==
  \A x \in Window \cup Notice : shows[x] = "none" =>
    /\ ~Making(x)
    /\ x \notin openWindows \cup closedWindows \cup tools \cup handles \cup tracked

ClosedIsClosed == \A w \in closedWindows : shows[w] = "closed"

(* What is closed while it is being made was missed. *)
MadeMissed == making # Nobody /\ shows[making.of] = "closed" => making.of \in missed

(* The DevTools window is one of them, and the only one but for its heir.   *)
OneHeir ==
  /\ devtools # Nobody => devtools \in tools
  /\ \A w \in tools : shows[w] = "shown" => w = devtools \/ Making(w)
  /\ devtools # Nobody /\ making # Nobody /\ making.of \in tools => shows[devtools] = "closed"

(* Only a call that waits has a function running for it. *)
OnlyWaiting == \A c \in Call : call[c] # "waits" => taken[c] = Nobody

CallInv == CallsAnswered /\ QueuedOnce /\ OnlyWaiting
ScreenInv == WindowsTracked /\ Unknown /\ ClosedIsClosed /\ MadeMissed /\ OneHeir
(* A notification is reported closed once it is. *)
ClosedReported == \A n \in Notice : InChannel([kind |-> "closed", of |-> n]) => shows[n] = "closed"

ApiInv == EventsTypeOK /\ CallInv /\ ScreenInv
EventsInv == ApiInv /\ ClosedReported

-----------------------------------------------------------------------------
(* What a channel holds after it has taken an event, and after it has given *)
(* one away (desktop_api.rs:417-428, desktop_js.rs:769-772).                *)
LEMMA Appended ==
  ASSUME NEW S, NEW s \in Seq(S), NEW e \in S
  PROVE  /\ Append(s, e) \in Seq(S) /\ Len(Append(s, e)) = Len(s) + 1
         /\ DOMAIN Append(s, e) = DOMAIN s \cup {Len(s) + 1}
         /\ \A i \in DOMAIN s : Append(s, e)[i] = s[i]
         /\ Append(s, e)[Len(s) + 1] = e
         /\ Len(s) + 1 \notin DOMAIN s
OBVIOUS

(* What is left of a channel of which the first event was taken              *)
(* (desktop_js.rs:769-772).                                                  *)
LEMMA Taken ==
  ASSUME NEW S, NEW s \in Seq(S), s # <<>>
  PROVE  /\ Tail(s) \in Seq(S) /\ Len(Tail(s)) = Len(s) - 1
         /\ 1 \in DOMAIN s /\ Head(s) = s[1] /\ Head(s) \in S
         /\ \A i \in DOMAIN Tail(s) : i + 1 \in DOMAIN s /\ Tail(s)[i] = s[i + 1] /\ i + 1 # 1
         /\ \A i \in DOMAIN s : i # 1 => i - 1 \in DOMAIN Tail(s) /\ Tail(s)[i - 1] = s[i]
         /\ \A i, j \in DOMAIN Tail(s) : i + 1 = j + 1 => i = j
OBVIOUS

(* What sending does to the channel. *)
LEMMA Sending ==
  ASSUME EventsTypeOK, NEW e \in Event, Sends(e)
  PROVE  /\ channel' \in Seq(Event) /\ Len(channel') <= Capacity
         /\ \A i \in DOMAIN channel : i \in DOMAIN channel' /\ channel'[i] = channel[i]
         /\ \A i \in DOMAIN channel' :
              \/ i \in DOMAIN channel
              \/ Takes /\ i = Len(channel) + 1 /\ channel'[i] = e
         /\ Takes => Len(channel) + 1 \in DOMAIN channel' /\ channel'[Len(channel) + 1] = e
<1> USE EventsAssumption DEF EventsTypeOK
<1>1. CASE Takes
  <2>1. channel' = Append(channel, e)
    BY <1>1 DEF Sends
  <2> QED
    BY <1>1, <2>1, Appended DEF Takes
<1>2. CASE ~Takes
  BY <1>2 DEF Sends
<1> QED
  BY <1>1, <1>2

(* Calls stay as they are when something else is sent or taken. *)
LEMMA OtherSent ==
  ASSUME EventsTypeOK, CallInv, NEW e \in Event, e.kind # "call", Sends(e),
         UNCHANGED <<worker, callVars>>
  PROVE  CallInv'
<1> USE DEF CallInv, CallsAnswered, QueuedOnce, OnlyWaiting, CallEvent, Queued, callVars
<1>1. \A i \in DOMAIN channel' : channel'[i].kind = "call" => i \in DOMAIN channel
  BY Sending
<1>2. \A c \in Call : Queued(c)' <=> Queued(c)
  BY <1>1, Sending
<1> QED
  BY <1>1, <1>2, Sending

(* Taking an event that is no call answers none and loses none.              *)
LEMMA OtherTaken ==
  ASSUME EventsTypeOK, CallInv, channel # <<>>, channel' = Tail(channel),
         Head(channel).kind # "call", UNCHANGED <<worker, callVars>>
  PROVE  CallInv'
<1> USE DEF EventsTypeOK, CallInv, CallsAnswered, QueuedOnce, OnlyWaiting, CallEvent, Queued, callVars
<1>1. ASSUME NEW c \in Call PROVE Queued(c)' <=> Queued(c)
  <2>1. ASSUME NEW i \in DOMAIN channel, channel[i].kind = "call", channel[i].of = c
        PROVE  Queued(c)'
    <3>1. i # 1
      BY <2>1, Taken
    <3>2. i - 1 \in DOMAIN channel' /\ channel'[i - 1] = channel[i]
      BY <3>1, Taken
    <3> QED
      BY <2>1, <3>2
  <2>2. ASSUME NEW i \in DOMAIN channel', channel'[i].kind = "call", channel'[i].of = c
        PROVE  Queued(c)
    BY <2>2, Taken
  <2> QED
    BY <2>1, <2>2
<1>2. QueuedOnce'
  BY Taken
<1> QED
  BY <1>1, <1>2, Taken

(* What is in the channel stays there when something is sent.               *)
LEMMA KeptInChannel ==
  ASSUME EventsTypeOK, NEW e \in Event, Sends(e), NEW ev
  PROVE  /\ InChannel(ev) => InChannel(ev)'
         /\ Takes => InChannel(e)'
BY Sending DEF InChannel

(* Another event than the one taken stays as well. *)
LEMMA LeftInChannel ==
  ASSUME EventsTypeOK, channel # <<>>, channel' = Tail(channel), NEW ev, InChannel(ev),
         ev # Head(channel)
  PROVE  InChannel(ev)'
<1>1. PICK i \in DOMAIN channel : channel[i] = ev
  BY DEF InChannel
<1>2. i # 1 /\ i - 1 \in DOMAIN channel' /\ channel'[i - 1] = ev
  BY <1>1, Taken DEF EventsTypeOK
<1> QED
  BY <1>2 DEF InChannel

(* Nothing is bound, called or shown in the beginning. *)
LEMMA EventsStarts == EventsInit => EventsInv
BY EventsAssumption
   DEF EventsInit, EventsInv, ApiInv, ClosedReported, InChannel, EventsTypeOK, CallInv, CallsAnswered, QueuedOnce, OnlyWaiting, CallEvent, Queued,
       ScreenInv, WindowsTracked, Unknown, ClosedIsClosed, MadeMissed, OneHeir, Making, Event

(* The screen and what is known of it stay, when no close event is lost.    *)
LEMMA ScreenStays ==
  ASSUME ScreenInv, UNCHANGED <<shows, making, windowVars, noticeVars, missed>>,
         \/ worker' = "ended"
         \/ worker' = worker /\ \A n \in Notice :
              InChannel([kind |-> "closed", of |-> n]) => InChannel([kind |-> "closed", of |-> n])'
  PROVE  ScreenInv'
<1> USE DEF ScreenInv, windowVars, noticeVars
<1>1. WindowsTracked'
  BY DEF WindowsTracked, Making
<1>2. (Unknown /\ ClosedIsClosed /\ MadeMissed /\ OneHeir)'
  BY DEF Unknown, ClosedIsClosed, MadeMissed, OneHeir, Making
<1> QED
  BY <1>1, <1>2

(* ---- calls -------------------------------------------------------------- *)

LEMMA BindsKeeps ==
  ASSUME EventsInv, NEW w \in Window, NEW f \in Fn \cup {Nobody}, Binds(w, f)
  PROVE  ApiInv'
<1> USE DEF EventsInv, ApiInv, Binds
<1>1. EventsTypeOK'
  BY DEF EventsTypeOK, windowVars, noticeVars
<1>2. CallInv'
  BY DEF CallInv, CallsAnswered, QueuedOnce, OnlyWaiting, CallEvent, Queued, EventsTypeOK, Event
<1>3. ScreenInv'
  BY ScreenStays DEF InChannel
<1> QED
  BY <1>1, <1>2, <1>3

LEMMA PageCallsKeeps ==
  ASSUME EventsInv, NEW c \in Call, NEW w \in Window, PageCalls(c, w)
  PROVE  ApiInv'
<1> USE DEF EventsInv, ApiInv
<1> DEFINE e == [kind |-> "call", of |-> c, to |-> w]
<1>1. e \in Event /\ e.kind = "call" /\ e.of = c /\ e.to = w
  BY DEF Event
<1>2. /\ UNCHANGED <<worker, bound, taken, shows, making, windowVars, noticeVars, missed>>
      /\ call[c] = "none" /\ bound[w] # Nobody
      /\ offered' = [offered EXCEPT ![c] = IF call'[c] = "waits" THEN {bound[w]} ELSE {}]
  BY DEF PageCalls
<1>3. CASE Takes /\ Sends(e) /\ call' = [call EXCEPT ![c] = "waits"]
  <2>1. EventsTypeOK'
    BY <1>1, <1>2, <1>3, Sending DEF EventsTypeOK, windowVars, noticeVars
  <2>2. ~Queued(c) /\ taken[c] = Nobody
    BY <1>2 DEF CallInv, CallsAnswered, OnlyWaiting
  <2>3. Queued(c)'
    BY <1>1, <1>3, Sending DEF Queued
  <2>4. \A d \in Call \ {c} : Queued(d)' <=> Queued(d)
    BY <1>1, <1>3, Sending DEF Queued
  <2>5. QueuedOnce'
    BY <1>1, <1>3, <2>2, Sending DEF QueuedOnce, CallEvent, CallInv, Queued
  <2>6. ASSUME NEW i \in DOMAIN channel', channel'[i].kind = "call"
        PROVE  bound'[channel'[i].to] \in offered'[channel'[i].of]
    <3>1. CASE i \in DOMAIN channel
      <4>1. channel'[i] = channel[i] /\ channel[i].of \in Call /\ channel[i].of # c
        BY <1>1, <1>3, <2>2, <2>6, <3>1, Sending DEF EventsTypeOK, Event, Queued
      <4> QED
        BY <1>2, <2>6, <3>1, <4>1 DEF CallInv, CallsAnswered, EventsTypeOK
    <3>2. CASE channel'[i] = e
      BY <1>1, <1>2, <1>3, <3>2 DEF EventsTypeOK
    <3> QED
      BY <1>1, <1>3, <2>6, <3>1, <3>2, Sending
  <2>7. ASSUME NEW d \in Call
        PROVE  /\ call'[d] = "waits" /\ worker' # "ended" => (Queued(d)' <=> taken'[d] = Nobody)
               /\ call'[d] # "waits" => ~Queued(d)' /\ taken'[d] = Nobody
    <3>1. CASE d = c
      BY <1>2, <1>3, <2>2, <2>3, <3>1 DEF EventsTypeOK
    <3>2. CASE d # c
      BY <1>2, <1>3, <2>4, <3>2 DEF CallInv, CallsAnswered, OnlyWaiting, EventsTypeOK
    <3> QED
      BY <3>1, <3>2
  <2>8. ScreenInv'
    BY <1>1, <1>2, <1>3, ScreenStays, KeptInChannel
  <2> QED
    BY <2>1, <2>5, <2>6, <2>7, <2>8 DEF CallInv, CallsAnswered, OnlyWaiting
<1>4. CASE call' = [call EXCEPT ![c] = "rejected"] /\ UNCHANGED channel
  <2>1. EventsTypeOK'
    BY <1>2, <1>4 DEF EventsTypeOK, windowVars, noticeVars
  <2>2. CallInv'
    BY <1>2, <1>4 DEF CallInv, CallsAnswered, QueuedOnce, OnlyWaiting, CallEvent, Queued, EventsTypeOK
  <2>3. ScreenInv'
    BY <1>2, <1>4, ScreenStays DEF InChannel
  <2> QED
    BY <2>1, <2>2, <2>3
<1> QED
  BY <1>3, <1>4 DEF PageCalls

LEMMA TakeCallKeeps == ASSUME EventsInv, TakeCall PROVE ApiInv'
<1> USE DEF EventsInv, ApiInv
<1>1. PICK c \in Call, w \in Window : Head(channel).of = c /\ Head(channel).to = w
  BY Taken DEF TakeCall, EventsTypeOK, Event
<1>2. PICK f \in Fn \cup {Nobody} : f = bound[w]
  BY DEF EventsTypeOK
<1>3. /\ channel # <<>> /\ channel' = Tail(channel) /\ worker # "ended"
      /\ 1 \in DOMAIN channel /\ channel[1].kind = "call" /\ channel[1].of = c
      /\ taken' = [taken EXCEPT ![c] = f] /\ offered' = [offered EXCEPT ![c] = {}]
      /\ call' = IF f = Nobody THEN [call EXCEPT ![c] = "rejected"] ELSE call
      /\ UNCHANGED <<worker, bound, shows, making, windowVars, noticeVars, missed>>
  BY <1>1, <1>2, Taken DEF TakeCall, Free, EventsTypeOK
<1>4. EventsTypeOK'
  <2>1. channel' \in Seq(Event) /\ Len(channel') <= Capacity
    BY <1>3, EventsAssumption, Taken DEF EventsTypeOK
  <2>2. call' \in [Call -> {"none", "waits", "resolved", "rejected"}]
    BY <1>3 DEF EventsTypeOK
  <2>3. taken' \in [Call -> Fn \cup {Nobody}] /\ offered' \in [Call -> SUBSET (Fn \cup {Nobody})]
    BY <1>3 DEF EventsTypeOK
  <2> QED
    BY <1>3, <2>1, <2>2, <2>3 DEF EventsTypeOK, windowVars, noticeVars
<1>5. Queued(c) /\ call[c] = "waits" /\ taken[c] = Nobody
  BY <1>3 DEF CallInv, CallsAnswered, Queued
<1>6. ~Queued(c)'
  BY <1>3, Taken DEF Queued, CallInv, QueuedOnce, CallEvent, EventsTypeOK
<1>7. ASSUME NEW d \in Call, d # c PROVE Queued(d)' <=> Queued(d)
  <2>1. ASSUME NEW i \in DOMAIN channel, channel[i].kind = "call", channel[i].of = d
        PROVE  Queued(d)'
    <3>1. i # 1
      BY <1>3, <1>7, <2>1
    <3>2. i - 1 \in DOMAIN channel' /\ channel'[i - 1] = channel[i]
      BY <1>3, <3>1, Taken DEF EventsTypeOK
    <3> QED
      BY <2>1, <3>2 DEF Queued
  <2>2. ASSUME NEW i \in DOMAIN channel', channel'[i].kind = "call", channel'[i].of = d
        PROVE  Queued(d)
    BY <1>3, <2>2, Taken DEF EventsTypeOK, Queued
  <2> QED
    BY <2>1, <2>2 DEF Queued
<1>8. QueuedOnce'
  BY <1>3, Taken DEF QueuedOnce, CallEvent, CallInv, EventsTypeOK
<1>9. ASSUME NEW i \in DOMAIN channel', channel'[i].kind = "call"
      PROVE  bound'[channel'[i].to] \in offered'[channel'[i].of]
  <2>1. channel'[i] = channel[i + 1] /\ i + 1 \in DOMAIN channel
    BY <1>3, Taken DEF EventsTypeOK
  <2>2. channel'[i].of \in Call /\ channel'[i].of # c
    BY <1>4, <1>6, <1>9 DEF Queued, EventsTypeOK, Event
  <2> QED
    BY <1>3, <1>9, <2>1, <2>2 DEF CallInv, CallsAnswered, EventsTypeOK
<1>10. ASSUME NEW d \in Call
       PROVE  /\ call'[d] = "waits" /\ worker' # "ended" => (Queued(d)' <=> taken'[d] = Nobody)
              /\ call'[d] # "waits" => ~Queued(d)' /\ taken'[d] = Nobody
  <2>1. CASE d = c
    BY <1>2, <1>3, <1>5, <1>6, <2>1 DEF EventsTypeOK
  <2>2. CASE d # c
    BY <1>3, <1>7, <2>2 DEF CallInv, CallsAnswered, OnlyWaiting, EventsTypeOK
  <2> QED
    BY <2>1, <2>2
<1>11. ScreenInv'
  <2>1. \A n \in Notice : [kind |-> "closed", of |-> n] # Head(channel)
    BY <1>3, Taken DEF EventsTypeOK
  <2> QED
    BY <1>3, <2>1, LeftInChannel, ScreenStays
<1> QED
  BY <1>4, <1>8, <1>9, <1>10, <1>11 DEF CallInv, CallsAnswered, OnlyWaiting

LEMMA ReturnsKeeps == ASSUME EventsInv, NEW c \in Call, Returns(c) PROVE ApiInv'
<1> USE DEF EventsInv, ApiInv, Returns
<1>1. EventsTypeOK'
  BY DEF EventsTypeOK, windowVars, noticeVars
<1>2. CallInv'
  BY DEF CallInv, CallsAnswered, QueuedOnce, OnlyWaiting, CallEvent, Queued, EventsTypeOK, Event, Free
<1>3. ScreenInv'
  BY ScreenStays DEF InChannel
<1> QED
  BY <1>1, <1>2, <1>3

LEMMA InputKeeps == ASSUME EventsInv, Input \/ NotificationError PROVE ApiInv'
<1> USE DEF EventsInv, ApiInv
<1>1. Other \in Event /\ Other.kind # "call"
  BY DEF Other, Event
<1>2. /\ Sends(Other)
      /\ UNCHANGED <<worker, callVars, shows, making, windowVars, noticeVars, missed>>
  BY DEF Input, NotificationError
<1>3. EventsTypeOK'
  BY <1>1, <1>2, Sending DEF EventsTypeOK, callVars, windowVars, noticeVars
<1> QED
  BY <1>1, <1>2, <1>3, OtherSent, KeptInChannel, ScreenStays

LEMMA TakeOtherKeeps == ASSUME EventsInv, TakeOther PROVE ApiInv'
<1> USE DEF EventsInv, ApiInv
<1>1. EventsTypeOK'
  BY EventsAssumption, Taken DEF TakeOther, EventsTypeOK, callVars, windowVars, noticeVars
<1>2. CallInv'
  BY OtherTaken DEF TakeOther
<1>3. ScreenInv'
  <2>1. \A n \in Notice : [kind |-> "closed", of |-> n] # Head(channel)
    BY DEF TakeOther
  <2> QED
    BY <2>1, LeftInChannel, ScreenStays DEF TakeOther
<1> QED
  BY <1>1, <1>2, <1>3

LEMMA WorkerGoneKeeps == ASSUME EventsInv, WorkerGone PROVE ApiInv'
<1> USE DEF EventsInv, ApiInv
<1>1. EventsTypeOK'
  BY EventsAssumption DEF WorkerGone, EventsTypeOK, callVars, windowVars, noticeVars
<1>2. CallInv'
  BY DEF WorkerGone, CallInv, CallsAnswered, QueuedOnce, OnlyWaiting, CallEvent, Queued, callVars
<1>3. ScreenInv'
  BY ScreenStays DEF WorkerGone
<1> QED
  BY <1>1, <1>2, <1>3

(* ---- windows and notifications ------------------------------------------- *)

(* Calls do not depend on what is on the screen. *)
LEMMA CallsStay ==
  ASSUME CallInv, UNCHANGED <<worker, channel, callVars>>
  PROVE  CallInv'
BY DEF CallInv, CallsAnswered, QueuedOnce, OnlyWaiting, CallEvent, Queued, callVars

LEMMA CreatesKeeps ==
  ASSUME EventsInv, NEW x \in Window \cup Notice, Creates(x),
         UNCHANGED <<worker, channel, callVars, openWindows, closedWindows, devtools,
                     noticeVars, missed>>,
         \/ tools' = tools
         \/ /\ x \in Window /\ tools' = tools \cup {x}
            /\ devtools = Nobody \/ devtools \in closedWindows
  PROVE  ApiInv'
<1> USE EventsAssumption DEF EventsInv, ApiInv, Creates, Half
<1>1. EventsTypeOK'
  BY DEF EventsTypeOK, callVars, noticeVars
<1>2. CallInv'
  BY CallsStay
<1> USE DEF EventsTypeOK, ScreenInv, Free, Making, noticeVars
<1>3. WindowsTracked'
  <2>1. \A w \in Window :
          /\ shows'[w] = "shown" /\ ~Making(w)' => w \in openWindows
          /\ shows'[w] = "closed" /\ w \in openWindows => w \in missed
    BY DEF WindowsTracked
  <2>2. \A v, w \in tools' : shows'[v] = "shown" /\ shows'[w] = "shown" => v = w
    BY DEF WindowsTracked, Unknown, ClosedIsClosed, OneHeir
  <2>3. devtools # Nobody /\ shows'[devtools] = "closed" => devtools \in closedWindows \cup missed
    BY DEF WindowsTracked, Unknown, OneHeir
  <2>4. ASSUME NEW n \in Notice
        PROVE  /\ shows'[n] = "shown" /\ ~Making(n)' => n \in handles \cap tracked
               /\ shows'[n] = "closed" /\ n \in handles => n \in missed
               /\ shows'[n] = "closed" /\ n \in tracked =>
                    worker = "ended" \/ n \in missed \/ InChannel([kind |-> "closed", of |-> n])'
    BY DEF WindowsTracked, InChannel
  <2> QED
    BY <2>1, <2>2, <2>3, <2>4 DEF WindowsTracked
<1>4. Unknown'
  BY DEF Unknown
<1>5. ClosedIsClosed' /\ MadeMissed'
  BY DEF ClosedIsClosed, MadeMissed, Unknown
<1>6. OneHeir'
  BY DEF OneHeir, Unknown, ClosedIsClosed
<1> QED
  BY <1>1, <1>2, <1>3, <1>4, <1>5, <1>6

LEMMA WireKeeps == ASSUME EventsInv, Wire PROVE ApiInv'
<1> USE EventsAssumption DEF EventsInv, ApiInv, Wire, Half
<1>1. EventsTypeOK'
  BY DEF EventsTypeOK, callVars, windowVars, noticeVars
<1>2. CallInv'
  BY CallsStay
<1> USE DEF EventsTypeOK, ScreenInv, Making, windowVars, noticeVars
<1>3. WindowsTracked'
  BY DEF WindowsTracked, InChannel
<1>4. Unknown' /\ ClosedIsClosed' /\ MadeMissed' /\ OneHeir'
  BY DEF Unknown, ClosedIsClosed, MadeMissed, OneHeir
<1> QED
  BY <1>1, <1>2, <1>3, <1>4

LEMMA KeepWindowKeeps == ASSUME EventsInv, KeepWindow PROVE ApiInv'
<1> USE EventsAssumption DEF EventsInv, ApiInv, KeepWindow, Half
<1>1. EventsTypeOK'
  BY DEF EventsTypeOK, callVars, noticeVars
<1>2. CallInv'
  BY CallsStay
<1> USE DEF EventsTypeOK, ScreenInv, Making, noticeVars
<1>3. WindowsTracked'
  BY DEF WindowsTracked, MadeMissed, InChannel
<1>4. Unknown' /\ ClosedIsClosed' /\ MadeMissed'
  BY DEF Unknown, ClosedIsClosed, MadeMissed
<1>5. OneHeir'
  BY DEF OneHeir
<1> QED
  BY <1>1, <1>2, <1>3, <1>4, <1>5

LEMMA KeepNotificationKeeps == ASSUME EventsInv, KeepNotification PROVE ApiInv'
<1> USE EventsAssumption DEF EventsInv, ApiInv, KeepNotification, Half
<1>1. EventsTypeOK'
  BY DEF EventsTypeOK, callVars, windowVars
<1>2. CallInv'
  BY CallsStay
<1> USE DEF EventsTypeOK, ScreenInv, Making, windowVars
<1>3. WindowsTracked'
  BY DEF WindowsTracked, MadeMissed, InChannel
<1>4. Unknown' /\ ClosedIsClosed' /\ MadeMissed'
  BY DEF Unknown, ClosedIsClosed, MadeMissed
<1>5. OneHeir'
  BY DEF OneHeir, Unknown
<1> QED
  BY <1>1, <1>2, <1>3, <1>4, <1>5

LEMMA ClosesBareKeeps == ASSUME EventsInv, ClosesBare PROVE ApiInv'
<1> USE EventsAssumption DEF EventsInv, ApiInv, ClosesBare, Half
<1>1. EventsTypeOK'
  BY DEF EventsTypeOK, callVars, windowVars, noticeVars
<1>2. CallInv'
  BY CallsStay
<1> USE DEF EventsTypeOK, ScreenInv, Making, windowVars, noticeVars
<1>3. WindowsTracked'
  BY DEF WindowsTracked, InChannel
<1>4. Unknown' /\ ClosedIsClosed' /\ MadeMissed' /\ OneHeir'
  BY DEF Unknown, ClosedIsClosed, MadeMissed, OneHeir
<1> QED
  BY <1>1, <1>2, <1>3, <1>4

LEMMA CloseWindowKeeps == ASSUME EventsInv, NEW w \in Window, CloseWindow(w) PROVE ApiInv'
<1> USE EventsAssumption DEF EventsInv, ApiInv, CloseWindow, Half
<1>1. EventsTypeOK'
  BY DEF EventsTypeOK, callVars, noticeVars
<1>2. CallInv'
  BY CallsStay
<1> USE DEF EventsTypeOK, ScreenInv, Making, Free, noticeVars
<1>3. WindowsTracked'
  BY DEF WindowsTracked, InChannel, OneHeir
<1>4. Unknown' /\ ClosedIsClosed' /\ MadeMissed' /\ OneHeir'
  BY DEF Unknown, ClosedIsClosed, MadeMissed, OneHeir
<1> QED
  BY <1>1, <1>2, <1>3, <1>4

LEMMA CloseRequestedKeeps == ASSUME EventsInv, NEW w \in Window, CloseRequested(w) PROVE ApiInv'
<1> USE EventsAssumption DEF EventsInv, ApiInv, Half
<1>1. Other \in Event /\ Other.kind # "call" /\ Sends(Other)
  BY DEF Other, Event, CloseRequested
<1>2. EventsTypeOK'
  BY <1>1, Sending DEF CloseRequested, EventsTypeOK, callVars, noticeVars
<1>3. CallInv'
  BY <1>1, OtherSent DEF CloseRequested
<1> USE DEF EventsTypeOK, ScreenInv, Making, noticeVars, CloseRequested
<1>4. WindowsTracked'
  BY <1>1, KeptInChannel DEF WindowsTracked, OneHeir
<1>5. Unknown' /\ ClosedIsClosed' /\ MadeMissed' /\ OneHeir'
  BY DEF Unknown, ClosedIsClosed, MadeMissed, OneHeir
<1> QED
  BY <1>2, <1>3, <1>4, <1>5

LEMMA NotificationClosesKeeps ==
  ASSUME EventsInv, NEW n \in Notice, NotificationCloses(n)
  PROVE  ApiInv'
<1> USE EventsAssumption DEF EventsInv, ApiInv, Half
<1> DEFINE e == [kind |-> "closed", of |-> n]
<1>1. e \in Event /\ e.kind # "call" /\ Sends(e)
  BY DEF Event, NotificationCloses
<1>2. EventsTypeOK'
  BY <1>1, Sending DEF NotificationCloses, EventsTypeOK, callVars, windowVars
<1>3. CallInv'
  BY <1>1, OtherSent DEF NotificationCloses
<1> USE DEF EventsTypeOK, ScreenInv, Making, windowVars, NotificationCloses
<1>4. WindowsTracked'
  BY <1>1, KeptInChannel DEF WindowsTracked, OneHeir
<1>5. Unknown' /\ ClosedIsClosed' /\ MadeMissed' /\ OneHeir'
  BY DEF Unknown, ClosedIsClosed, MadeMissed, OneHeir
<1> QED
  BY <1>2, <1>3, <1>4, <1>5

LEMMA TakeClosedKeeps == ASSUME EventsInv, TakeClosed PROVE ApiInv'
<1> USE EventsAssumption DEF EventsInv, ApiInv, TakeClosed
<1>1. PICK n \in Notice : Head(channel) = [kind |-> "closed", of |-> n]
  BY Taken DEF EventsTypeOK, Event
<1>2. EventsTypeOK'
  BY Taken DEF EventsTypeOK, callVars, windowVars
<1>3. CallInv'
  BY OtherTaken
<1> USE DEF EventsTypeOK, ScreenInv, Making, windowVars, Free
<1>4. shows[n] = "closed" /\ tracked' = tracked \ {n}
  <2>1. channel[1] = [kind |-> "closed", of |-> n] /\ 1 \in DOMAIN channel
    BY <1>1, Taken
  <2>2. InChannel([kind |-> "closed", of |-> n])
    BY <2>1 DEF InChannel
  <2> QED
    BY <1>1, <2>2 DEF ClosedReported
<1>5. \A m \in Notice \ {n} : InChannel([kind |-> "closed", of |-> m])
                              => InChannel([kind |-> "closed", of |-> m])'
  BY <1>1, LeftInChannel
<1>6. WindowsTracked'
  BY <1>4, <1>5 DEF WindowsTracked
<1>7. Unknown' /\ ClosedIsClosed' /\ MadeMissed' /\ OneHeir'
  BY DEF Unknown, ClosedIsClosed, MadeMissed, OneHeir
<1> QED
  BY <1>2, <1>3, <1>6, <1>7

LEMMA NextApi == ASSUME EventsInv, [EventsNext]_eventVars PROVE ApiInv'
<1>1. ASSUME NEW w \in Window, NEW f \in Fn, Bind(w, f) PROVE ApiInv'
  BY <1>1, BindsKeeps DEF Bind
<1>2. ASSUME NEW w \in Window, Unbind(w) PROVE ApiInv'
  BY <1>2, BindsKeeps DEF Unbind
<1>3. ASSUME NEW w \in Window, NewWindow(w) \/ OpenDevTools(w) PROVE ApiInv'
  BY <1>3, CreatesKeeps DEF NewWindow, OpenDevTools, windowVars
<1>4. ASSUME NEW n \in Notice, ShowNotification(n) PROVE ApiInv'
  BY <1>4, CreatesKeeps DEF ShowNotification, windowVars
<1>5. CASE UNCHANGED eventVars
  <2>1. EventsTypeOK'
    BY <1>5 DEF eventVars, callVars, windowVars, noticeVars, EventsTypeOK, EventsInv, ApiInv
  <2>2. CallInv' /\ ScreenInv'
    BY <1>5, CallsStay, ScreenStays
       DEF eventVars, callVars, windowVars, noticeVars, EventsInv, ApiInv, InChannel
  <2> QED
    BY <2>1, <2>2 DEF ApiInv
<1> QED
  BY <1>1, <1>2, <1>3, <1>4, <1>5, PageCallsKeeps, TakeCallKeeps, ReturnsKeeps, InputKeeps,
     TakeOtherKeeps, WireKeeps, KeepWindowKeeps, ClosesBareKeeps, CloseRequestedKeeps,
     CloseWindowKeeps, NotificationClosesKeeps, KeepNotificationKeeps, TakeClosedKeeps,
     WorkerGoneKeeps DEF EventsNext

(* ---- close events --------------------------------------------------------- *)

(* A notification that is closed is never shown again. *)
LEMMA StaysClosed ==
  ASSUME EventsInv, [EventsNext]_eventVars, NEW n \in Notice, shows[n] = "closed"
  PROVE  shows'[n] = "closed"
BY DEF EventsInv, ApiInv, EventsTypeOK, EventsNext, eventVars, Bind, Unbind, Binds, PageCalls,
       TakeCall, Returns, Input, TakeOther, NewWindow, OpenDevTools, Creates, Wire, KeepWindow,
       CloseRequested, CloseWindow, ClosesBare, ShowNotification, NotificationError,
       KeepNotification, NotificationCloses, TakeClosed, WorkerGone

LEMMA NextReports == ASSUME EventsInv, [EventsNext]_eventVars PROVE ClosedReported'
<1> SUFFICES ASSUME NEW n \in Notice, InChannel([kind |-> "closed", of |-> n])'
             PROVE  shows'[n] = "closed"
  BY DEF ClosedReported
<1>1. CASE InChannel([kind |-> "closed", of |-> n])
  BY <1>1, StaysClosed DEF EventsInv, ClosedReported
<1>2. CASE ~InChannel([kind |-> "closed", of |-> n])
  <2>1. PICK i \in DOMAIN channel' : channel'[i] = [kind |-> "closed", of |-> n]
    BY DEF InChannel
  <2>2. ASSUME NEW e \in Event, Sends(e) PROVE e = [kind |-> "closed", of |-> n]
    BY <1>2, <2>1, <2>2, Sending DEF EventsInv, ApiInv, InChannel
  <2>3. channel' # channel /\ channel' # <<>>
    BY <1>2, <2>1 DEF InChannel
  <2>4. ~(channel # <<>> /\ channel' = Tail(channel))
    BY <1>2, <2>1, Taken DEF InChannel, EventsInv, ApiInv, EventsTypeOK
  <2>5. ~Sends(Other)
    BY <2>2 DEF Other, Event
  <2>6. \A c \in Call, w \in Window : ~Sends([kind |-> "call", of |-> c, to |-> w])
    BY <2>2 DEF Event
  <2>7. PICK m \in Notice : NotificationCloses(m)
    BY <2>3, <2>4, <2>5, <2>6
       DEF EventsNext, eventVars, Bind, Unbind, Binds, PageCalls, TakeCall, Returns, Input,
           TakeOther, NewWindow, OpenDevTools, Wire, KeepWindow, CloseRequested, CloseWindow,
           ClosesBare, ShowNotification, NotificationError, KeepNotification, TakeClosed,
           WorkerGone
  <2>8. m = n
    BY <2>2, <2>7 DEF NotificationCloses, Event
  <2> QED
    BY <2>7, <2>8 DEF NotificationCloses, EventsInv, ApiInv, EventsTypeOK
<1> QED
  BY <1>1, <1>2

(* The invariant holds of every reachable state (desktop_api.rs:37-751,     *)
(* desktop_js.rs:766-993).                                                  *)
THEOREM EventsInvariance == EventsSpec => []EventsInv
<1>1. EventsInv /\ [EventsNext]_eventVars => EventsInv'
  BY NextApi, NextReports DEF EventsInv
<1> QED
  BY <1>1, EventsStarts, PTL DEF EventsSpec

(* The types of the channel and of the sets that both threads share         *)
(* (desktop_api.rs:22-47); the channel never holds more than its capacity.  *)
THEOREM EventsTypeCorrect == EventsSpec => []EventsTypeOK
BY EventsInvariance, PTL DEF EventsInv, ApiInv

(* Every call of a page is answered, queued or with one function of the     *)
(* app, for any number of pages, calls and functions and every capacity of  *)
(* the channel (desktop_api.rs:375-444, desktop_js.rs:800-827).             *)
THEOREM Answered == EventsSpec => []CallsAnswered
BY EventsInvariance, PTL DEF EventsInv, ApiInv, CallInv

(* Both threads agree on what is on the screen but for the closes that are  *)
(* missed, for any number of windows and notifications                      *)
(* (desktop_api.rs:26-33, 180-191, 322-352, 693-751).                       *)
THEOREM WindowsFollowed == EventsSpec => []WindowsTracked
BY EventsInvariance, PTL DEF EventsInv, ApiInv, ScreenInv

-----------------------------------------------------------------------------
(***************************************************************************)
(* One file of a release, for any number of builds published meanwhile.     *)
(***************************************************************************)

(* What has come of a fetch at every step: no temporary file and no checksum *)
(* while the checksum is asked for, a whole build from the download on, and  *)
(* from the verification on one that meets the checksum, or the answer that  *)
(* there is none together with the order to go on without                    *)
(* (main.rs:207-258, 314-347, update.rs:696-749).                            *)
FetchTypes ==
  /\ order \in Order /\ released \in Build
  /\ expected \in {NoSum} \cup Build
  /\ file \in {None, Part} \cup Build
  /\ installed \in {None} \cup Build
  /\ fetchAt \in {"sidecar", "wget sidecar", "download", "wget", "verify", "install", "done", "failed"}

Asking == {"sidecar", "wget sidecar"}
Cleared == IF expected = NoSum THEN order.insecure /\ answered ELSE file = expected
FetchInv ==
  /\ FetchTypes
  /\ fetchAt \in Asking => expected = NoSum /\ file = None
  /\ fetchAt \in {"download", "wget", "verify"} => expected # NoSum \/ answered
  /\ fetchAt \in {"verify", "install"} => file \in Build
  /\ fetchAt = "install" => Cleared
  /\ fetchAt # "done" => installed = None
  /\ fetchAt = "done" => InstalledVerified /\ installed # None

(* A fetch begins with the question for the checksum (main.rs:207-230).     *)
LEMMA FetchStarts == FetchInit => FetchInv
<1> SUFFICES ASSUME FetchInit PROVE FetchInv
    OBVIOUS
<1>1. /\ fetchAt = "sidecar" /\ order \in Order /\ released = 1
      /\ expected = NoSum /\ file = None /\ installed = None
      BY DEF FetchInit
<1>2. 1 \in Build
      BY FetchAssumption DEF Build
<1>3. FetchTypes
      BY <1>1, <1>2 DEF FetchTypes
<1> QED
      BY <1>1, <1>3 DEF FetchInv, Asking

(* Every answer of curl and wget, every publication meanwhile keep it       *)
(* (main.rs:207-258, 314-347, update.rs:696-749).                           *)
LEMMA FetchStep == FetchInv /\ [FetchNext]_fetchVars => FetchInv'
<1> SUFFICES ASSUME FetchInv, [FetchNext]_fetchVars PROVE FetchInv'
    OBVIOUS
<1> USE DEF FetchInv, FetchTypes, Asking, Cleared, FetchGoto
<1>0. /\ Build \subseteq Nat \ {0} /\ NoSum = 0 /\ None = 0 /\ Part = -1
      /\ order.pinned \in {NoSum, 1} /\ 1 \in Build
  <2>1. order \in Order
        OBVIOUS
  <2>2. order.pinned \in {NoSum, 1}
        BY ONLY <2>1 DEF Order
  <2>3. Build \subseteq Nat \ {0} /\ 1 \in Build
        BY ONLY FetchAssumption DEF Build
  <2> QED
        BY <2>2, <2>3 DEF NoSum, None, Part
<1>1. CASE UNCHANGED fetchVars
      BY <1>1 DEF fetchVars, InstalledVerified
<1>2. CASE Pinned
      BY <1>0, <1>2 DEF Pinned
<1>a. ASSUME NEW at \in Asking, Absent(at) PROVE FetchInv'
      BY <1>0, <1>a DEF Absent
<1>p. ASSUME NEW at \in Asking, Present(at) PROVE FetchInv'
      BY <1>0, <1>p DEF Present
<1>l. ASSUME NEW at \in Asking, NEW to \in {"wget sidecar", "failed"}, Lost(at, to) PROVE FetchInv'
      BY <1>0, <1>l DEF Lost
<1>3. CASE ReadSidecar
      BY <1>3, <1>a, <1>p, <1>l DEF ReadSidecar
<1>4. CASE CurlSidecar
      BY <1>4, <1>a, <1>p, <1>l DEF CurlSidecar
<1>5. CASE WgetSidecar
      BY <1>5, <1>a, <1>p, <1>l DEF WgetSidecar
<1>g. ASSUME NEW at \in {"download", "wget"},
             \/ Gets(at, released, "verify")
             \/ \E w \in {None, Part}, to \in {"wget", "failed"} : Gets(at, w, to)
      PROVE  FetchInv'
  <2>1. CASE Gets(at, released, "verify")
        BY <1>0, <2>1 DEF Gets
  <2>2. ASSUME NEW w \in {None, Part}, NEW to \in {"wget", "failed"}, Gets(at, w, to) PROVE FetchInv'
        BY <1>0, <2>2 DEF Gets
  <2> QED
        BY <1>g, <2>1, <2>2
<1>6. CASE Copy
      BY <1>6, <1>g DEF Copy
<1>7. CASE CurlDownload
      BY <1>7, <1>g DEF CurlDownload
<1>8. CASE WgetDownload
      BY <1>8, <1>g DEF WgetDownload
<1>9. CASE VerifyFile
      BY <1>0, <1>9 DEF VerifyFile
<1>10. CASE InstallFile
      BY <1>0, <1>10 DEF InstallFile, InstalledVerified
<1>11. CASE Republish
  <2>1. released' \in Build
    <3>1. released \in Build /\ released < MaxReleased /\ released' = released + 1
          BY <1>11 DEF Republish
    <3> QED
          BY ONLY <3>1, FetchAssumption DEF Build
  <2> QED
        BY <1>0, <1>11, <2>1 DEF Republish, InstalledVerified
<1> QED
      BY <1>1, <1>2, <1>3, <1>4, <1>5, <1>6, <1>7, <1>8, <1>9, <1>10, <1>11 DEF FetchNext

(* InstalledVerified: what is installed is a whole build that meets the     *)
(* checksum, unless there is none and the order says to go on               *)
(* (main.rs:207-258, update.rs:696-749), for any number of builds published *)
(* meanwhile.                                                               *)
THEOREM FetchVerifies == FetchInit /\ [][FetchNext]_fetchVars => []InstalledVerified
<1>1. FetchInv => InstalledVerified
      BY DEF FetchInv, InstalledVerified
<1> QED
      BY FetchStarts, FetchStep, <1>1, PTL

-----------------------------------------------------------------------------
(***************************************************************************)
(* An import in `inka run` and in `inka build`, for every set of imports,   *)
(* import maps and files, and any number of times the modules are published. *)
(***************************************************************************)

(* What FirstOf returns: the first of the names that is present.             *)
First(names, n, present, f) ==
  \/ f = "none" /\ \A i \in 1..n : names[i] \notin present
  \/ \E i \in 1..n : /\ f = names[i] /\ f \in present
                     /\ \A j \in 1..n : j < i => names[j] \notin present

(* FirstOf returns the first name that is present, the way the candidates   *)
(* are tried in order (lib.rs:200-240).                                     *)
LEMMA FirstOfIsFirst ==
  ASSUME NEW names, NEW n \in Nat, DOMAIN names = 1..n, NEW present
  PROVE  First(names, n, present, FirstOf(names, present))
<1> DEFINE at == {i \in DOMAIN names : names[i] \in present}
           Earliest(i) == i \in at /\ \A j \in at : i <= j
<1>1. CASE at = {}
      BY <1>1 DEF FirstOf, First
<1>2. CASE at # {}
  <2>1. \E i \in at : \A j \in at : i <= j
    <3>1. at \subseteq Nat
          OBVIOUS
    <3> QED
          BY <1>2, <3>1, LeastNumber
  <2> DEFINE m == CHOOSE i \in at : \A j \in at : i <= j
  <2>2. m \in at /\ \A j \in at : m <= j
        BY <2>1
  <2>3. FirstOf(names, present) = names[m]
        BY <1>2 DEF FirstOf
  <2> HIDE DEF m
  <2>4. m \in 1..n /\ names[m] \in present /\ \A j \in 1..n : j < m => names[j] \notin present
        BY <2>2
  <2> QED
        BY <2>3, <2>4 DEF First
<1> QED
      BY <1>1, <1>2

(* Two files make a set of more than one.                                    *)
LEMMA TwoAreMore ==
  ASSUME NEW S, IsFiniteSet(S), NEW a \in S, NEW b \in S, a # b
  PROVE  Cardinality(S) > 1
<1>1. /\ IsFiniteSet({a}) /\ Cardinality({a}) = 1 /\ b \notin {a}
      BY FS_Singleton
<1>2. IsFiniteSet({a} \cup {b}) /\ Cardinality({a} \cup {b}) = 2
      BY <1>1, FS_AddElement
<1>3. {a} \cup {b} \subseteq S /\ Cardinality(S) \in Nat
      BY FS_CardinalityType
<1> QED
      BY <1>2, <1>3, FS_Subset

(* The files an import may mean are finitely many.                          *)
LEMMA FilesAreFew == ASSUME NEW S, S \subseteq Extension PROVE IsFiniteSet(S)
<1>1. IsFiniteSet(Extension)
  <2>1. \A T, x, y, z : IsFiniteSet(T) => IsFiniteSet(T \cup {x, y, z})
    <3>1. ASSUME NEW T, NEW x, NEW y, NEW z, IsFiniteSet(T) PROVE IsFiniteSet(T \cup {x, y, z})
      <4>1. IsFiniteSet((((T \cup {x}) \cup {y})) \cup {z})
            BY <3>1, FS_AddElement
      <4>2. ((T \cup {x}) \cup {y}) \cup {z} = T \cup {x, y, z}
            OBVIOUS
      <4> QED
            BY <4>1, <4>2
    <3> QED
          BY <3>1
  <2>2. IsFiniteSet(({} \cup {"none", "ts", "tsx"}) \cup {"mts", "cts", "js"})
        BY <2>1, FS_EmptySet
  <2>3. IsFiniteSet((({} \cup {"none", "ts", "tsx"}) \cup {"mts", "cts", "js"}) \cup {"jsx", "mjs", "json"})
        BY <2>1, <2>2
  <2>4. Extension = (({} \cup {"none", "ts", "tsx"}) \cup {"mts", "cts", "js"}) \cup {"jsx", "mjs", "json"}
        BY DEF Extension
  <2> QED
        BY <2>3, <2>4
<1> QED
      BY <1>1, FS_Subset

(* The state of a project and what an import in it is aimed at               *)
(* (resolve.rs:322-330, lib.rs:110-190): the cache holds what was published, *)
(* and after a fetch of which no request failed it has the module.           *)
LeadsTo(u) == IF u = "moved" THEN "plain" ELSE u
ResolutionInv ==
  /\ Target = Bare \/ Aimed(Target)
  /\ aliased \in BOOLEAN /\ hasMap \in BOOLEAN /\ granted \in BOOLEAN /\ linked \in BOOLEAN
  /\ files \subseteq Extension \ {"none"}
  /\ published \in Nat /\ cache \in [Url -> Nat] /\ \A u \in Url : cache[u] <= published
  /\ published # 0
  /\ fetched \in BOOLEAN
  /\ fetched => Target.kind = "remote" /\ cache[LeadsTo(Target.url)] # 0

(* What the kind of an import says of its other parts.                       *)
LEMMA Kinds ==
  ASSUME NEW i, i = Bare \/ Aimed(i)
  PROVE  /\ i.kind \in {"relative", "bare", "npm", "remote"}
         /\ i.kind = "relative" => i.ext \in Extension /\ i.url = "none"
         /\ i.kind = "bare" => i.pin = 0 /\ i.url = "none"
         /\ i.kind = "remote" => i.url \in Url
<1> USE DEF Bare, Wanted
<1>1. CASE i = Bare
      BY <1>1
<1>2. ASSUME NEW e \in Extension, i = Relative(e) PROVE i.kind = "relative" /\ i.ext = e /\ i.url = "none"
      BY <1>2 DEF Relative
<1>3. CASE i = Npm(i.pin)
  <2>1. i = [kind |-> "npm", ext |-> "none", pin |-> i.pin, url |-> "none"]
        BY <1>3 DEF Npm
  <2> QED
        BY <2>1
<1>4. ASSUME NEW u \in Url, i = Remote(u) PROVE i.kind = "remote" /\ i.url = u
      BY <1>4 DEF Remote
<1> QED
      BY <1>1, <1>2, <1>3, <1>4 DEF Aimed

(* A project whose modules are published and not yet fetched (inka-bundler  *)
(* lib.rs:87-96).                                                          *)
LEMMA ResolutionStarts == ResolutionInit => ResolutionInv
<1> SUFFICES ASSUME ResolutionInit PROVE ResolutionInv
    OBVIOUS
<1>1. Target = Bare \/ Aimed(Target)
      BY ResolutionAssumption DEF ResolutionInit, Target
<1>2. cache = [u \in Url |-> 0] /\ files = {} /\ published = 1 /\ fetched = FALSE /\ linked = FALSE
      BY DEF ResolutionInit
<1>3. aliased \in BOOLEAN /\ hasMap \in BOOLEAN /\ granted \in BOOLEAN
      BY DEF ResolutionInit
<1>4. cache \in [Url -> Nat] /\ \A u \in Url : cache[u] <= published
  <2>1. cache \in [Url -> Nat] /\ \A u \in Url : cache[u] = 0
        BY <1>2
  <2> QED
        BY <1>2, <2>1
<1>5. published \in Nat /\ published # 0
      BY <1>2
<1>7. linked \in BOOLEAN
      BY <1>2
<1>6. files \subseteq Extension \ {"none"}
      BY <1>2
<1> QED
      BY <1>1, <1>2, <1>3, <1>4, <1>5, <1>6, <1>7 DEF ResolutionInv

(* A fetch, of which some requests may fail, a publication, an edit of the  *)
(* project and the install of a package keep it (resolve.rs:322-330).       *)
LEMMA ResolutionStep == ResolutionInv /\ [ResolutionNext]_resolutionVars => ResolutionInv'
<1> SUFFICES ASSUME ResolutionInv, [ResolutionNext]_resolutionVars PROVE ResolutionInv'
    OBVIOUS
<1>0. UNCHANGED configVars /\ Target' = Target
      BY DEF ResolutionNext, FetchModules, PublishModules, Edit, InstallPackage, resolutionVars,
             configVars, Target
<1>9. UNCHANGED <<aliased, hasMap, granted>>
      BY <1>0 DEF configVars
<1> USE DEF ResolutionInv
<1>1. CASE UNCHANGED resolutionVars
      BY <1>0, <1>9, <1>1 DEF resolutionVars, diskVars, remoteVars
<1>2. ASSUME NEW got \in SUBSET Missing, Target.kind = "remote",
             cache' = [u \in Url |-> IF u \in got THEN published ELSE cache[u]],
             fetched' = (fetched \/ got = Missing),
             UNCHANGED <<diskVars, published>>
      PROVE  ResolutionInv'
  <2>1. cache' \in [Url -> Nat] /\ \A u \in Url : cache'[u] <= published' /\ (cache[u] # 0 => cache'[u] # 0)
        BY <1>2
  <2>2. LeadsTo(Target.url) \in Url
        BY <1>2, Kinds DEF LeadsTo, Url
  <2>3. ASSUME got = Missing PROVE cache'[LeadsTo(Target.url)] # 0
    <3>1. cache[LeadsTo(Target.url)] = 0 => LeadsTo(Target.url) \in Missing
          BY <2>2 DEF Missing, LeadsTo
    <3> QED
          BY <1>2, <2>1, <2>2, <2>3, <3>1
  <2>4. fetched' \in BOOLEAN /\ (fetched' => fetched \/ got = Missing)
        BY <1>2
  <2>5. UNCHANGED <<files, linked, published>>
        BY <1>2 DEF diskVars
  <2> QED
        BY <1>0, <1>9, <1>2, <2>1, <2>2, <2>3, <2>4, <2>5
<1>3. CASE FetchModules
      BY <1>2, <1>3 DEF FetchModules
<1>4. CASE PublishModules
  <2>1. published' = published + 1 /\ UNCHANGED <<cache, fetched, files, linked>>
        BY <1>4 DEF PublishModules, diskVars
  <2> QED
        BY <1>0, <1>9, <2>1
<1>5. CASE Edit
  <2>1. files' \subseteq Extension \ {"none"} /\ linked' \in BOOLEAN /\ UNCHANGED <<published, cache, fetched>>
        BY <1>5, ResolutionAssumption DEF Edit, remoteVars
  <2> QED
        BY <1>0, <1>9, <2>1
<1>6. CASE InstallPackage
  <2>1. linked' \in BOOLEAN /\ UNCHANGED <<files, published, cache, fetched>>
        BY <1>6 DEF InstallPackage, remoteVars
  <2> QED
        BY <1>0, <1>9, <2>1
<1> QED
      BY <1>1, <1>3, <1>4, <1>5, <1>6 DEF ResolutionNext

(* After a fetch of which no request failed the application runs without a   *)
(* network on what was fetched, and with an import map builds on it          *)
(* (inka-bundler lib.rs:87-90, resolve.rs:322-330).                          *)
THEOREM FetchedRuns == ResolutionInit /\ [][ResolutionNext]_resolutionVars => []FetchedRunsOffline
<1>1. ASSUME ResolutionInv, fetched, Target.url # "moved"
      PROVE  /\ RunResult.from = "remote" /\ RunResult.version <= published
             /\ hasMap \/ Target.url = "plain" => BuildResult = RunResult
  <2> DEFINE u == Target.url
  <2>1. Target.kind = "remote" /\ u \in Url /\ cache[u] # 0 /\ cache[u] \in Nat /\ cache[u] <= published
    <3>1. Target.kind = "remote" /\ cache[LeadsTo(u)] # 0
          BY <1>1 DEF ResolutionInv
    <3>2. u \in Url
          BY <1>1, <3>1, Kinds DEF ResolutionInv
    <3> QED
          BY <1>1, <3>1, <3>2 DEF ResolutionInv, LeadsTo
  <2>2. CachedRemote(u) = Result("remote", u, cache[u])
        BY <2>1 DEF CachedRemote
  <2>3. RunResult = CachedRemote(u)
    <3>1. u = "jsr" => RunGraphKnows("jsr")
          BY <2>1 DEF RunGraphKnows
    <3> QED
          BY <2>1, <3>1 DEF RunResult
  <2>4. hasMap \/ u = "plain" => BuildResult = CachedRemote(u)
        BY <2>1 DEF BuildResult, BuildGraphKnows
  <2> QED
        BY <2>1, <2>2, <2>3, <2>4 DEF Result
<1>2. ResolutionInv => FetchedRunsOffline
      BY <1>1 DEF FetchedRunsOffline
<1> QED
      BY ResolutionStarts, ResolutionStep, <1>2, PTL

(* Names put before two others.                                             *)
LEMMA Joined ==
  ASSUME NEW a \in Extension, NEW b \in Extension, NEW c \in Extension
  PROVE  <<a>> \o <<b, c>> = <<a, b, c>>
<1>1. <<a>> \in Seq(Extension) /\ <<b, c>> \in Seq(Extension) /\ <<a, b, c>> \in Seq(Extension)
      OBVIOUS
<1> DEFINE s == <<a>> \o <<b, c>>
<1>2. s \in Seq(Extension) /\ Len(s) = 3
      BY <1>1
<1>3. s[1] = a /\ s[2] = b /\ s[3] = c
      BY <1>1
<1> HIDE DEF s
<1>4. s = <<s[1], s[2], s[3]>>
      BY <1>2
<1> QED
      BY <1>3, <1>4 DEF s

(* Where an import finds a file without being ambiguous, `inka run` and the  *)
(* bundler find the same: the orders differ for names without an extension   *)
(* and for .jsx only (lib.rs:200-240, inka-bundler lib.rs:260-349).          *)
LEMMA SameFile ==
  ASSUME NEW e \in Extension, files \subseteq Extension \ {"none"},
         e = "none" => ~(Cardinality(files) > 1),
         ~(e = "jsx" /\ "jsx" \notin files /\ {"ts", "tsx"} \subseteq files),
         RunFile(e) # "none", BuildFile(e) # Failed
  PROVE  BuildFile(e) = Result("file", RunFile(e), 0)
<1> DEFINE found == FirstOf(IF e = "none" THEN AliasExtensions ELSE <<e>> \o BuildRewrites(e), files)
<1>1. found # "none" /\ BuildFile(e) = Result("file", found, 0)
      BY DEF BuildFile
<1>2. found = RunFile(e)
  <2>1. CASE e = "none"
    <3>1. DOMAIN AliasExtensions = 1..5 /\ DOMAIN RunExtensions = 1..8
          BY DEF AliasExtensions, RunExtensions
    <3>2. First(AliasExtensions, 5, files, found)
      <4>1. found = FirstOf(AliasExtensions, files)
            BY <2>1
      <4> QED
            BY <3>1, <4>1, FirstOfIsFirst
    <3>3. First(RunExtensions, 8, files, RunFile(e))
      <4>1. RunFile(e) = FirstOf(RunExtensions, files)
            BY <2>1 DEF RunFile
      <4> QED
            BY <3>1, <4>1, FirstOfIsFirst
    <3>4. found \in files /\ RunFile(e) \in files
          BY <1>1, <3>2, <3>3 DEF First
    <3>5. IsFiniteSet(files)
          BY FilesAreFew
    <3> QED
          BY <2>1, <3>4, <3>5, TwoAreMore
  <2>2. CASE e = "jsx"
    <3>1. <<e>> \o BuildRewrites(e) = <<"jsx", "ts", "tsx">>
          BY <2>2, Joined DEF BuildRewrites, Extension
    <3>2. <<e>> \o RunRewrites(e) = <<"jsx", "tsx", "ts">>
          BY <2>2, Joined DEF RunRewrites, Extension
    <3>3. found = FirstOf(<<"jsx", "ts", "tsx">>, files)
          BY <2>2, <3>1
    <3>4. RunFile(e) = FirstOf(<<"jsx", "tsx", "ts">>, files)
          BY <2>2, <3>2 DEF RunFile
    <3>5. First(<<"jsx", "ts", "tsx">>, 3, files, found)
      <4>1. DOMAIN <<"jsx", "ts", "tsx">> = 1..3
            OBVIOUS
      <4> QED
            BY <3>3, <4>1, FirstOfIsFirst
    <3>6. First(<<"jsx", "tsx", "ts">>, 3, files, RunFile(e))
      <4>1. DOMAIN <<"jsx", "tsx", "ts">> = 1..3
            OBVIOUS
      <4> QED
            BY <3>4, <4>1, FirstOfIsFirst
    <3>7. /\ found \in {"jsx", "ts", "tsx"} \cap files
          /\ found # "jsx" => "jsx" \notin files
          BY <1>1, <3>5 DEF First
    <3>8. /\ RunFile(e) \in {"jsx", "ts", "tsx"} \cap files
          /\ RunFile(e) # "jsx" => "jsx" \notin files
          BY <3>6 DEF First
    <3> QED
          BY <2>2, <3>7, <3>8
  <2>3. CASE e \notin {"none", "jsx"}
    <3>1. RunRewrites(e) = BuildRewrites(e)
          BY <2>3 DEF RunRewrites, BuildRewrites, Extension
    <3> QED
          BY <2>3, <3>1 DEF RunFile
  <2> QED
        BY <2>1, <2>2, <2>3
<1> QED
      BY <1>1, <1>2

(* The nearest version decides in both; `inka run` knows one more place, the *)
(* registry's npm mirror, asked last (node_services.rs:298-363).             *)
LEMMA SamePlace ==
  /\ BuildBare # Failed =>
       /\ PlaceOf(PackageCandidates) \in Place
       /\ BuildBare = Result("package", PlaceOf(PackageCandidates), packages[PlaceOf(PackageCandidates)])
  /\ BuildBare = Failed /\ packages["mirror"] = 0 => PlaceOf(PackageCandidates) = "none"
<1> DEFINE P == {p \in Place : packages[p] # 0}
           near == PlaceOf(<<"nearest", "hoisted">>)
           far == PlaceOf(PackageCandidates)
<1>1. First(<<"nearest", "hoisted">>, 2, P, near)
  <2>1. DOMAIN <<"nearest", "hoisted">> = 1..2
        OBVIOUS
  <2> QED
        BY <2>1, FirstOfIsFirst DEF PlaceOf
<1>2. First(<<"nearest", "hoisted", "mirror">>, 3, P, far)
  <2>1. DOMAIN <<"nearest", "hoisted", "mirror">> = 1..3
        OBVIOUS
  <2> QED
        BY <2>1, FirstOfIsFirst DEF PlaceOf, PackageCandidates
<1>3. /\ near \in {"none", "nearest", "hoisted"}
      /\ near # "none" => near \in P
      /\ near \in {"none", "hoisted"} => "nearest" \notin P
      /\ near = "none" => "hoisted" \notin P
      BY <1>1 DEF First
<1>4. /\ far \in {"none", "nearest", "hoisted", "mirror"}
      /\ far # "none" => far \in P
      /\ far \in {"none", "hoisted", "mirror"} => "nearest" \notin P
      /\ far \in {"none", "mirror"} => "hoisted" \notin P
      BY <1>2 DEF First
<1>9. near # "none" => near \in Place
      BY <1>3
<1>10. "mirror" \in P <=> packages["mirror"] # 0
      BY DEF Place
<1>7. BuildBare = IF near = "none" THEN Failed ELSE Result("package", near, packages[near])
      BY DEF BuildBare
<1> HIDE DEF P, near, far
<1>5. near # "none" => far = near
      BY <1>3, <1>4
<1>6. near = "none" /\ packages["mirror"] = 0 => far = "none"
      BY <1>3, <1>4, <1>10
<1>8. near # "none" => BuildBare # Failed
      BY <1>7 DEF Failed, Result
<1> QED
      BY <1>5, <1>6, <1>7, <1>8, <1>9 DEF far

(* A failure is not a file, a package or a module.                          *)
LEMMA ResultsDiffer ==
  /\ \A f, w, v : Result(f, w, v).from = f /\ Result(f, w, v).what = w /\ Result(f, w, v).version = v
  /\ Failed.from = "nothing"
BY DEF Result, Failed

(* A package of the run: the version at the place, if the pin allows it.     *)
LEMMA RunPackageIs ==
  ASSUME NEW pin, RunPackage(pin) # Failed
  PROVE  LET at == PlaceOf(PackageCandidates)
         IN RunPackage(pin) = Result("package", at, packages[at]) /\ Satisfies(packages[at], pin)
BY DEF RunPackage

(* A file next to the module (lib.rs:200-240, inka-bundler lib.rs:260-349). *)
LEMMA RelativeAgrees ==
  ASSUME ResolutionInv, Target.kind = "relative"
  PROVE  BuildRunAgree
<1>1. Target.ext \in Extension
      BY Kinds DEF ResolutionInv
<1>2. RunResult = LoadFile(RunFile(Target.ext)) /\ BuildResult = BuildFile(Target.ext)
      BY DEF RunResult, BuildResult
<1>3. RunResult # Failed =>
        RunFile(Target.ext) # "none" /\ RunResult = Result("file", RunFile(Target.ext), 0)
      BY <1>2 DEF LoadFile
<1>4. RunResult # Failed /\ BuildResult # Failed /\ ~Ambiguous => RunResult = BuildResult
      BY <1>1, <1>2, <1>3, SameFile DEF ResolutionInv, Ambiguous
<1>5. RunResult.from # "package" /\ BuildResult.from # "package"
  <2>1. BuildResult = Failed \/ \E f : BuildResult = Result("file", f, 0)
        BY <1>2 DEF BuildFile
  <2> QED
        BY <1>3, <2>1, ResultsDiffer
<1> QED
      BY <1>4, <1>5 DEF BuildRunAgree

(* A name that tsconfig.json may map and a package may have                 *)
(* (tsconfig.rs:3-5, resolve.rs:333-335).                                   *)
LEMMA BareAgrees ==
  ASSUME ResolutionInv, Target.kind = "bare"
  PROVE  BuildRunAgree
<1>0. Target.pin = 0 /\ \A v : Satisfies(v, Target.pin)
      BY Kinds DEF ResolutionInv, Satisfies
<1> DEFINE f == FirstOf(AliasExtensions, files)
           at == PlaceOf(PackageCandidates)
<1>1. BuildFile("none") = IF f = "none" THEN Failed ELSE Result("file", f, 0)
      BY DEF BuildFile
<1>2. BuildFile("none") # Failed <=> f # "none"
      BY <1>1, ResultsDiffer
<1>3. AliasTarget = IF aliased /\ ~linked THEN f ELSE "none"
      BY DEF AliasTarget
<1>4. RunResult = IF AliasTarget # "none" THEN LoadFile(AliasTarget) ELSE RunPackage(0)
      BY DEF RunResult
<1>5. BuildResult = IF aliased /\ f # "none" THEN BuildFile("none") ELSE BuildBare
      BY <1>2 DEF BuildResult
<1> HIDE DEF f
<1>6. ASSUME RunResult # Failed, BuildResult # Failed, ~Ambiguous PROVE RunResult = BuildResult
  <2>1. ~(aliased /\ linked)
        BY <1>6 DEF Ambiguous
  <2>2. CASE aliased /\ f # "none"
    <3>1. RunResult = LoadFile(f) /\ BuildResult = Result("file", f, 0)
          BY <1>1, <1>3, <1>4, <1>5, <2>1, <2>2
    <3> QED
          BY <1>6, <3>1 DEF LoadFile
  <2>3. CASE ~(aliased /\ f # "none")
    <3>1. RunResult = RunPackage(0) /\ BuildResult = BuildBare
          BY <1>3, <1>4, <1>5, <2>3
    <3>2. RunResult = Result("package", at, packages[at])
          BY <1>6, <3>1, RunPackageIs
    <3>3. BuildResult = Result("package", at, packages[at])
          BY <1>6, <3>1, SamePlace
    <3> QED
          BY <3>2, <3>3
  <2> QED
        BY <2>2, <2>3
<1> QED
      BY <1>0, <1>6 DEF BuildRunAgree

(* A package with a version (node_services.rs:663-680, inka-bundler         *)
(* lib.rs:387-419).                                                         *)
LEMMA NpmAgrees ==
  ASSUME ResolutionInv, Target.kind = "npm"
  PROVE  BuildRunAgree
<1> DEFINE at == PlaceOf(PackageCandidates)
           found == Result("package", at, packages[at])
<1>1. RunResult = RunPackage(Target.pin) /\ BuildResult = BuildPackage(Target.pin)
      BY DEF RunResult, BuildResult
<1>2. RunResult # Failed => RunResult = found /\ Satisfies(packages[at], Target.pin)
      BY <1>1, RunPackageIs
<1>3. BuildResult # Failed => BuildResult = BuildBare /\ BuildBare # Failed /\ Satisfies(BuildBare.version, Target.pin)
      BY <1>1 DEF BuildPackage
<1>4. BuildBare # Failed => BuildBare = found /\ at \in Place /\ BuildBare.version = packages[at]
      BY SamePlace, ResultsDiffer
<1>5. ASSUME ~linked, packages["mirror"] = 0 PROVE RunResult = Failed <=> BuildResult = Failed
  <2>1. Confined
        BY <1>5 DEF Confined
  <2>2. CASE BuildBare = Failed
    <3>1. at = "none"
          BY <1>5, <2>2, SamePlace
    <3>2. RunPackage(Target.pin) = Failed
          BY <3>1 DEF RunPackage
    <3>3. BuildPackage(Target.pin) = Failed
          BY <2>2 DEF BuildPackage
    <3> QED
          BY <1>1, <3>2, <3>3
  <2>3. CASE BuildBare # Failed
    <3>1. at # "none" /\ BuildBare = found /\ BuildBare.version = packages[at]
          BY <1>4, <2>3 DEF Place
    <3>2. RunPackage(Target.pin) = IF Satisfies(packages[at], Target.pin) THEN found ELSE Failed
          BY <2>1, <3>1 DEF RunPackage
    <3>3. BuildPackage(Target.pin) = IF Satisfies(packages[at], Target.pin) THEN found ELSE Failed
          BY <2>3, <3>1 DEF BuildPackage
    <3> QED
          BY <1>1, <3>2, <3>3
  <2> QED
        BY <2>2, <2>3
<1>6. RunResult # Failed /\ BuildResult # Failed => RunResult = BuildResult
      BY <1>2, <1>3, <1>4
<1>7. /\ RunResult.from = "package" => Satisfies(RunResult.version, Target.pin)
      /\ BuildResult.from = "package" => Satisfies(BuildResult.version, Target.pin)
      BY <1>2, <1>3, <1>4, ResultsDiffer
<1> QED
      BY <1>5, <1>6, <1>7 DEF BuildRunAgree

(* A module by its URL: no package is asked (resolve.rs:322-330).           *)
LEMMA RemoteAgrees ==
  ASSUME ResolutionInv, Target.kind = "remote"
  PROVE  BuildRunAgree
<1>1. /\ RunResult \in {Failed, CachedRemote(Target.url)}
      /\ BuildResult \in {Failed, CachedRemote(Target.url)}
  <2>1. RunResult \in {Failed, CachedRemote(Target.url)}
        BY DEF RunResult
  <2>2. BuildResult \in {Failed, CachedRemote(Target.url)}
        BY DEF BuildResult
  <2> QED
        BY <2>1, <2>2
<1>2. CachedRemote(Target.url).from # "package" /\ Failed.from # "package"
      BY ResultsDiffer DEF CachedRemote
<1> QED
      BY <1>1, <1>2 DEF BuildRunAgree

(* An application runs on what it was built from: BuildRunAgree, for every   *)
(* import, import map and set of files (tsconfig.rs:3-5, resolve.rs:333-335, *)
(* node_services.rs:663-680, inka-bundler lib.rs:387-419).                   *)
THEOREM BuildsAsRun == ResolutionInit /\ [][ResolutionNext]_resolutionVars => []BuildRunAgree
<1>1. ResolutionInv => BuildRunAgree
  <2> SUFFICES ASSUME ResolutionInv PROVE BuildRunAgree
      OBVIOUS
  <2>1. Target.kind \in {"relative", "bare", "npm", "remote"}
        BY Kinds DEF ResolutionInv
  <2> QED
        BY <2>1, RelativeAgrees, BareAgrees, NpmAgrees, RemoteAgrees
<1> QED
      BY ResolutionStarts, ResolutionStep, <1>1, PTL

-----------------------------------------------------------------------------
(***************************************************************************)
(* Versions, manifests and channels, for every set of installed tuples,     *)
(* every text of a manifest and every list of releases.                     *)
(***************************************************************************)

(* The i-th line is the last one for a slot.                                 *)
LastIs(s, k, i) == i \in DOMAIN s /\ s[i].key = k /\ \A j \in DOMAIN s : s[j].key = k => j <= i

(* Of the lines that can be read, the last one for a slot is in it.          *)
SlotHolds(s, m, k) ==
  \/ m[k] = {} /\ \A i \in DOMAIN s : s[i].key # k
  \/ \E i \in DOMAIN s : LastIs(s, k, i) /\ m[k] = {ParseVersion(s[i].val)}

ManifestInv ==
  LET m == Manifest IN
  /\ DOMAIN m = DOMAIN NoConstraint
  /\ m.malformed \in BOOLEAN
  /\ m.malformed <=> \E i \in DOMAIN lines : Unreadable(lines[i])
  /\ ~m.malformed => \A k \in Slot : SlotHolds(lines, m, k)
  /\ m.channel = "beta" => \E i \in DOMAIN lines : lines[i].key = "channel" /\ lines[i].val = "beta"

ReleaseInv ==
  \A r \in releases : r.v \in Sample /\ \E hashed \in BOOLEAN : r.tag = Tag(r.v, hashed)

VersionInv ==
  /\ tuples \subseteq Sample /\ IsFiniteSet(tuples)
  /\ symlinks \subseteq Sample /\ IsFiniteSet(symlinks)
  /\ lines \in Seq(Line)
  /\ ManifestInv /\ ReleaseInv

(* Junk is no version (lib.rs:64-114).                                       *)
LEMMA JunkUnread == ASSUME NEW t \in Junk PROVE ParseVersion(t) = NoVersion
<1>1. CASE t = [nums |-> <<1, 0, 0, 0>>, tags |-> <<>>]
  <2>1. Len(t.nums) = 4
        BY <1>1
  <2> QED
        BY <2>1 DEF ParseVersion
<1>2. CASE t = [nums |-> <<1, Bad>>, tags |-> <<>>]
  <2>1. Len(t.nums) = 2 /\ t.nums[2] = Bad
        BY <1>2
  <2> QED
        BY <2>1 DEF ParseVersion
<1>3. CASE t = [nums |-> <<1, 0, 0>>, tags |-> <<[label |-> "stub", num |-> Bad]>>]
  <2>1. t.tags # <<>> /\ t.tags[1].num = Bad
        BY <1>3
  <2> QED
        BY <2>1 DEF ParseVersion
<1>4. CASE t = [nums |-> <<1, 0, 0>>, tags |-> <<[label |-> "beta", num |-> Bad]>>]
  <2>1. t.tags # <<>> /\ t.tags[1].num = Bad
        BY <1>4
  <2> QED
        BY <2>1 DEF ParseVersion
<1> QED
      BY <1>1, <1>2, <1>3, <1>4 DEF Junk

(* A line is a channel, or a slot with a text that is read unless it is junk. *)
LEMMA LineKinds ==
  ASSUME NEW l \in Line
  PROVE  \/ l.key = "channel" /\ l.val \in {"stable", "beta"}
         \/ /\ l.key \in Slot /\ l.key # "channel" /\ l.val \in Text
            /\ Unreadable(l) <=> ParseVersion(l.val) = NoVersion
            /\ ~Unreadable(l) => /\ ParseVersion(l.val) \in Sample
                                 /\ l.val = Display(ParseVersion(l.val))
<1>1. CASE l \in [key : {"channel"}, val : Channel]
      BY <1>1 DEF Channel
<1>2. CASE l \in [key : Slot, val : Text]
  <2>1. l.key \in Slot /\ l.key # "channel" /\ l.val \in Text
        BY <1>2 DEF Slot
  <2>2. CASE l.val \in Junk
        BY <2>1, <2>2, JunkUnread DEF Unreadable
  <2>3. CASE l.val \notin Junk
    <3>1. PICK v \in Sample : l.val = Display(v)
          BY <2>1, <2>3 DEF Text
    <3>2. v \in Version
          BY VersionRulesAssumption
    <3>3. ParseVersion(l.val) = v
          BY <3>1, <3>2, WrittenIsRead
    <3> QED
          BY <2>1, <2>3, <3>1, <3>2, <3>3, NoneIsNoVersion DEF Unreadable
  <2> QED
        BY <2>2, <2>3
<1> QED
      BY <1>1, <1>2 DEF Line

(* Nothing is installed, published or written yet.                           *)
LEMMA VersionInit == ASSUME RulesInit PROVE VersionInv
<1>1. tuples = {} /\ symlinks = {} /\ lines = <<>> /\ releases = {}
      BY DEF RulesInit
<1>2. Manifest = NoConstraint
      BY <1>1, ManifestOfNone DEF Manifest
<1>3. NoConstraint.malformed = FALSE /\ NoConstraint.channel = "none" /\ \A k \in Slot : NoConstraint[k] = {}
      BY DEF NoConstraint, Slot
<1>4. DOMAIN lines = {} /\ lines \in Seq(Line)
      BY <1>1
<1>5. ManifestInv
      BY <1>2, <1>3, <1>4 DEF ManifestInv, SlotHolds
<1> QED
      BY <1>1, <1>4, <1>5, FS_EmptySet DEF VersionInv, ReleaseInv

(* Reading one more line (lib.rs:714-772).                                   *)
LEMMA LineKeeps ==
  ASSUME VersionInv, NEW l \in Line, WriteLine(l)
  PROVE  ManifestInv'
<1> DEFINE m == Manifest
           n == Len(lines)
<1>1. lines \in Seq(Line) /\ lines' = Append(lines, l)
      BY DEF VersionInv, WriteLine
<1>2. Manifest' = ParseLine(m, l)
      BY <1>1, ManifestOfMore DEF Manifest
<1>3. /\ n \in Nat /\ DOMAIN lines = 1..n /\ DOMAIN lines' = 1..(n + 1)
      /\ lines'[n + 1] = l /\ \A i \in 1..n : lines'[i] = lines[i]
      BY <1>1
<1>4. /\ DOMAIN m = DOMAIN NoConstraint
      /\ m.malformed \in BOOLEAN
      /\ m.malformed <=> \E i \in DOMAIN lines : Unreadable(lines[i])
      /\ ~m.malformed => \A k \in Slot : SlotHolds(lines, m, k)
      /\ m.channel = "beta" => \E i \in DOMAIN lines : lines[i].key = "channel" /\ lines[i].val = "beta"
      BY DEF VersionInv, ManifestInv
<1>5. DOMAIN NoConstraint = {"min", "gt", "exact", "tested", "channel", "malformed"}
      BY DEF NoConstraint
<1> DEFINE mm == Manifest'
<1> HIDE DEF m, n
<1>k. ASSUME NEW k \in Slot, ~m.malformed, mm[k] = m[k], l.key # k
      PROVE  SlotHolds(lines', mm, k)
  <2>1. SlotHolds(lines, m, k)
        BY <1>4, <1>k
  <2>2. CASE m[k] = {} /\ \A i \in DOMAIN lines : lines[i].key # k
        BY <1>3, <1>k, <2>2 DEF SlotHolds
  <2>3. CASE \E i \in DOMAIN lines : LastIs(lines, k, i) /\ m[k] = {ParseVersion(lines[i].val)}
    <3>1. PICK i \in DOMAIN lines : LastIs(lines, k, i) /\ m[k] = {ParseVersion(lines[i].val)}
          BY <2>3
    <3>2. LastIs(lines', k, i)
          BY <1>3, <1>k, <3>1 DEF LastIs
    <3> QED
          BY <1>3, <1>k, <3>1, <3>2 DEF SlotHolds
  <2> QED
        BY <2>1, <2>2, <2>3 DEF SlotHolds
<1>6. CASE l.key = "channel" /\ l.val \in {"stable", "beta"}
  <2>1. mm = [m EXCEPT !.channel = l.val]
        BY <1>2, <1>6 DEF ParseLine
  <2>2. /\ DOMAIN mm = DOMAIN NoConstraint /\ mm.channel = l.val /\ mm.malformed = m.malformed
        /\ \A k \in Slot : mm[k] = m[k] /\ l.key # k
        BY <1>4, <1>5, <1>6, <2>1 DEF Slot
  <2>3. ~Unreadable(l)
        BY <1>6 DEF Unreadable
  <2> HIDE DEF mm
  <2>4. mm.malformed <=> \E i \in DOMAIN lines' : Unreadable(lines'[i])
        BY <1>3, <1>4, <2>2, <2>3 DEF Unreadable
  <2>5. ~mm.malformed => \A k \in Slot : SlotHolds(lines', mm, k)
        BY <1>k, <2>2
  <2>6. mm.channel = "beta" => \E i \in DOMAIN lines' : lines'[i].key = "channel" /\ lines'[i].val = "beta"
    <3>1. n + 1 \in DOMAIN lines' /\ lines'[n + 1].key = "channel" /\ lines'[n + 1].val = l.val
          BY <1>3, <1>6
    <3> QED
          BY <2>2, <3>1
  <2> QED
        BY <1>4, <2>2, <2>4, <2>5, <2>6 DEF ManifestInv, mm
<1>7. CASE l.key \in Slot /\ l.key # "channel" /\ ParseVersion(l.val) = NoVersion /\ Unreadable(l)
  <2>1. mm = [m EXCEPT !.malformed = TRUE]
        BY <1>2, <1>7 DEF ParseLine
  <2>2. DOMAIN mm = DOMAIN NoConstraint /\ mm.malformed = TRUE /\ mm.channel = m.channel
        BY <1>4, <1>5, <2>1
  <2> HIDE DEF mm
  <2>3. \E i \in DOMAIN lines' : Unreadable(lines'[i])
        BY <1>3, <1>7
  <2>4. mm.channel = "beta" => \E i \in DOMAIN lines' : lines'[i].key = "channel" /\ lines'[i].val = "beta"
        BY <1>3, <1>4, <2>2
  <2> QED
        BY <2>2, <2>3, <2>4 DEF ManifestInv, mm
<1>8. CASE l.key \in Slot /\ l.key # "channel" /\ ParseVersion(l.val) # NoVersion /\ ~Unreadable(l)
  <2>1. mm = [m EXCEPT ![l.key] = {ParseVersion(l.val)}]
        BY <1>2, <1>8 DEF ParseLine
  <2>2. /\ DOMAIN mm = DOMAIN NoConstraint /\ mm.malformed = m.malformed /\ mm.channel = m.channel
        /\ mm[l.key] = {ParseVersion(l.val)} /\ \A k \in Slot \ {l.key} : mm[k] = m[k]
        BY <1>4, <1>5, <1>8, <2>1 DEF Slot
  <2> HIDE DEF mm
  <2>3. mm.malformed <=> \E i \in DOMAIN lines' : Unreadable(lines'[i])
        BY <1>3, <1>4, <1>8, <2>2 DEF Unreadable
  <2>4. SlotHolds(lines', mm, l.key)
    <3>1. LastIs(lines', l.key, n + 1) /\ n + 1 \in DOMAIN lines'
          BY <1>3 DEF LastIs
    <3> QED
          BY <1>3, <2>2, <3>1 DEF SlotHolds
  <2>5. ~mm.malformed => \A k \in Slot : SlotHolds(lines', mm, k)
        BY <1>k, <2>2, <2>4
  <2>6. mm.channel = "beta" => \E i \in DOMAIN lines' : lines'[i].key = "channel" /\ lines'[i].val = "beta"
        BY <1>3, <1>4, <2>2
  <2> QED
        BY <1>4, <2>2, <2>3, <2>5, <2>6 DEF ManifestInv, mm
<1> QED
      BY <1>6, <1>7, <1>8, LineKinds

(* Every install, line and release keeps what is known of them.              *)
LEMMA VersionStep == ASSUME VersionInv, [RulesNext]_ruleVars PROVE VersionInv'
<1>0. /\ tuples \subseteq Sample /\ IsFiniteSet(tuples)
      /\ symlinks \subseteq Sample /\ IsFiniteSet(symlinks)
      /\ lines \in Seq(Line) /\ ManifestInv /\ ReleaseInv
      BY DEF VersionInv
<1>m. lines' = lines => ManifestInv'
      BY <1>0 DEF ManifestInv, Manifest, SlotHolds, LastIs
<1>1. ASSUME NEW v \in Sample, Install(v) PROVE VersionInv'
  <2>1. tuples' = tuples \cup {v} /\ symlinks' = symlinks /\ lines' = lines /\ releases' = releases
        BY <1>1 DEF Install
  <2>2. IsFiniteSet(tuples')
        BY <1>0, <2>1, FS_AddElement
  <2> QED
        BY <1>0, <1>m, <2>1, <2>2 DEF VersionInv, ReleaseInv
<1>5. ASSUME NEW v \in Sample, LinkTuple(v) PROVE VersionInv'
  <2>1. symlinks' = symlinks \cup {v} /\ tuples' = tuples /\ lines' = lines /\ releases' = releases
        BY <1>5 DEF LinkTuple
  <2>2. IsFiniteSet(symlinks')
        BY <1>0, <2>1, FS_AddElement
  <2> QED
        BY <1>0, <1>m, <2>1, <2>2 DEF VersionInv, ReleaseInv
<1>2. ASSUME NEW l \in Line, WriteLine(l) PROVE VersionInv'
  <2>1. lines' = Append(lines, l) /\ tuples' = tuples /\ symlinks' = symlinks /\ releases' = releases
        BY <1>2 DEF WriteLine
  <2>2. lines' \in Seq(Line)
        BY <1>0, <2>1
  <2> QED
        BY <1>0, <1>2, <2>1, <2>2, LineKeeps DEF VersionInv, ReleaseInv
<1>3. ASSUME NEW v \in Sample, NEW hashed \in BOOLEAN, NEW pre \in BOOLEAN,
             Publish([v |-> v, tag |-> Tag(v, hashed), prerelease |-> pre])
      PROVE VersionInv'
  <2> DEFINE r == [v |-> v, tag |-> Tag(v, hashed), prerelease |-> pre]
  <2>1. releases' = releases \cup {r} /\ tuples' = tuples /\ symlinks' = symlinks /\ lines' = lines
        BY <1>3 DEF Publish
  <2>2. r.v = v /\ r.tag = Tag(v, hashed)
        OBVIOUS
  <2> HIDE DEF r
  <2>3. \A q \in releases' : q.v \in Sample /\ \E h \in BOOLEAN : q.tag = Tag(q.v, h)
        BY <1>0, <2>1, <2>2 DEF ReleaseInv
  <2>4. ReleaseInv'
        BY <2>3 DEF ReleaseInv
  <2> QED
        BY <1>0, <1>m, <2>1, <2>4 DEF VersionInv
<1>4. CASE UNCHANGED ruleVars
      BY <1>0, <1>4, <1>m DEF VersionInv, ReleaseInv, ruleVars
<1> QED
      BY <1>1, <1>2, <1>3, <1>4, <1>5 DEF RulesNext

-----------------------------------------------------------------------------
(* The slots are sets of installed or published versions, the last line for   *)
(* each (lib.rs:714-772).                                                    *)
LEMMA SlotsRead ==
  ASSUME VersionInv, ~Manifest.malformed, NEW k \in Slot
  PROVE  /\ Manifest[k] = {ParseVersion(t) : t \in LastOf(k)}
         /\ \A t \in LastOf(k) : ParseVersion(t) \in Sample /\ t = Display(ParseVersion(t))
         /\ \A t \in LastOf(k) : \E i \in DOMAIN lines : lines[i].key = k /\ lines[i].val = t
<1>1. SlotHolds(lines, Manifest, k) /\ lines \in Seq(Line) /\ \A i \in DOMAIN lines : ~Unreadable(lines[i])
      BY DEF VersionInv, ManifestInv
<1> DEFINE at == {i \in DOMAIN lines : lines[i].key = k}
<1>2. LastOf(k) = IF at = {} THEN {} ELSE {lines[CHOOSE i \in at : \A j \in at : j <= i].val}
      BY DEF LastOf
<1>3. CASE Manifest[k] = {} /\ \A i \in DOMAIN lines : lines[i].key # k
      BY <1>2, <1>3
<1>4. ASSUME NEW i \in DOMAIN lines, LastIs(lines, k, i), Manifest[k] = {ParseVersion(lines[i].val)}
      PROVE  /\ Manifest[k] = {ParseVersion(t) : t \in LastOf(k)}
             /\ \A t \in LastOf(k) : ParseVersion(t) \in Sample /\ t = Display(ParseVersion(t))
             /\ \A t \in LastOf(k) : \E j \in DOMAIN lines : lines[j].key = k /\ lines[j].val = t
  <2>1. i \in at /\ \A j \in at : j <= i
        BY <1>4 DEF LastIs
  <2>2. at \subseteq Int
        BY <1>1
  <2>3. (CHOOSE x \in at : \A j \in at : j <= x) = i
    <3> DEFINE x == CHOOSE x \in at : \A j \in at : j <= x
    <3>1. x \in at /\ \A j \in at : j <= x
          BY <2>1
    <3> QED
          BY <2>1, <2>2, <3>1
  <2>4. LastOf(k) = {lines[i].val}
        BY <1>2, <2>1, <2>3
  <2>5. lines[i] \in Line /\ lines[i].key = k /\ k # "channel"
        BY <1>1, <1>4 DEF LastIs, Slot
  <2>6. ParseVersion(lines[i].val) \in Sample /\ lines[i].val = Display(ParseVersion(lines[i].val))
        BY <1>1, <2>5, LineKinds
  <2> QED
        BY <1>4, <2>4, <2>5, <2>6
<1> QED
      BY <1>1, <1>3, <1>4 DEF SlotHolds

(* The constraints are what the last lines ask for (lib.rs:774-832).          *)
LEMMA AllowsIsMeets ==
  ASSUME VersionInv, ~Manifest.malformed, NEW v \in Version
  PROVE  ConstraintAllows(Manifest, v) <=> Meets(v)
<1>1. \A k \in Slot :
        /\ Manifest[k] = {ParseVersion(t) : t \in LastOf(k)}
        /\ \A t \in LastOf(k) : ParseVersion(t) \in Version /\ t = Display(ParseVersion(t))
      BY SlotsRead, VersionRulesAssumption
<1>2. \A w \in Version : /\ AtMost(w, v) <=> ~Less(v, w)
                         /\ AtMost(v, w) <=> ~Less(w, v)
      BY LessIrreflexive, LessTransitive, LessTotal DEF AtMost
<1>3. \A w \in Version : ParseVersion(Display(w)) = w
      BY WrittenIsRead
<1>4. (\A e \in Manifest.exact : v = e) <=> \A t \in LastOf("exact") : t = Display(v)
      BY <1>1, <1>3 DEF Slot
<1>5. (\A g \in Manifest.gt : Less(g, v)) <=> \A t \in LastOf("gt") : Less(ParseVersion(t), v)
      BY <1>1 DEF Slot
<1>6. (\A f \in Manifest.min : ~Less(v, f)) <=> \A t \in LastOf("min") : AtMost(ParseVersion(t), v)
      BY <1>1, <1>2 DEF Slot
<1>7. (\A t \in Manifest.tested : ~Less(t, v)) <=> \A t \in LastOf("tested") : AtMost(v, ParseVersion(t))
      BY <1>1, <1>2 DEF Slot
<1> QED
      BY <1>4, <1>5, <1>6, <1>7 DEF ConstraintAllows, Meets

(* What can be selected is there, and the newest is.                         *)
LEMMA EligibleNewest ==
  ASSUME VersionInv, NEW m, NEW allow, NEW S, S = tuples \/ S = tuples \cup symlinks
  PROVE  LET E == Eligible(m, allow, S) IN
         /\ Newest(E) = NoVersion <=> E = {}
         /\ E # {} => Newest(E) \in E /\ \A w \in E : AtMost(w, Newest(E))
         /\ E \subseteq S /\ S \subseteq Version
<1>1. S \subseteq Version /\ IsFiniteSet(S)
      BY VersionRulesAssumption, FS_Union DEF VersionInv
<1>2. Eligible(m, allow, S) \subseteq S
      BY DEF Eligible
<1> QED
      BY <1>1, <1>2, FS_Subset, NewestExists

(* The launch of a manifest that can be read selects an eligible file, if    *)
(* there is one.                                                             *)
LEMMA SelectedIs ==
  ASSUME VersionInv, NEW env
  PROVE  LET E == Eligible(Manifest, WantsPrerelease(Manifest) \/ env = "beta", tuples) IN
         /\ SelectedTuple(env) = NoVersion <=> Manifest.malformed \/ E = {}
         /\ SelectedTuple(env) # NoVersion =>
              /\ SelectedTuple(env) = Newest(E) /\ SelectedTuple(env) \in E
              /\ \A w \in E : AtMost(w, SelectedTuple(env))
              /\ E \subseteq tuples /\ tuples \subseteq Version
<1> DEFINE E == Eligible(Manifest, WantsPrerelease(Manifest) \/ env = "beta", tuples)
<1>1. /\ Newest(E) = NoVersion <=> E = {}
      /\ E # {} => Newest(E) \in E /\ \A w \in E : AtMost(w, Newest(E))
      /\ E \subseteq tuples /\ tuples \subseteq Version
      BY EligibleNewest
<1>2. SelectedTuple(env) = IF Manifest.malformed THEN NoVersion ELSE Newest(E)
      BY DEF SelectedTuple
<1> HIDE DEF E
<1> QED
      BY <1>1, <1>2 DEF E

(* An artifact that names no prerelease runs on none, unless the environment *)
(* asks for betas (lib.rs:834-845).                                          *)
LEMMA StableStays == ASSUME VersionInv PROVE StableStaysStable
<1> SUFFICES ASSUME \A i \in DOMAIN lines :
                      IF lines[i].key = "channel" THEN lines[i].val # "beta"
                      ELSE ~Unreadable(lines[i]) => ~IsPrerelease(ParseVersion(lines[i].val)),
                    NEW env \in Environment \ {"beta"}, SelectedTuple(env) # NoVersion
             PROVE  ~IsPrerelease(SelectedTuple(env))
      BY DEF StableStaysStable
<1>1. ~Manifest.malformed
      BY DEF SelectedTuple
<1>2. Manifest.channel # "beta"
      BY DEF VersionInv, ManifestInv
<1>3. \A i \in DOMAIN lines : ~Unreadable(lines[i])
      BY <1>1 DEF VersionInv, ManifestInv
<1>4. ASSUME NEW k \in Slot, NEW v \in Manifest[k] PROVE ~IsPrerelease(v)
  <2>1. PICK t \in LastOf(k) : v = ParseVersion(t)
        BY <1>1, <1>4, SlotsRead
  <2>2. PICK i \in DOMAIN lines : lines[i].key = k /\ lines[i].val = t
        BY <1>1, SlotsRead
  <2> QED
        BY <1>3, <2>1, <2>2 DEF Slot
<1>5. ~WantsPrerelease(Manifest)
      BY <1>2, <1>4 DEF WantsPrerelease, Slot
<1>6. SelectedTuple(env) \in Eligible(Manifest, WantsPrerelease(Manifest) \/ env = "beta", tuples)
      BY SelectedIs
<1> QED
      BY <1>5, <1>6 DEF Eligible

(* What `inka doctor` goes by is a channel, or it refuses (channel.rs:129-155). *)
LEMMA DoctorChannels ==
  ASSUME NEW env \in Environment, NEW toolchain \in Channel \cup {"dev"}, NEW asked \in Channel \cup {"none"}
  PROVE  DoctorChannel(toolchain, asked, env) \in Channel \cup {"refused"}
      BY DEF DoctorChannel, ResolveChannel, Environment, Channel

(* `inka doctor` finds a tuple wherever a launch does that admits no more    *)
(* prereleases than it does, and on the same terms the same one.             *)
LEMMA DoctorFinds ==
  ASSUME VersionInv, NEW env \in Environment, NEW c \in Channel
  PROVE  /\ (env = "beta" => c = "beta") /\ SelectedTuple(env) # NoVersion => DoctorSelected(c) # NoVersion
         /\ (env = "beta" <=> c = "beta") /\ symlinks \subseteq tuples => DoctorSelected(c) = SelectedTuple(env)
<1> DEFINE m == Manifest
           S == tuples \cup symlinks
           E == Eligible(m, WantsPrerelease(m) \/ env = "beta", tuples)
           F == Eligible(m, WantsPrerelease(m) \/ c = "beta", S)
<1>1. DoctorSelected(c) = IF m.malformed THEN NoVersion ELSE Newest(F)
      BY DEF DoctorSelected
<1>2. SelectedTuple(env) = IF m.malformed THEN NoVersion ELSE Newest(E)
      BY DEF SelectedTuple
<1>3. Newest(F) = NoVersion <=> F = {}
      BY EligibleNewest
<1>4. Newest(E) = NoVersion <=> E = {}
      BY EligibleNewest
<1>5. (env = "beta" => c = "beta") => E \subseteq F
      BY DEF Eligible
<1>6. (env = "beta" <=> c = "beta") /\ symlinks \subseteq tuples => E = F
  <2> SUFFICES ASSUME env = "beta" <=> c = "beta", symlinks \subseteq tuples PROVE E = F
        OBVIOUS
  <2>1. S = tuples
        OBVIOUS
  <2> QED
        BY <2>1 DEF Eligible
<1> HIDE DEF E, F, m
<1> QED
      BY <1>1, <1>2, <1>3, <1>4, <1>5, <1>6

(* `inka doctor` says what a launch will do (main.rs:695-760).                *)
LEMMA DoctorIsRight == ASSUME VersionInv PROVE DoctorAgrees
<1> DEFINE m == Manifest
           takes == [env \in Environment |-> SelectedTuple(env)]
           told == [c \in Channel |-> DoctorSelected(c)]
<1>1. ASSUME NEW env \in Environment, NEW toolchain \in Channel \cup {"dev"}, NEW asked \in Channel \cup {"none"}
      PROVE  LET c == DoctorChannel(toolchain, asked, env)
             IN c # "refused" =>
                /\ (env = "beta" => c = "beta") /\ takes[env] # NoVersion => told[c] # NoVersion
                /\ (env = "beta" <=> c = "beta") /\ symlinks \subseteq tuples => told[c] = takes[env]
  <2> DEFINE c == DoctorChannel(toolchain, asked, env)
  <2> SUFFICES ASSUME c # "refused"
               PROVE /\ (env = "beta" => c = "beta") /\ takes[env] # NoVersion => told[c] # NoVersion
                     /\ (env = "beta" <=> c = "beta") /\ symlinks \subseteq tuples => told[c] = takes[env]
        OBVIOUS
  <2>1. c \in Channel
        BY DoctorChannels
  <2> HIDE DEF c
  <2>2. takes[env] = SelectedTuple(env) /\ told[c] = DoctorSelected(c)
        BY <2>1
  <2> QED
        BY <2>1, <2>2, DoctorFinds
<1>3. ASSUME BetaHint("stable"), symlinks \subseteq tuples
      PROVE  LET optedIn == ParseManifest(Append(lines, [key |-> "channel", val |-> "beta"]))
             IN Newest(Eligible(optedIn, WantsPrerelease(optedIn), tuples)) # NoVersion
  <2> DEFINE l == [key |-> "channel", val |-> "beta"]
             o == ParseManifest(Append(lines, l))
  <2>1. l \in Line
        BY DEF Line, Channel
  <2>2. lines \in Seq(Line) /\ DOMAIN m = {"min", "gt", "exact", "tested", "channel", "malformed"}
        BY DEF VersionInv, ManifestInv, NoConstraint
  <2>3. o = ParseLine(m, l)
        BY <2>1, <2>2, ManifestOfMore DEF Manifest
  <2>4. o = [m EXCEPT !.channel = "beta"]
        BY <2>3 DEF ParseLine
  <2>5. /\ o.channel = "beta" /\ o.exact = m.exact /\ o.min = m.min /\ o.gt = m.gt /\ o.tested = m.tested
        BY <2>2, <2>4
  <2> HIDE DEF o, m
  <2>6. WantsPrerelease(o) = TRUE
        BY <2>5 DEF WantsPrerelease
  <2>7. \A v : ConstraintAllows(o, v) <=> ConstraintAllows(m, v)
        BY <2>5 DEF ConstraintAllows
  <2>8. tuples \cup symlinks = tuples
        BY <1>3
  <2>9. Newest(Eligible(m, TRUE, tuples)) # NoVersion
        BY <1>3, <2>8 DEF BetaHint, m
  <2>10. PICK v : v \in Eligible(m, TRUE, tuples)
        BY <2>9, EligibleNewest
  <2>11. v \in Eligible(o, WantsPrerelease(o), tuples)
        BY <2>6, <2>7, <2>10 DEF Eligible
  <2> QED
        BY <2>11, EligibleNewest DEF o
<1> HIDE DEF takes, told
<1> QED
      BY <1>1, <1>3 DEF DoctorAgrees, takes, told

(* A manifest is followed to its last line (lib.rs:714-845).                 *)
LEMMA ManifestFollowed == ASSUME VersionInv PROVE ManifestHolds
<1> SUFFICES ASSUME NEW env \in Environment
             PROVE  /\ (\E i \in DOMAIN lines : Unreadable(lines[i])) => SelectedTuple(env) = NoVersion
                    /\ SelectedTuple(env) # NoVersion =>
                         /\ Meets(SelectedTuple(env))
                         /\ \A v \in tuples : Less(SelectedTuple(env), v) /\ ~IsPrerelease(v) => ~Meets(v)
      BY StableStays, DoctorIsRight DEF ManifestHolds
<1> DEFINE chosen == SelectedTuple(env)
           E == Eligible(Manifest, WantsPrerelease(Manifest) \/ env = "beta", tuples)
<1>1. (\E i \in DOMAIN lines : Unreadable(lines[i])) => chosen = NoVersion
      BY DEF VersionInv, ManifestInv, SelectedTuple
<1>2. ASSUME chosen # NoVersion
      PROVE  /\ Meets(chosen)
             /\ \A v \in tuples : Less(chosen, v) /\ ~IsPrerelease(v) => ~Meets(v)
  <2>1. ~Manifest.malformed
        BY <1>2 DEF SelectedTuple
  <2>2. chosen \in E /\ (\A w \in E : AtMost(w, chosen)) /\ E \subseteq Version /\ tuples \subseteq Version
        BY <1>2, SelectedIs
  <2> HIDE DEF chosen
  <2>3. Meets(chosen)
        BY <2>1, <2>2, AllowsIsMeets DEF Eligible
  <2>4. ASSUME NEW v \in tuples, Less(chosen, v), ~IsPrerelease(v), Meets(v) PROVE FALSE
    <3>1. v \in E
          BY <2>1, <2>2, <2>4, AllowsIsMeets DEF Eligible
    <3> HIDE DEF E
    <3>2. AtMost(v, chosen) /\ v \in Version /\ chosen \in Version
          BY <2>2, <3>1
    <3> QED
          BY <2>4, <3>2, LessIrreflexive, LessTransitive DEF AtMost
  <2> QED
        BY <2>3, <2>4
<1> QED
      BY <1>1, <1>2

(* Without its last element a sequence is what it was before it.              *)
LEMMA WithoutLast ==
  ASSUME NEW S, NEW s \in Seq(S), NEW e \in S
  PROVE  LET t == Append(s, e) IN t # <<>> /\ SubSeq(t, 1, Len(t) - 1) = s
<1> DEFINE t == Append(s, e)
           u == SubSeq(t, 1, Len(t) - 1)
<1>1. t \in Seq(S) /\ Len(t) = Len(s) + 1 /\ \A i \in 1..Len(s) : t[i] = s[i]
      OBVIOUS
<1>2. Len(s) \in Nat
      OBVIOUS
<1> HIDE DEF t
<1>3. u \in Seq(S) /\ Len(u) = Len(s) /\ \A i \in 1..Len(s) : u[i] = t[i]
      BY <1>1, <1>2, SubSeqProperties
<1> HIDE DEF u
<1>4. u = s
      BY <1>1, <1>2, <1>3, SeqEqual
<1> QED
      BY <1>1, <1>2, <1>4 DEF t, u

(* A tag is read as the version it was made from (channel.rs:131-155).        *)
LEMMA TagRead ==
  ASSUME NEW v \in Version, NEW hashed \in BOOLEAN
  PROVE  TagPrereleaseVersion(Tag(v, hashed)) = IF IsPrerelease(v) THEN v ELSE NoVersion
<1> DEFINE t == Tag(v, hashed)
           d == Display(v)
           h == [t EXCEPT !.tags = SubSeq(@, 1, Len(@) - 1)]
<1>1. /\ DOMAIN d = {"nums", "tags"}
      /\ d.tags = <<>> \/ \E x : d.tags = <<x>>
      BY DEF Display
<1>2. t = [d EXCEPT !.tags = IF hashed THEN Append(d.tags, Hash) ELSE d.tags]
      BY DEF Tag
<1>3. DOMAIN t = {"nums", "tags"} /\ t.nums = d.nums /\ t.tags = IF hashed THEN Append(d.tags, Hash) ELSE d.tags
  <2> HIDE DEF d, t
  <2> QED
        BY <1>1, <1>2
<1> HIDE DEF t, d
<1>4. h.nums = t.nums /\ h.tags = SubSeq(t.tags, 1, Len(t.tags) - 1)
      BY <1>3
<1> HIDE DEF h
<1>5. TagPrereleaseVersion(t) =
        LET w == IF ParseVersion(t) # NoVersion \/ t.tags = <<>> THEN ParseVersion(t) ELSE ParseVersion(h)
        IN IF w # NoVersion /\ IsPrerelease(w) THEN w ELSE NoVersion
      BY DEF TagPrereleaseVersion, h
<1>6. CASE ~hashed
  <2>1. ParseVersion(t) = v
        BY <1>3, <1>6, WrittenIsRead DEF d
  <2> QED
        BY <1>5, <2>1, NoneIsNoVersion DEF t
<1>7. CASE hashed
  <2>1. t.tags = Append(d.tags, Hash)
        BY <1>3, <1>7
  <2>2. h.tags = d.tags /\ t.tags # <<>>
    <3>1. PICK S : d.tags \in Seq(S) /\ Hash \in S
      <4>1. ASSUME d.tags = <<>> PROVE d.tags \in Seq({Hash})
            BY <4>1
      <4>2. ASSUME NEW x, d.tags = <<x>> PROVE d.tags \in Seq({x, Hash})
            BY <4>2
      <4> QED
            BY <1>1, <4>1, <4>2
    <3> QED
          BY <1>4, <2>1, <3>1, WithoutLast
  <2>3. ParseVersion(h) = v
        BY <1>3, <1>4, <2>2, WrittenIsRead DEF d
  <2>4. ParseVersion(t) = NoVersion
    <3>1. CASE d.tags = <<>>
      <4>1. t.tags = <<Hash>>
            BY <2>1, <3>1
      <4>2. t.tags # <<>> /\ t.tags[1].num = Bad
            BY <4>1 DEF Hash
      <4> QED
            BY <4>2 DEF ParseVersion
    <3>2. ASSUME NEW x, d.tags = <<x>> PROVE ParseVersion(t) = NoVersion
      <4>1. Len(t.tags) = 2 /\ t.tags # <<>>
            BY <2>1, <3>2
      <4> QED
            BY <4>1 DEF ParseVersion
    <3> QED
          BY <1>1, <3>1, <3>2
  <2> QED
        BY <1>5, <2>2, <2>3, <2>4, NoneIsNoVersion DEF t
<1> QED
      BY <1>6, <1>7

(* An update follows the channel of a build and never goes back               *)
(* (update.rs:121-199, channel.rs:131-155).                                  *)
LEMMA ChannelFollowed == ASSUME VersionInv PROVE FollowsOwnChannel
<1>0. Sample \subseteq Version /\ ReleaseInv
      BY VersionRulesAssumption DEF VersionInv
<1>1. \A r \in releases : TagPrereleaseVersion(r.tag) = IF IsPrerelease(r.v) THEN r.v ELSE NoVersion
      BY <1>0, TagRead DEF ReleaseInv
<1>2. RoundTrip
      BY <1>0, <1>1, WrittenIsRead DEF RoundTrip
<1>3. LatestBeta(releases) = Newest({r.v : r \in {q \in releases : q.prerelease /\ IsPrerelease(q.v)}})
  <2>1. {TagPrereleaseVersion(r.tag) : r \in {q \in releases : q.prerelease}} \ {NoVersion}
          = {r.v : r \in {q \in releases : q.prerelease /\ IsPrerelease(q.v)}}
        BY <1>0, <1>1, NoneIsNoVersion DEF ReleaseInv
  <2> QED
        BY <2>1 DEF LatestBeta
<1>4. ASSUME NEW t \in Sample, NEW chosen, chosen # NoVersion, NEW beta \in BOOLEAN,
             beta <=> ChannelOf(t) = "beta", ~UpToDate(t, chosen, beta)
      PROVE  Less(t, chosen)
  <2>1. t # NoVersion
        BY <1>0, NoneIsNoVersion
  <2>2. IsPrerelease(t) = beta
        BY <1>4, <2>1 DEF ChannelOf, IsPrerelease
  <2> QED
        BY <1>4, <2>1, <2>2 DEF UpToDate
<1>5. ASSUME NEW t \in Sample
      PROVE  /\ DefaultUpdateBeta("none", FALSE, ChannelOf(t)) <=> ChannelOf(t) = "beta"
             /\ ChannelOf(t) = "beta" <=> ResolveChannel(ChannelOf(t), "none", "none") = "beta"
      BY DEF DefaultUpdateBeta, ResolveChannel, ChannelOf
<1>6. ASSUME NEW t \in Sample
      PROVE  LET beta == DefaultUpdateBeta("none", FALSE, ChannelOf(t))
                 betas == {r.v : r \in {q \in releases : q.prerelease /\ IsPrerelease(q.v)}}
                 stables == {r.v : r \in {q \in releases : ~q.prerelease /\ ~IsPrerelease(q.v)}}
                 chosen == IF beta THEN LatestBeta(releases) ELSE Newest(stables)
             IN /\ beta <=> ResolveChannel(ChannelOf(t), "none", "none") = "beta"
                /\ beta => chosen = Newest(betas)
                /\ chosen # NoVersion /\ ~UpToDate(t, chosen, beta) => Less(t, chosen)
  <2> DEFINE beta == DefaultUpdateBeta("none", FALSE, ChannelOf(t))
             stables == {r.v : r \in {q \in releases : ~q.prerelease /\ ~IsPrerelease(q.v)}}
             chosen == IF beta THEN LatestBeta(releases) ELSE Newest(stables)
  <2>1. beta \in BOOLEAN /\ (beta <=> ChannelOf(t) = "beta")
        BY <1>5 DEF DefaultUpdateBeta
  <2>2. chosen # NoVersion /\ ~UpToDate(t, chosen, beta) => Less(t, chosen)
    <3> HIDE DEF beta, chosen
    <3> QED
          BY <1>4, <2>1
  <2>3. beta <=> ResolveChannel(ChannelOf(t), "none", "none") = "beta"
        BY <1>5, <2>1
  <2>4. beta => chosen = LatestBeta(releases)
        OBVIOUS
  <2> QED
        BY <1>3, <2>2, <2>3, <2>4
<1> QED
      BY <1>2, <1>6 DEF FollowsOwnChannel

(* VersionsFollowed, for every set of versions, every list of lines and      *)
(* every set of releases: a manifest is followed to its last line, by the    *)
(* launcher and by `inka doctor`, and an update stays in its channel and     *)
(* never goes back (lib.rs:714-845, update.rs:121-199).                      *)
THEOREM VersionsAgree == RulesInit /\ [][RulesNext]_ruleVars => []VersionsFollowed
<1>1. VersionInv => VersionsFollowed
      BY ManifestFollowed, ChannelFollowed DEF VersionsFollowed
<1> QED
      BY VersionInit, VersionStep, <1>1, PTL

-----------------------------------------------------------------------------
(***************************************************************************)
(* Packaging the output of a framework, for every set of projects of one    *)
(* framework each and any number of changes, cleanings, packagings and      *)
(* failing builds.                                                          *)
(***************************************************************************)

(* What detection can say of a project: each detection under its rule.      *)
Detects(p, out, f) ==
  \/ "next" \in p.configs /\ f = Nextjs
  \/ (p.fresh = "gen" \/ "_fresh" \in out) /\ f = Fresh(p, out)
  \/ "astro" \in p.configs /\ f = Astro
  \/ "nuxt" \in p.configs /\ f = Nitro("Nuxt", out)
  \/ "svelte" \in p.configs /\ "sveltekit" \in p.deps /\ f = Sveltekit(p, out)
  \/ "remix" \in p.deps /\ f = Remix
  \/ "router" \in p.deps /\ f = ReactRouter(p)
  \/ "solid" \in p.deps /\ f = Nitro("SolidStart", out)
  \/ "tanstack" \in p.deps /\ f = Nitro("TanStackStart", out)
  \/ /\ p.configs \cap {"next", "astro", "nuxt"} = {} /\ p.fresh # "gen" /\ "_fresh" \notin out
     /\ ~("svelte" \in p.configs /\ "sveltekit" \in p.deps)
     /\ p.deps \cap {"remix", "router", "solid", "tanstack"} = {}
     /\ f = Vite(p)
  \/ p.fresh \in {"1", "2"} /\ f = Fresh(p, out)
  \/ f = NotFound

(* Detection takes the first rule that applies (framework.rs:186-243).       *)
LEMMA DetectsByRule ==
  ASSUME NEW p, NEW out PROVE Detects(p, out, DetectFramework(p, out))
<1> DEFINE rules == <<
        <<"next" \in p.configs, Nextjs>>,
        <<p.fresh = "gen" \/ "_fresh" \in out, Fresh(p, out)>>,
        <<"astro" \in p.configs, Astro>>,
        <<"nuxt" \in p.configs, Nitro("Nuxt", out)>>,
        <<"svelte" \in p.configs /\ "sveltekit" \in p.deps, Sveltekit(p, out)>>,
        <<"remix" \in p.deps, Remix>>,
        <<"router" \in p.deps, ReactRouter(p)>>,
        <<"solid" \in p.deps, Nitro("SolidStart", out)>>,
        <<"tanstack" \in p.deps, Nitro("TanStackStart", out)>>,
        <<"vite" \in p.configs \cup p.deps, Vite(p)>>,
        <<p.fresh \in {"1", "2"}, Fresh(p, out)>> >>
      at == {i \in DOMAIN rules : rules[i][1]}
      first == CHOOSE i \in at : \A j \in at : i <= j
<1>1. DetectFramework(p, out) = IF at = {} THEN NotFound ELSE rules[first][2]
      BY DEF DetectFramework
<1>2. DOMAIN rules = 1..11
      OBVIOUS
<1>3. /\ rules[1][2] = Nextjs
      /\ rules[2][2] = Fresh(p, out)
      /\ rules[3][2] = Astro
      /\ rules[4][2] = Nitro("Nuxt", out)
      /\ rules[5][2] = Sveltekit(p, out)
      /\ rules[6][2] = Remix
      /\ rules[7][2] = ReactRouter(p)
      /\ rules[8][2] = Nitro("SolidStart", out)
      /\ rules[9][2] = Nitro("TanStackStart", out)
      /\ rules[10][2] = Vite(p)
      /\ rules[11][2] = Fresh(p, out)
      OBVIOUS
<1>4. /\ rules[1][1] <=> ("next" \in p.configs)
      /\ rules[2][1] <=> (p.fresh = "gen" \/ "_fresh" \in out)
      /\ rules[3][1] <=> ("astro" \in p.configs)
      /\ rules[4][1] <=> ("nuxt" \in p.configs)
      /\ rules[5][1] <=> ("svelte" \in p.configs /\ "sveltekit" \in p.deps)
      /\ rules[6][1] <=> ("remix" \in p.deps)
      /\ rules[7][1] <=> ("router" \in p.deps)
      /\ rules[8][1] <=> ("solid" \in p.deps)
      /\ rules[9][1] <=> ("tanstack" \in p.deps)
      /\ rules[10][1] <=> ("vite" \in p.configs \cup p.deps)
      /\ rules[11][1] <=> (p.fresh \in {"1", "2"})
      OBVIOUS
<1> HIDE DEF rules
<1>5. CASE at = {}
      BY <1>1, <1>5 DEF Detects
<1>6. CASE at # {}
  <2>1. at \subseteq Nat
        BY <1>2
  <2>2. \E i \in at : \A j \in at : i <= j
        BY <1>6, <2>1, LeastNumber
  <2>3. first \in at /\ \A j \in at : first <= j
        BY <2>2
  <2>4. first \in 1..11 /\ rules[first][1]
        BY <1>2, <2>3
  <2>6. DetectFramework(p, out) = rules[first][2]
        BY <1>1, <1>6
  <2> HIDE DEF first
  <2>5. \A j \in 1..11 : j < first => ~rules[j][1]
    <3> TAKE j \in 1..11
    <3> HAVE j < first
    <3>1. j \notin at
      <4> HIDE DEF at
      <4> QED
          BY <2>3, <2>4
    <3> QED
          BY <1>2, <3>1
  <2>7. CASE first \in {1, 2, 3, 4, 5}
        BY <1>3, <1>4, <2>4, <2>6, <2>7 DEF Detects
  <2>8. CASE first \in {6, 7, 8, 9, 11}
        BY <1>3, <1>4, <2>4, <2>6, <2>8 DEF Detects
  <2>9. CASE first = 10
    <3>1. \A j \in 1..9 : ~rules[j][1]
          BY <2>5, <2>9
    <3>2. ~rules[1][1] /\ ~rules[2][1] /\ ~rules[3][1] /\ ~rules[4][1] /\ ~rules[5][1]
          BY <3>1
    <3>3. ~rules[6][1] /\ ~rules[7][1] /\ ~rules[8][1] /\ ~rules[9][1]
          BY <3>1
    <3>4. DetectFramework(p, out) = Vite(p)
          BY <1>3, <2>6, <2>9
    <3> QED
          BY <1>4, <3>2, <3>3, <3>4 DEF Detects
  <2> QED
        BY <2>4, <2>7, <2>8, <2>9
<1> QED
      BY <1>5, <1>6

(* A project of SvelteKit is of nothing else (framework.rs:186-243).         *)
LEMMA OnlyKit ==
  ASSUME OneFramework, NEW p \in Project, "svelte" \in p.configs, "sveltekit" \in p.deps
  PROVE  /\ p.configs \cap {"next", "astro", "nuxt"} = {} /\ p.fresh = "none"
         /\ p.deps \cap {"remix", "router", "solid", "tanstack"} = {}
<1>1. "sveltekit" \in Frameworks(p)
      BY DEF Frameworks
<1>2. \A f \in Frameworks(p) : f = "sveltekit"
      BY <1>1 DEF OneFramework
<1> QED
      BY <1>2 DEF Frameworks

(* And so with any other framework, which leaves no adapter.                 *)
LEMMA NoAdapter ==
  ASSUME ProjectAssumption, OneFramework, NEW p \in Project,
         ~("svelte" \in p.configs /\ "sveltekit" \in p.deps)
  PROVE  /\ p.adapter = "none"
         /\ \A f, g \in (p.configs \cap {"next", "astro", "nuxt"}) \cup (p.deps \ {"sveltekit", "vite"}) : f = g
         /\ p.fresh # "none" =>
              /\ p.configs \cap {"next", "astro", "nuxt"} = {}
              /\ p.deps \cap {"remix", "router", "solid", "tanstack"} = {}
<1>1. "sveltekit" \notin Frameworks(p)
      BY DEF Frameworks, ProjectAssumption
<1>2. p.adapter = "none"
      BY <1>1 DEF OneFramework
<1>3. /\ p.fresh # "none" => "fresh" \in Frameworks(p)
      /\ (p.configs \cap {"next", "astro", "nuxt"}) \cup (p.deps \ {"sveltekit", "vite"}) \subseteq Frameworks(p)
      BY DEF Frameworks
<1>4. \A f, g \in Frameworks(p) : f = g
      BY DEF OneFramework
<1> QED
      BY <1>2, <1>3, <1>4

(* What a detection that goes on to package says of the outputs, when they   *)
(* are those of the project's own build (framework.rs:247-546).              *)
Ships(p, out, f) ==
  f.name \notin {"none", "error", "Next.js"} =>
    /\ ~f.build => Reads(p) = {} /\ f.entry = "source" /\ f.include = {}
    /\ f.build /\ out = Writes(p) /\ f.entry \in out \cup {"source"} /\ f.include \subseteq out =>
         \A d \in Reads(p) : Covers(f.include, d)

(* SvelteKit, with any adapter (framework.rs:418-492).                       *)
LEMMA KitShips ==
  ASSUME ProjectAssumption, OneFramework, NEW p \in Project, NEW out, out \subseteq Writes(p),
         "svelte" \in p.configs, "sveltekit" \in p.deps
  PROVE  Ships(p, out, Sveltekit(p, out))
<1>1. p.deps \cap {"remix", "router", "solid", "tanstack"} = {} /\ "nuxt" \notin p.configs /\ p.fresh = "none"
      BY OnlyKit
<1>a. p.deps \cap {"remix", "router"} = {} /\ p.deps \cap {"solid", "tanstack"} = {}
      BY <1>1
<1>2. p.adapter \in {"none", "deno", "node", "nitro", "auto"} /\ p.preset \in {"ts", "mjs"}
      BY DEF ProjectAssumption
<1>3. CASE p.adapter = "deno"
  <2>1. Writes(p) = {".deno-deploy"}
        BY <1>1, <1>a, <1>3 DEF Writes
  <2>2. Sveltekit(p, out) = Kit(".deno-deploy", {".deno-deploy"})
        BY <1>3, <2>1 DEF Sveltekit, SveltekitByConfig
  <2>3. Reads(p) = {".deno-deploy"}
        BY <2>1 DEF Reads
  <2> QED
        BY <2>2, <2>3 DEF Ships, Covers, Kit, Found
<1>4. CASE p.adapter = "node"
  <2>1. Writes(p) = {"build", "build/index", "build/client"} \cup (IF p.prerenders THEN {"build/prerendered"} ELSE {})
        BY <1>1, <1>a, <1>4 DEF Writes
  <2>2. out \cap {".deno-deploy", ".output/ts", ".output/mjs"} = {}
        BY <2>1
  <2>3. CASE "build/index" \in out
    <3>1. Sveltekit(p, out) = Kit("build/index", SveltekitBuildIncludes(out))
          BY <2>2, <2>3 DEF Sveltekit
    <3> QED
          BY <2>1, <3>1 DEF Ships, Reads, Covers, Kit, Found, SveltekitBuildIncludes
  <2>4. CASE "build/index" \notin out
    <3>1. Sveltekit(p, out).build
          BY <1>4, <2>2, <2>4 DEF Sveltekit, SveltekitByConfig, Kit, Found
    <3>2. out # Writes(p)
          BY <2>1, <2>4
    <3> QED
          BY <3>1, <3>2 DEF Ships
  <2> QED
        BY <2>3, <2>4
<1>5. CASE p.adapter = "nitro"
  <2>1. Writes(p) = {".output", IF p.preset = "ts" THEN ".output/ts" ELSE ".output/mjs"}
        BY <1>1, <1>a, <1>5 DEF Writes, NitroWrites
  <2>2. ".deno-deploy" \notin out /\ "build/index" \notin out
        BY <2>1
  <2>3. PICK e \in {".output/ts", ".output/mjs"} : Sveltekit(p, out) = Kit(e, {".output"})
        BY <1>5, <2>2 DEF Sveltekit, SveltekitByConfig
  <2>4. Reads(p) = {".output"}
        BY <2>1 DEF Reads
  <2> QED
    <3>1. Sveltekit(p, out) = Found("SvelteKit", e, {".output"}, TRUE, "runtime")
          BY <2>3 DEF Kit
    <3>2. Sveltekit(p, out).include = {".output"} /\ Sveltekit(p, out).build = TRUE
          BY <3>1 DEF Found
    <3> QED
          BY <2>4, <3>2 DEF Ships, Covers
<1>6. CASE p.adapter \in {"none", "auto"}
      BY <1>1, <1>6 DEF Ships, Sveltekit, Writes, Reads, Covers, Kit, Found, SveltekitByConfig, Unbundlable
<1> QED
      BY <1>2, <1>3, <1>4, <1>5, <1>6

(* Fresh, of either version (framework.rs:270-300).                          *)
LEMMA FreshShips ==
  ASSUME ProjectAssumption, OneFramework, NEW p \in Project, NEW out, out \subseteq Writes(p),
         p.fresh # "none" \/ "_fresh" \in out
  PROVE  Ships(p, out, Fresh(p, out))
<1>1. ~("svelte" \in p.configs /\ "sveltekit" \in p.deps)
  <2> SUFFICES ASSUME "svelte" \in p.configs, "sveltekit" \in p.deps PROVE FALSE
      OBVIOUS
  <2>1. p.deps \cap {"remix", "router", "solid", "tanstack"} = {} /\ "nuxt" \notin p.configs /\ p.fresh = "none"
        BY OnlyKit
  <2> QED
        BY <2>1 DEF Writes, NitroWrites
<1>2. p.adapter = "none"
      BY <1>1, NoAdapter
<1>3. p.fresh \in {"none", "gen", "1", "2"}
      BY DEF ProjectAssumption
<1>4. p.fresh # "none"
      BY <1>2 DEF Writes, NitroWrites
<1>5. p.deps \cap {"remix", "router", "solid", "tanstack"} = {} /\ "nuxt" \notin p.configs
      BY <1>1, <1>4, NoAdapter
<1>6. Writes(p) = IF p.fresh = "2" THEN {"_fresh"} ELSE {}
      BY <1>2, <1>3, <1>4, <1>5 DEF Writes
<1> QED
      BY <1>6 DEF Ships, Fresh, IsFresh2, Reads, Covers, Found

(* Every detection (framework.rs:186-243).                                   *)
LEMMA DetectionShips ==
  ASSUME ProjectAssumption, OneFramework, NEW p \in Project, NEW out, out \subseteq Writes(p)
  PROVE  Ships(p, out, DetectFramework(p, out))
<1> DEFINE f == DetectFramework(p, out)
<1>1. Detects(p, out, f)
      BY DetectsByRule
<1>a. /\ f = Fresh(p, out) /\ (p.fresh # "none" \/ "_fresh" \in out) => Ships(p, out, f)
      /\ f = Sveltekit(p, out) /\ "svelte" \in p.configs /\ "sveltekit" \in p.deps => Ships(p, out, f)
      BY FreshShips, KitShips
<1> SUFFICES Ships(p, out, f)
    OBVIOUS
<1> HIDE DEF f
<1>2. p.fresh \in {"none", "gen", "1", "2"} /\ p.spa \in BOOLEAN
      BY DEF ProjectAssumption
<1>3. CASE f = Nextjs \/ f = NotFound
      BY <1>3 DEF Ships, Nextjs, NotFound, Found
<1>4. CASE "svelte" \in p.configs /\ "sveltekit" \in p.deps
  <2>1. p.configs \cap {"next", "astro", "nuxt"} = {} /\ p.fresh = "none"
          /\ p.deps \cap {"remix", "router", "solid", "tanstack"} = {}
        BY <1>4, OnlyKit
  <2> QED
        BY <1>1, <1>3, <1>4, <1>a, <2>1 DEF Detects
<1>5. CASE ~("svelte" \in p.configs /\ "sveltekit" \in p.deps)
  <2>1. /\ p.adapter = "none"
        /\ \A g, h \in (p.configs \cap {"next", "astro", "nuxt"}) \cup (p.deps \ {"sveltekit", "vite"}) : g = h
        /\ p.fresh # "none" =>
             /\ p.configs \cap {"next", "astro", "nuxt"} = {}
             /\ p.deps \cap {"remix", "router", "solid", "tanstack"} = {}
        BY <1>5, NoAdapter
  <2>3. CASE "astro" \in p.configs /\ f = Astro
    <3>1. Writes(p) = {"dist"}
          BY <1>2, <2>1, <2>3 DEF Writes
    <3> QED
          BY <2>3, <3>1 DEF Ships, Astro, Found, Reads, Covers
  <2>4. CASE \/ "nuxt" \in p.configs /\ f = Nitro("Nuxt", out)
             \/ "solid" \in p.deps /\ f = Nitro("SolidStart", out)
             \/ "tanstack" \in p.deps /\ f = Nitro("TanStackStart", out)
    <3>1. "nuxt" \in p.configs \/ p.deps \cap {"solid", "tanstack"} # {}
          BY <2>4
    <3>2. Writes(p) = NitroWrites(p)
          BY <2>1, <3>1 DEF Writes
    <3>3. Reads(p) = {".output"}
          BY <3>2 DEF Reads, NitroWrites
    <3>4. f.include = {".output"} /\ f.build = TRUE
      <4>1. \E n, e : f = Found(n, e, {".output"}, TRUE, "external")
            BY <2>4 DEF Nitro
      <4> QED
            BY <4>1 DEF Found
    <3> QED
          BY <3>3, <3>4 DEF Ships, Covers
  <2>5. CASE "remix" \in p.deps /\ f = Remix
    <3>1. Writes(p) = {"build", "build/client"} \cup (IF p.spa THEN {} ELSE {"build/server"})
          BY <1>2, <2>1, <2>5 DEF Writes
    <3> QED
          BY <2>5, <3>1 DEF Ships, Remix, Found, Reads, Covers
  <2>6. CASE "router" \in p.deps /\ f = ReactRouter(p)
    <3>1. Writes(p) = {"build", "build/client"} \cup (IF p.spa THEN {} ELSE {"build/server"})
          BY <1>2, <2>1, <2>6 DEF Writes
    <3> QED
          BY <1>2, <2>6, <3>1 DEF Ships, ReactRouter, Found, Reads, Covers
  <2>7. CASE /\ p.configs \cap {"next", "astro", "nuxt"} = {} /\ p.fresh # "gen" /\ "_fresh" \notin out
             /\ p.deps \cap {"remix", "router", "solid", "tanstack"} = {}
             /\ f = Vite(p)
    <3>1. Writes(p) \in {{"_fresh"}, {"dist"}, {}}
          BY <1>2, <2>1, <2>7 DEF Writes
    <3> QED
          BY <2>7, <3>1 DEF Ships, Vite, Found, Reads, Covers
  <2> QED
        BY <1>1, <1>2, <1>3, <1>5, <1>a, <2>3, <2>4, <2>5, <2>6, <2>7 DEF Detects
<1> QED
      BY <1>4, <1>5

(* After a packaging of outputs that are all the project's own, they are     *)
(* those of its build, unless it is one that is not built.                   *)
FrameworkInv ==
  /\ project \in Project /\ packagings \in 0..2
  /\ packagings # 0 /\ Leftovers = {} =>
       Writes(project) \subseteq outputs \/ ~DetectFramework(project, outputs).build
  /\ RepackagedWhole

(* Nothing is packaged at first (desktop.rs:1576-1594).                      *)
LEMMA FrameworkStarts == FrameworkInit => FrameworkInv
  BY DEF FrameworkInit, FrameworkInv, RepackagedWhole

(* Another project, cleaned outputs or a failed build begin anew.            *)
LEMMA AfreshKeeps == FrameworkInv /\ (Change \/ CleanOutputs \/ BuildFails) => FrameworkInv'
  BY DEF FrameworkInv, RepackagedWhole, Change, CleanOutputs, BuildFails

(* The build comes after the detection; the second detection is of what it   *)
(* wrote (desktop.rs:1576-1625).                                             *)
LEMMA PackageKeeps ==
  ASSUME ProjectAssumption, OneFramework, FrameworkInv, Package
  PROVE  FrameworkInv'
<1> DEFINE found == DetectFramework(project, outputs)
           goes == found.name \notin {"none", "error", "Next.js"}
           out == IF found.build THEN outputs \cup Writes(project) ELSE outputs
           whole == found.entry \in out \cup {"source"} /\ found.include \subseteq out
<1>1. /\ packagings < 2 /\ packagings' = packagings + 1 /\ project' = project /\ project \in Project
      /\ packagings \in 0..2
      BY DEF Package, FrameworkInv
<1>2. /\ ~goes => packaged' = NotPackaged /\ outputs' = outputs
      /\ goes => /\ outputs' = out
                 /\ packaged' = IF whole THEN [ok |-> TRUE, entry |-> found.entry, include |-> found.include]
                                ELSE NotPackaged
      BY DEF Package
<1>3. Detects(project, outputs, found)
      BY DetectsByRule
<1>4. ~goes => ~found.build
  <2> HIDE DEF found
  <2>1. found = Sveltekit(project, outputs) => (\E e, i : found = Kit(e, i)) \/ found = Unbundlable
        BY DEF Sveltekit, SveltekitByConfig
  <2>2. (\E e, i : found = Kit(e, i)) => goes
        BY DEF Kit, Found
  <2>3. (\E n \in {"Nuxt", "SolidStart", "TanStackStart"} : found = Nitro(n, outputs)) => goes
    <3> SUFFICES ASSUME NEW n \in {"Nuxt", "SolidStart", "TanStackStart"}, found = Nitro(n, outputs)
                 PROVE  found.name \notin {"none", "error", "Next.js"}
        OBVIOUS
    <3>1. PICK e : found = Found(n, e, {".output"}, TRUE, "external")
          BY DEF Nitro
    <3>2. found.name = n
          BY <3>1 DEF Found
    <3> QED
          BY <3>2
  <2>4. found = Fresh(project, outputs) \/ found = ReactRouter(project) => goes
    <3>1. \/ found = Fresh(project, outputs) => \E e, i, b, d : found = Found("Fresh", e, i, b, d)
          BY DEF Fresh
    <3>2. found = ReactRouter(project) => \E e, i, b, d : found = Found("ReactRouter", e, i, b, d)
          BY DEF ReactRouter
    <3>3. found = Fresh(project, outputs) => found.name = "Fresh"
          BY <3>1 DEF Found
    <3>4. found = ReactRouter(project) => found.name = "ReactRouter"
          BY <3>2 DEF Found
    <3> QED
          BY <3>3, <3>4
  <2>5. found \in {Astro, Remix, Vite(project)} => goes
        BY DEF Astro, Remix, Vite, Found
  <2>6. found \in {Nextjs, NotFound, Unbundlable} => ~found.build
        BY DEF Nextjs, NotFound, Unbundlable, Found
  <2> QED
        BY <1>3, <2>1, <2>2, <2>3, <2>4, <2>5, <2>6 DEF Detects
<1>5. CASE Leftovers' # {}
      BY <1>1, <1>5 DEF FrameworkInv, RepackagedWhole
<1>6. CASE Leftovers' = {}
  <2>1. outputs' \subseteq Writes(project) /\ outputs \subseteq outputs'
        BY <1>1, <1>2, <1>6 DEF Leftovers
  <2>2. Ships(project, outputs, found)
        BY <1>1, <2>1, DetectionShips
  <2>3. Leftovers = {}
        BY <2>1 DEF Leftovers
  <2>4. Writes(project') = Writes(project) /\ Reads(project') = Reads(project)
        BY <1>1
  <2>5. found.build /\ goes => outputs' = Writes(project)
        BY <1>2, <2>1
  <2>6. ~(found.build /\ goes) => outputs' = outputs
        BY <1>2
  <2>7. (found.build /\ goes => Writes(project) \subseteq outputs')
        BY <2>5
  <2>8. ~(found.build /\ goes) => DetectFramework(project, outputs)' = found /\ ~found.build
        BY <1>1, <1>4, <2>6
  <2>9. (Writes(project) \subseteq outputs \/ ~DetectFramework(project, outputs).build)'
        BY <1>1, <2>7, <2>8
  <2>10. RepackagedWhole'
    <3> SUFFICES ASSUME packagings' = 2, packaged'.ok
                 PROVE  /\ packaged'.entry \in Writes(project) \cup {"source"}
                        /\ \A d \in Reads(project) : Covers(packaged'.include, d)
        BY <2>4 DEF RepackagedWhole
    <3>1. goes /\ whole /\ packaged'.entry = found.entry /\ packaged'.include = found.include
          BY <1>2 DEF NotPackaged
    <3>2. packagings # 0
          BY <1>1
    <3>3. CASE ~found.build
          BY <2>2, <3>1, <3>3 DEF Ships
    <3>4. CASE found.build
      <4>1. Writes(project) \subseteq outputs
            BY <2>3, <3>2, <3>4 DEF FrameworkInv
      <4>2. outputs = Writes(project) /\ out = outputs
            BY <2>1, <4>1
      <4> HIDE DEF found
      <4> QED
            BY <2>2, <3>1, <3>4, <4>2 DEF Ships
    <3> QED
          BY <3>3, <3>4
  <2> QED
        BY <1>1, <2>9, <2>10 DEF FrameworkInv
<1> QED
      BY <1>5, <1>6

(* The second packaging in a row of a project of one framework whose build   *)
(* went through ships what its server reads, whatever builds have failed     *)
(* before (desktop.rs:1576-1625).                                            *)
THEOREM Repackages ==
  ASSUME OneFramework PROVE FrameworkInit /\ [][FrameworkNext]_frameworkVars => []RepackagedWhole
<1>1. FrameworkInv /\ [FrameworkNext]_frameworkVars => FrameworkInv'
  <2> SUFFICES ASSUME FrameworkInv, [FrameworkNext]_frameworkVars PROVE FrameworkInv'
      OBVIOUS
  <2>1. CASE Package
        BY <2>1, PackageKeeps, ProjectAssumption
  <2>2. CASE Change \/ CleanOutputs \/ BuildFails
        BY <2>2, AfreshKeeps
  <2>3. CASE UNCHANGED frameworkVars
        BY <2>3 DEF FrameworkInv, RepackagedWhole, Leftovers, frameworkVars
  <2> QED
        BY <2>1, <2>2, <2>3 DEF FrameworkNext
<1>2. FrameworkInv => RepackagedWhole
      BY DEF FrameworkInv
<1> QED
      BY FrameworkStarts, <1>1, <1>2, PTL

-----------------------------------------------------------------------------
(***************************************************************************)
(* Artifacts: how what is packed is laid out, and what the readers make of  *)
(* it, for every payload and every word size that can hold its length.      *)
(***************************************************************************)

Word == 0..(WordSize - 1)
WordAssumption == WordSize \in Nat /\ WordSize > 40

(* A cell is read as a word; a word is read as itself (lib.rs:368-394).      *)
LEMMA NumIsWord ==
  ASSUME WordAssumption, NEW c \in Int
  PROVE  Num(c) \in Word /\ Num(c) \in Nat /\ (c \in Word => Num(c) = c)
  BY DEF WordAssumption, Word, Num

(* What the markers of the footer and the archive are as words.              *)
LEMMA MarkersAsWords ==
  ASSUME WordAssumption
  PROVE  Num(ArchiveMagic) = WordSize - 5 /\ Num(FootMagic) = WordSize - 6
  BY DEF WordAssumption, Num, ArchiveMagic, FootMagic

(* A piece that is in a sequence (slices of the image).                      *)
LEMMA PieceOf ==
  ASSUME NEW S, NEW s \in Seq(S), NEW off \in Nat, NEW n \in Nat, off + n <= Len(s)
  PROVE  /\ Piece(s, off, n) \in Seq(S) /\ Len(Piece(s, off, n)) = n
         /\ \A i \in 1..n : Piece(s, off, n)[i] = s[off + i]
<1>1. \A i \in off + 1..off + n : s[i] \in S
      OBVIOUS
<1> QED
      BY <1>1, SubSeqProperties DEF Piece

(* A piece is found where it was put (slices of the image).                  *)
LEMMA PieceIs ==
  ASSUME NEW S, NEW s \in Seq(S), NEW t \in Seq(S), NEW off \in Nat, off + Len(t) <= Len(s),
         \A i \in 1..Len(t) : s[off + i] = t[i]
  PROVE  Piece(s, off, Len(t)) = t
<1>1. Len(t) \in Nat
      OBVIOUS
<1>2. /\ Piece(s, off, Len(t)) \in Seq(S) /\ Len(Piece(s, off, Len(t))) = Len(t)
      /\ \A i \in 1..Len(t) : Piece(s, off, Len(t))[i] = t[i]
      BY <1>1, PieceOf
<1> QED
      BY <1>2, SeqEqual

-----------------------------------------------------------------------------
(* The loop over the entries goes forward (lib.rs:199-215).                  *)
LEMMA EntryMoves ==
  ASSUME WordAssumption, NEW blob \in Seq(Int), NEW at \in 0..Len(blob), EntryAt(blob, at).ok
  PROVE  EntryAt(blob, at).next \in at + 1..Len(blob)
<1> DEFINE v == IsV2(blob)
           body == at + (IF v THEN 3 ELSE 2)
           path == Num(blob[at + 1])
           data == Num(blob[at + 2])
<1>1. body <= Len(blob) /\ Fits(blob, body, path + data)
      BY DEF EntryAt
<1>2. EntryAt(blob, at).next = body + path + data
      BY DEF EntryAt
<1>3. at + 1 \in 1..Len(blob) /\ at + 2 \in 1..Len(blob)
      BY <1>1
<1>4. path \in Nat /\ data \in Nat
  <2>1. blob[at + 1] \in Int /\ blob[at + 2] \in Int
        BY <1>3
  <2> QED
        BY <2>1, NumIsWord
<1>5. body + (path + data) <= Len(blob)
      BY <1>1 DEF Fits
<1> HIDE DEF path, data
<1> QED
      BY <1>2, <1>4, <1>5

(* What the loop makes of the entry at a place, with what it makes of those  *)
(* behind it (lib.rs:169-225).                                               *)
ParseStep(f, blob, at) ==
  IF at = Len(blob) THEN [ok |-> TRUE, files |-> <<>>]
  ELSE LET entry == EntryAt(blob, at)
           more == IF entry.ok THEN f[entry.next] ELSE [ok |-> FALSE]
       IN IF more.ok THEN [ok |-> TRUE, files |-> <<entry.file>> \o more.files] ELSE [ok |-> FALSE]
ParsesFrom(f, blob, m) == f = [at \in m..Len(blob) |-> ParseStep(f, blob, at)]

(* It depends on what is behind the entry only (lib.rs:199-215).             *)
LEMMA StepLooksAhead ==
  ASSUME WordAssumption, NEW blob \in Seq(Int), NEW at \in 0..Len(blob), NEW f, NEW g,
         \A i \in at + 1..Len(blob) : f[i] = g[i]
  PROVE  ParseStep(f, blob, at) = ParseStep(g, blob, at)
<1>1. EntryAt(blob, at).ok => f[EntryAt(blob, at).next] = g[EntryAt(blob, at).next]
      BY EntryMoves
<1> QED
      BY <1>1 DEF ParseStep

(* So it ends (lib.rs:169-225).                                              *)
LEMMA ParseEnds ==
  ASSUME WordAssumption, NEW blob \in Seq(Int) PROVE \E f : ParsesFrom(f, blob, 0)
<1> DEFINE L == Len(blob)
           Stuck == {k \in Nat : k <= L /\ ~\E f : ParsesFrom(f, blob, L - k)}
<1>0. L \in Nat
      OBVIOUS
<1> SUFFICES Stuck = {}
  <2>1. Stuck = {} => \E f : ParsesFrom(f, blob, L - L)
        BY <1>0
  <2> QED
        BY <1>0, <2>1
<1> SUFFICES ASSUME Stuck # {} PROVE FALSE
    OBVIOUS
<1>1. PICK k \in Stuck : \A j \in Stuck : k <= j
      BY LeastNumber
<1> HIDE DEF L
<1>2. CASE k = 0
  <2> DEFINE f == [at \in L..L |-> [ok |-> TRUE, files |-> <<>>]]
  <2>1. \A at \in L..L : ParseStep(f, blob, at) = [ok |-> TRUE, files |-> <<>>]
        BY <1>0 DEF ParseStep, L
  <2>2. ParsesFrom(f, blob, L)
        BY <2>1 DEF ParsesFrom, L
  <2>3. L - k = L
        BY <1>0, <1>2
  <2> QED
        BY <1>1, <2>2, <2>3
<1>3. CASE k # 0
  <2> DEFINE m == L - k
  <2>1. k - 1 \in Nat /\ k - 1 \notin Stuck /\ k <= L
        BY <1>1, <1>3
  <2>2. L - (k - 1) = m + 1 /\ m \in Nat /\ m < L
        BY <1>0, <1>3, <2>1
  <2>3. PICK g : ParsesFrom(g, blob, m + 1)
        BY <1>0, <2>1, <2>2
  <2> HIDE DEF m
  <2> DEFINE f == [at \in m..L |-> IF at = m THEN ParseStep(g, blob, m) ELSE g[at]]
  <2>4. \A at \in m + 1..L : f[at] = g[at] /\ g[at] = ParseStep(g, blob, at)
    <3>1. g = [at \in m + 1..L |-> ParseStep(g, blob, at)]
          BY <2>3 DEF ParsesFrom, L
    <3>2. \A at \in m + 1..L : g[at] = ParseStep(g, blob, at)
          BY <3>1
    <3>3. \A at \in m + 1..L : at \in m..L /\ at # m
          BY <1>0, <2>2
    <3> QED
          BY <3>2, <3>3
  <2>5. \A at \in m..L : ParseStep(f, blob, at) = ParseStep(g, blob, at)
    <3> TAKE at \in m..L
    <3>1. at \in 0..L /\ \A i \in at + 1..L : f[i] = g[i]
          BY <1>0, <2>2, <2>4
    <3> HIDE DEF f
    <3> QED
          BY <3>1, StepLooksAhead DEF L
  <2>6. \A at \in m..L : f[at] = ParseStep(f, blob, at)
    <3> TAKE at \in m..L
    <3>1. CASE at = m
          BY <2>5, <3>1
    <3>2. CASE at # m
      <4>1. at \in m + 1..L
            BY <1>0, <2>2, <3>2
      <4> HIDE DEF f
      <4> QED
            BY <2>4, <2>5, <4>1
    <3> QED
          BY <3>1, <3>2
  <2>7. f = [at \in m..L |-> f[at]]
        OBVIOUS
  <2> HIDE DEF f
  <2>8. ParsesFrom(f, blob, m)
        BY <2>6, <2>7 DEF ParsesFrom, L
  <2> QED
        BY <1>1, <2>8 DEF m
<1> QED
      BY <1>2, <1>3

(* What an archive is parsed as is what the loop makes of it.                *)
LEMMA ArchiveParsed ==
  ASSUME WordAssumption, NEW blob \in Seq(Int)
  PROVE  \E f : /\ \A at \in 0..Len(blob) : f[at] = ParseStep(f, blob, at)
                /\ ParseArchive(blob) = f[IF IsV2(blob) THEN 1 ELSE 0]
<1> DEFINE f == CHOOSE f : ParsesFrom(f, blob, 0)
<1>1. ParsesFrom(f, blob, 0)
      BY ParseEnds
<1>2. ParseArchive(blob) = f[IF IsV2(blob) THEN 1 ELSE 0]
      BY DEF ParseArchive, ParsesFrom, ParseStep
<1> HIDE DEF f
<1>3. \A at \in 0..Len(blob) : f[at] = ParseStep(f, blob, at)
      BY <1>1 DEF ParsesFrom
<1> QED
      BY <1>2, <1>3

(* How entries are put one after the other (the loop of encode_archive).     *)
Flattens(f, seqs, n) == f = [i \in 1..n |-> IF i = 1 THEN seqs[i] ELSE f[i - 1] \o seqs[i]]

(* Every entry gets its turn (lib.rs:237-251).                               *)
LEMMA FlattenEnds == ASSUME NEW seqs, NEW n \in Nat PROVE \E f : Flattens(f, seqs, n)
<1> DEFINE Stuck == {k \in Nat : ~\E f : Flattens(f, seqs, k)}
<1> SUFFICES ASSUME Stuck # {} PROVE FALSE
    OBVIOUS
<1>1. PICK k \in Stuck : \A j \in Stuck : k <= j
      BY LeastNumber
<1>2. k # 0
  <2>1. Flattens([i \in 1..0 |-> <<>>], seqs, 0)
        BY DEF Flattens
  <2> QED
        BY <2>1
<1>3. k - 1 \in Nat /\ k - 1 \notin Stuck
      BY <1>1, <1>2
<1>4. PICK g : Flattens(g, seqs, k - 1)
      BY <1>3
<1> DEFINE f == [i \in 1..k |-> IF i < k THEN g[i] ELSE IF k = 1 THEN seqs[k] ELSE g[k - 1] \o seqs[k]]
<1>5. \A i \in 1..(k - 1) : g[i] = IF i = 1 THEN seqs[i] ELSE g[i - 1] \o seqs[i]
      BY <1>4 DEF Flattens
<1>6. \A i \in 1..k : f[i] = IF i = 1 THEN seqs[i] ELSE f[i - 1] \o seqs[i]
  <2> TAKE i \in 1..k
  <2>1. CASE i = k
        BY <1>2, <1>3, <2>1, k - 1 < k
  <2>2. CASE i # k
    <3>1. i \in 1..(k - 1) /\ f[i] = g[i] /\ (i # 1 => f[i - 1] = g[i - 1])
          BY <1>3, <2>2
    <3> HIDE DEF f
    <3> QED
          BY <1>5, <3>1
  <2> QED
        BY <2>1, <2>2
<1>7. Flattens(f, seqs, k)
      BY <1>6 DEF Flattens
<1> QED
      BY <1>1, <1>7

(* Two sequences, one after the other.                                       *)
LEMMA OneAfterOther ==
  ASSUME NEW S, NEW s \in Seq(S), NEW t \in Seq(S)
  PROVE  /\ s \o t \in Seq(S) /\ Len(s \o t) = Len(s) + Len(t)
         /\ \A i \in 1..Len(s) : (s \o t)[i] = s[i]
         /\ \A j \in 1..Len(t) : (s \o t)[Len(s) + j] = t[j]
<1>1. Len(s) \in Nat /\ Len(t) \in Nat
      OBVIOUS
<1>2. \A j \in 1..Len(t) : Len(s) + j \in 1..Len(s) + Len(t) /\ ~(Len(s) + j <= Len(s)) /\ Len(s) + j - Len(s) = j
      BY <1>1
<1>3. \A i \in 1..Len(s) : i \in 1..Len(s) + Len(t) /\ i <= Len(s)
      BY <1>1
<1> QED
      BY <1>2, <1>3, ConcatProperties

(* Where they come to lie (lib.rs:237-251).                                  *)
LEMMA FlattenPlaces ==
  ASSUME NEW S, NEW seqs \in Seq(Seq(S)), seqs # <<>>
  PROVE  /\ FlattenSeq(seqs) \in Seq(S)
         /\ \E at \in [0..Len(seqs) -> Nat] :
              /\ at[0] = 0 /\ at[Len(seqs)] = Len(FlattenSeq(seqs))
              /\ \A k \in 1..Len(seqs) :
                   /\ at[k] = at[k - 1] + Len(seqs[k]) /\ at[k] <= Len(FlattenSeq(seqs))
                   /\ \A j \in 1..Len(seqs[k]) : FlattenSeq(seqs)[at[k - 1] + j] = seqs[k][j]
<1> DEFINE n == Len(seqs)
           f == CHOOSE f : Flattens(f, seqs, n)
<1>0. n \in Nat /\ n # 0 /\ \A k \in 1..n : seqs[k] \in Seq(S)
      OBVIOUS
<1>1. Flattens(f, seqs, n)
      BY <1>0, FlattenEnds
<1>2. FlattenSeq(seqs) = f[n]
      BY <1>0 DEF FlattenSeq, Flattens
<1> HIDE DEF f, n
<1> DEFINE at == [k \in 0..n |-> IF k = 0 THEN 0 ELSE Len(f[k])]
           Laid(k) == /\ f[k] \in Seq(S)
                      /\ \A h \in 1..k :
                           /\ at[h] \in Nat /\ at[h - 1] \in Nat
                           /\ at[h] = at[h - 1] + Len(seqs[h]) /\ at[h] <= Len(f[k])
                           /\ \A j \in 1..Len(seqs[h]) : f[k][at[h - 1] + j] = seqs[h][j]
           Wrong == {k \in Nat : k \in 1..n /\ ~Laid(k)}
<1> HIDE DEF Laid
<1>3. \A k \in 1..n : f[k] = IF k = 1 THEN seqs[k] ELSE f[k - 1] \o seqs[k]
      BY <1>1 DEF Flattens
<1>4. Wrong = {}
  <2> SUFFICES ASSUME Wrong # {} PROVE FALSE
      OBVIOUS
  <2>1. PICK k \in Wrong : \A j \in Wrong : k <= j
        BY LeastNumber
  <2>2. k \in 1..n /\ k \in Nat /\ ~Laid(k)
        BY <2>1
  <2>3. CASE k = 1
    <3>1. f[1] = seqs[1] /\ seqs[1] \in Seq(S)
          BY <1>0, <1>3, <2>2, <2>3
    <3>2. at[0] = 0 /\ at[1] = Len(seqs[1]) /\ Len(seqs[1]) \in Nat
          BY <1>0, <2>2, <2>3, <3>1
    <3>3. \A j \in 1..Len(seqs[1]) : f[1][0 + j] = seqs[1][j]
          BY <3>1
    <3>4. \A h \in 1..1 : h = 1 /\ h - 1 = 0
          OBVIOUS
    <3> HIDE DEF at
    <3>5. Laid(1)
          BY <3>1, <3>2, <3>3, <3>4 DEF Laid
    <3> QED
          BY <2>2, <2>3, <3>5
  <2>4. CASE k # 1
    <3>1. k - 1 \in 1..n /\ k - 1 \in Nat /\ ~(k <= k - 1)
          BY <1>0, <2>2, <2>4
    <3>2. Laid(k - 1)
          BY <2>1, <3>1
    <3> DEFINE before == f[k - 1]
               this == seqs[k]
    <3>3. f[k] = before \o this
          BY <1>3, <2>2, <2>4
    <3>4. this \in Seq(S) /\ Len(this) \in Nat
          BY <1>0, <2>2
    <3>5. before \in Seq(S) /\ Len(before) \in Nat
          BY <3>2 DEF Laid
    <3> HIDE DEF before, this
    <3>6. /\ f[k] \in Seq(S) /\ Len(f[k]) = Len(before) + Len(this)
          /\ \A i \in 1..Len(before) : f[k][i] = before[i]
          /\ \A j \in 1..Len(this) : f[k][Len(before) + j] = this[j]
          BY <3>3, <3>4, <3>5, OneAfterOther
    <3>7. at[k] = Len(f[k]) /\ at[k - 1] = Len(before)
          BY <1>0, <2>2, <3>1 DEF before
    <3> HIDE DEF at
    <3>8. ASSUME NEW h \in 1..k
          PROVE  /\ at[h] \in Nat /\ at[h - 1] \in Nat
                 /\ at[h] = at[h - 1] + Len(seqs[h]) /\ at[h] <= Len(f[k])
                 /\ \A j \in 1..Len(seqs[h]) : f[k][at[h - 1] + j] = seqs[h][j]
      <4>1. CASE h = k
        <5>1. at[k] \in Nat /\ at[k - 1] \in Nat /\ at[k] = at[k - 1] + Len(this) /\ at[k] <= Len(f[k])
              BY <3>4, <3>5, <3>6, <3>7
        <5>2. \A j \in 1..Len(this) : f[k][at[k - 1] + j] = this[j]
              BY <3>6, <3>7
        <5> QED
              BY <4>1, <5>1, <5>2 DEF this
      <4>2. CASE h # k
        <5>1. h \in 1..(k - 1) /\ h \in 1..n
              BY <1>0, <2>2, <4>2
        <5>2. /\ at[h] \in Nat /\ at[h - 1] \in Nat
              /\ at[h] = at[h - 1] + Len(seqs[h]) /\ at[h] <= Len(before)
              /\ \A j \in 1..Len(seqs[h]) : before[at[h - 1] + j] = seqs[h][j]
              BY <3>2, <5>1 DEF Laid, before
        <5>3. Len(seqs[h]) \in Nat
              BY <1>0, <5>1
        <5>4. ASSUME NEW j \in 1..Len(seqs[h]) PROVE f[k][at[h - 1] + j] = seqs[h][j]
          <6>1. at[h - 1] + j \in 1..Len(before)
                BY <3>5, <5>2, <5>3
          <6> QED
                BY <3>6, <5>2, <6>1
        <5>5. at[h] <= Len(f[k])
              BY <3>4, <3>5, <3>6, <5>2
        <5> QED
              BY <5>2, <5>4, <5>5
      <4> QED
            BY <4>1, <4>2
    <3>9. Laid(k)
          BY <3>6, <3>8 DEF Laid
    <3> QED
          BY <2>2, <3>9
  <2> QED
        BY <2>3, <2>4
<1>5. Laid(n)
  <2>1. n \in 1..n
        BY <1>0
  <2> QED
        BY <1>0, <1>4, <2>1
<1>6. at[0] = 0 /\ at[n] = Len(f[n])
      BY <1>0
<1>7. at \in [0..n -> Nat]
  <2>1. at[0] \in Nat
        BY <1>6
  <2>2. \A h \in 1..n : at[h] \in Nat
        BY <1>5 DEF Laid
  <2>3. \A h \in 0..n : at[h] \in Nat
        BY <1>0, <2>1, <2>2
  <2>4. at = [h \in 0..n |-> at[h]]
        OBVIOUS
  <2> HIDE DEF at
  <2> QED
        BY <2>3, <2>4
<1> HIDE DEF at
<1> QED
      BY <1>2, <1>5, <1>6, <1>7 DEF n, Laid

Packable == [path : {1, 2}, data : Seq(Int), exec : {0, 1}]
EntryOf(v, item) == IF v = 2 THEN EncodeEntry(item) ELSE EncodeEntryV1(item)
ArchiveOf(v, items) == IF v = 2 THEN EncodeArchive(items) ELSE EncodeArchiveV1(items)
VersionOf(blob) == IF IsV2(blob) THEN 2 ELSE 1

(* The fields of an entry, and behind them the file (lib.rs:237-263).        *)
LEMMA EntryCells ==
  ASSUME NEW S, Nat \subseteq S, NEW item \in Packable, item.data \in Seq(S), NEW v \in {1, 2}
  PROVE  /\ EntryOf(v, item) \in Seq(S) /\ Len(item.data) \in Nat
         /\ Len(EntryOf(v, item)) = v + 2 + Len(item.data)
         /\ EntryOf(v, item)[1] = 1 /\ EntryOf(v, item)[2] = Len(item.data)
         /\ v = 2 => EntryOf(v, item)[3] = item.exec
         /\ EntryOf(v, item)[v + 2] = item.path
         /\ \A j \in 1..Len(item.data) : EntryOf(v, item)[v + 2 + j] = item.data[j]
<1> DEFINE d == item.data
           new == <<1, Len(d), item.exec, item.path>>
           old == <<1, Len(d), item.path>>
<1>1. d \in Seq(S) /\ Len(d) \in Nat /\ item.exec \in Nat /\ item.path \in Nat
      BY DEF Packable
<1>2. new \in Seq(S) /\ Len(new) = 4 /\ old \in Seq(S) /\ Len(old) = 3
      BY <1>1
<1>3. new[1] = 1 /\ new[2] = Len(d) /\ new[3] = item.exec /\ new[4] = item.path
      OBVIOUS
<1>4. old[1] = 1 /\ old[2] = Len(d) /\ old[3] = item.path
      OBVIOUS
<1>5. EntryOf(v, item) = IF v = 2 THEN new \o d ELSE old \o d
      BY DEF EntryOf, EncodeEntry, EncodeEntryV1
<1> HIDE DEF new, old, d
<1>6. CASE v = 2
  <2>a. /\ new \o d \in Seq(S) /\ Len(new \o d) = Len(new) + Len(d)
        /\ \A i \in 1..Len(new) : (new \o d)[i] = new[i]
        /\ \A j \in 1..Len(d) : (new \o d)[Len(new) + j] = d[j]
    <3>1. new \in Seq(S) /\ d \in Seq(S)
          BY <1>1, <1>2
    <3> QED
          BY <3>1, OneAfterOther
  <2>1. /\ new \o d \in Seq(S) /\ Len(new \o d) = 4 + Len(d)
        /\ \A i \in 1..4 : (new \o d)[i] = new[i]
        /\ \A j \in 1..Len(d) : (new \o d)[4 + j] = d[j]
        BY <1>2, <2>a
  <2> QED
        BY <1>1, <1>3, <1>5, <1>6, <2>1 DEF d
<1>7. CASE v = 1
  <2>a. /\ old \o d \in Seq(S) /\ Len(old \o d) = Len(old) + Len(d)
        /\ \A i \in 1..Len(old) : (old \o d)[i] = old[i]
        /\ \A j \in 1..Len(d) : (old \o d)[Len(old) + j] = d[j]
    <3>1. old \in Seq(S) /\ d \in Seq(S)
          BY <1>1, <1>2
    <3> QED
          BY <3>1, OneAfterOther
  <2>1. /\ old \o d \in Seq(S) /\ Len(old \o d) = 3 + Len(d)
        /\ \A i \in 1..3 : (old \o d)[i] = old[i]
        /\ \A j \in 1..Len(d) : (old \o d)[3 + j] = d[j]
        BY <1>2, <2>a
  <2> QED
        BY <1>1, <1>4, <1>5, <1>7, <2>1 DEF d
<1> QED
      BY <1>6, <1>7

(* An entry is found where it was written (lib.rs:199-215).                  *)
LEMMA EntryThere ==
  ASSUME WordAssumption, NEW blob \in Seq(Int), Len(blob) < WordSize,
         NEW at \in Nat, NEW item \in Packable, IsV2(blob) \/ item.exec = 0,
         at + Len(EntryOf(VersionOf(blob), item)) <= Len(blob),
         \A j \in 1..Len(EntryOf(VersionOf(blob), item)) : blob[at + j] = EntryOf(VersionOf(blob), item)[j]
  PROVE  EntryAt(blob, at) = [ok |-> TRUE, next |-> at + Len(EntryOf(VersionOf(blob), item)), file |-> item]
<1> DEFINE v == VersionOf(blob)
           h == v + 2
           e == EntryOf(v, item)
           d == item.data
<1>0. /\ v \in {1, 2} /\ (v = 2 <=> IsV2(blob)) /\ d \in Seq(Int) /\ item.path \in {1, 2} /\ item.exec \in {0, 1}
      /\ Len(blob) \in Nat /\ h = v + 2
      BY DEF VersionOf, Packable
<1> HIDE DEF v, h
<1>1. /\ Len(d) \in Nat /\ Len(e) = h + Len(d) /\ e[1] = 1 /\ e[2] = Len(d)
      /\ v = 2 => e[3] = item.exec
      /\ e[h] = item.path /\ \A j \in 1..Len(d) : e[h + j] = d[j]
  <2>1. Nat \subseteq Int /\ item.data \in Seq(Int) /\ v \in {1, 2}
        BY <1>0
  <2> HIDE DEF e, d
  <2> QED
    <3>1. /\ Len(item.data) \in Nat
          /\ Len(EntryOf(v, item)) = v + 2 + Len(item.data)
          /\ EntryOf(v, item)[1] = 1 /\ EntryOf(v, item)[2] = Len(item.data)
          /\ v = 2 => EntryOf(v, item)[3] = item.exec
          /\ EntryOf(v, item)[v + 2] = item.path
          /\ \A j \in 1..Len(item.data) : EntryOf(v, item)[v + 2 + j] = item.data[j]
          BY <2>1, EntryCells
    <3> QED
          BY <1>0, <3>1 DEF e, d
<1>a. at + Len(e) <= Len(blob) /\ (\A j \in 1..Len(e) : blob[at + j] = e[j]) /\ (v = 2 \/ item.exec = 0)
      BY <1>0 DEF v
<1> HIDE DEF e, d
<1>2. /\ at + h + Len(d) <= Len(blob) /\ h \in {3, 4}
      /\ h \in 1..Len(e) /\ 1 \in 1..Len(e) /\ 2 \in 1..Len(e) /\ 3 \in 1..Len(e)
  <2>1. Len(d) \in Nat /\ Len(e) = h + Len(d) /\ at + Len(e) <= Len(blob) /\ h \in {3, 4}
            /\ Len(blob) \in Nat /\ at \in Nat
        BY <1>0, <1>1, <1>a
  <2> HIDE DEF d
  <2> QED
        BY <2>1
<1>3. /\ blob[at + 1] = 1 /\ blob[at + 2] = Len(d) /\ (v = 2 => blob[at + 3] = item.exec)
      /\ blob[at + h] = item.path
      BY <1>1, <1>2, <1>a
<1>4. \A j \in 1..Len(d) : blob[at + h + j] = d[j]
  <2> TAKE j \in 1..Len(d)
  <2>1. h + j \in 1..Len(e) /\ at + h + j = at + (h + j)
        BY <1>1, <1>2
  <2>2. blob[at + (h + j)] = e[h + j]
        BY <1>a, <2>1
  <2> QED
        BY <1>1, <2>1, <2>2
<1> DEFINE body == at + h - 1
<1>5. body = at + (IF v = 2 THEN 3 ELSE 2) /\ body \in Nat /\ body + 1 = at + h
      BY <1>0, <1>2
<1>6. Num(blob[at + 1]) = 1 /\ Num(blob[at + 2]) = Len(d)
  <2>1. 1 \in Word /\ Len(d) \in Word /\ 1 \in Int /\ Len(d) \in Int
        BY <1>0, <1>1, <1>2 DEF Word, WordAssumption
  <2> QED
        BY <1>3, <2>1, NumIsWord
<1> HIDE DEF body
<1>7. body + (1 + Len(d)) = at + Len(e) /\ body + 1 + Len(d) = at + Len(e) /\ body \in Nat
  <2>1. Len(d) \in Nat /\ Len(e) = h + Len(d) /\ h \in Nat
        BY <1>1, <1>2
  <2>2. body \in Nat /\ at \in Nat /\ body + 1 = at + h
        BY <1>5
  <2> HIDE DEF d, e
  <2> QED
    <3>1. \A b, a, g, x \in Nat : b + 1 = a + g => b + (1 + x) = a + (g + x) /\ b + 1 + x = a + (g + x)
          OBVIOUS
    <3>2. at + Len(e) = at + (h + Len(d))
          BY <2>1
    <3>3. body + (1 + Len(d)) = at + (h + Len(d)) /\ body + 1 + Len(d) = at + (h + Len(d))
          BY <2>1, <2>2, <3>1
    <3> QED
          BY <2>2, <3>2, <3>3
<1>8. Fits(blob, body, 1 + Len(d)) /\ body <= Len(blob)
  <2>1. body \in Nat /\ Len(d) \in Nat /\ Len(blob) \in Nat /\ body + (1 + Len(d)) <= Len(blob)
        BY <1>0, <1>1, <1>a, <1>7
  <2> QED
        BY <2>1 DEF Fits, WordAssumption
<1>9. ValidPath(Piece(blob, body, 1))
  <2>1. body + 1 <= Len(blob) /\ 1 \in Nat /\ 1 \in 1..1
        BY <1>0, <1>1, <1>a, <1>7
  <2>2. /\ Len(Piece(blob, body, 1)) = 1
        /\ \A i \in 1..1 : Piece(blob, body, 1)[i] = blob[body + i]
    <3>1. \A n \in Nat : body + n <= Len(blob) =>
             /\ Len(Piece(blob, body, n)) = n
             /\ \A i \in 1..n : Piece(blob, body, n)[i] = blob[body + i]
      <4>1. body \in Nat
            BY <1>7
      <4> QED
            BY <4>1, PieceOf
    <3> QED
          BY <2>1, <3>1
  <2>3. Piece(blob, body, 1)[1] = item.path
        BY <1>3, <1>5, <2>1, <2>2
  <2> QED
        BY <1>0, <2>2, <2>3 DEF ValidPath
<1>10. Piece(blob, body + 1, Len(d)) = d
  <2>1. body + 1 \in Nat /\ body + 1 + Len(d) <= Len(blob)
        BY <1>0, <1>1, <1>a, <1>7
  <2>2. \A j \in 1..Len(d) : blob[body + 1 + j] = d[j]
        BY <1>4, <1>5
  <2> QED
        BY <1>0, <2>1, <2>2, PieceIs
<1>11. item = [path |-> item.path, data |-> d, exec |-> item.exec]
      BY DEF Packable, d
<1>12. (IF IsV2(blob) THEN blob[at + 3] ELSE 0) = item.exec /\ body = at + (IF IsV2(blob) THEN 3 ELSE 2)
      BY <1>0, <1>3, <1>5, <1>a
<1>13. blob[body + 1] = item.path
      BY <1>3, <1>5
<1>14. EntryAt(blob, at) =
         [ok |-> TRUE, next |-> body + 1 + Len(d),
          file |-> [path |-> blob[body + 1], data |-> Piece(blob, body + 1, Len(d)), exec |-> item.exec]]
  <2> DEFINE x == IF IsV2(blob) THEN blob[at + 3] ELSE 0
             b == at + (IF IsV2(blob) THEN 3 ELSE 2)
             path == Num(blob[at + 1])
             data == Num(blob[at + 2])
  <2>1. EntryAt(blob, at) =
          IF /\ b <= Len(blob) /\ path # 0 /\ x \in {0, 1}
             /\ Fits(blob, b, path + data) /\ ValidPath(Piece(blob, b, path))
          THEN [ok |-> TRUE, next |-> b + path + data,
                file |-> [path |-> blob[b + 1], data |-> Piece(blob, b + path, data), exec |-> x]]
          ELSE [ok |-> FALSE]
        BY DEF EntryAt
  <2>2. x = item.exec /\ b = body /\ path = 1 /\ data = Len(d)
        BY <1>6, <1>12
  <2> HIDE DEF x, b, path, data
  <2>3. body <= Len(blob) /\ 1 # 0 /\ item.exec \in {0, 1}
        BY <1>0, <1>8
  <2> QED
        BY <1>8, <1>9, <2>1, <2>2, <2>3
<1> QED
      BY <1>7, <1>10, <1>11, <1>13, <1>14 DEF e, v

(* An archive of cells of a set, as it begins, and the ends of its entries.  *)
ArchiveHead(S, v, whole) ==
  /\ whole \in Seq(S) /\ VersionOf(whole) = v /\ Len(whole) >= 3
  /\ whole[1] = (IF v = 2 THEN ArchiveMagic ELSE 1)
  /\ v = 2 => whole[2] = 1
EntryEnds(v, items, whole, at) ==
  /\ at \in [0..Len(items) -> Nat] /\ at[0] = v - 1 /\ at[Len(items)] = Len(whole)
  /\ \A k \in 1..Len(items) :
       /\ at[k] = at[k - 1] + Len(EntryOf(v, items[k])) /\ at[k] <= Len(whole)
       /\ \A j \in 1..Len(EntryOf(v, items[k])) : whole[at[k - 1] + j] = EntryOf(v, items[k])[j]

(* The archive is its mark, if it has one, and the entries (lib.rs:237-263). *)
LEMMA ArchiveLaid ==
  ASSUME NEW S, Nat \subseteq S, ArchiveMagic \in S, NEW v \in {1, 2},
         NEW items \in Seq(Packable), items # <<>>, \A i \in 1..Len(items) : items[i].data \in Seq(S)
  PROVE  /\ ArchiveHead(S, v, ArchiveOf(v, items))
         /\ \E at : EntryEnds(v, items, ArchiveOf(v, items), at)
<1> DEFINE n == Len(items)
           es == [i \in DOMAIN items |-> EntryOf(v, items[i])]
           body == FlattenSeq(es)
           whole == ArchiveOf(v, items)
<1>1. n \in Nat /\ n # 0 /\ DOMAIN items = 1..n /\ \A i \in 1..n : items[i] \in Packable /\ items[i].data \in Seq(S)
      OBVIOUS
<1>2. \A i \in 1..n : /\ EntryOf(v, items[i]) \in Seq(S) /\ Len(EntryOf(v, items[i])) \in Nat
                      /\ Len(EntryOf(v, items[i])) >= 3 /\ EntryOf(v, items[i])[1] = 1
  <2> TAKE i \in 1..n
  <2>1. items[i] \in Packable /\ items[i].data \in Seq(S)
        BY <1>1
  <2>2. /\ EntryOf(v, items[i]) \in Seq(S) /\ Len(items[i].data) \in Nat
        /\ Len(EntryOf(v, items[i])) = v + 2 + Len(items[i].data) /\ EntryOf(v, items[i])[1] = 1
        BY <2>1, EntryCells
  <2>3. \A x \in Nat : v + 2 + x \in Nat /\ v + 2 + x >= 3
        OBVIOUS
  <2> QED
        BY <2>2, <2>3
<1>3. es \in Seq(Seq(S)) /\ Len(es) = n /\ es # <<>> /\ \A k \in 1..n : es[k] = EntryOf(v, items[k])
  <2>1. es \in [1..n -> Seq(S)]
        BY <1>1, <1>2
  <2>2. es \in Seq(Seq(S)) /\ Len(es) = n
        BY <1>1, <2>1
  <2> QED
        BY <1>1, <2>2
<1>4. whole = IF v = 2 THEN <<ArchiveMagic>> \o body ELSE body
      BY DEF ArchiveOf, EncodeArchive, EncodeArchiveV1, EntryOf
<1> HIDE DEF es, body, whole, n
<1>5. body \in Seq(S)
      BY <1>3, FlattenPlaces DEF body
<1>6. PICK at \in [0..n -> Nat] :
        /\ at[0] = 0 /\ at[n] = Len(body)
        /\ \A k \in 1..n :
             /\ at[k] = at[k - 1] + Len(es[k]) /\ at[k] <= Len(body)
             /\ \A j \in 1..Len(es[k]) : body[at[k - 1] + j] = es[k][j]
  <2>1. \E at \in [0..Len(es) -> Nat] :
          /\ at[0] = 0 /\ at[Len(es)] = Len(body)
          /\ \A k \in 1..Len(es) :
               /\ at[k] = at[k - 1] + Len(es[k]) /\ at[k] <= Len(body)
               /\ \A j \in 1..Len(es[k]) : body[at[k - 1] + j] = es[k][j]
    <3>1. es \in Seq(Seq(S)) /\ es # <<>>
          BY <1>3
    <3>2. \E at \in [0..Len(es) -> Nat] :
            /\ at[0] = 0 /\ at[Len(es)] = Len(FlattenSeq(es))
            /\ \A k \in 1..Len(es) :
                 /\ at[k] = at[k - 1] + Len(es[k]) /\ at[k] <= Len(FlattenSeq(es))
                 /\ \A j \in 1..Len(es[k]) : FlattenSeq(es)[at[k - 1] + j] = es[k][j]
          BY <3>1, FlattenPlaces
    <3> QED
          BY <3>2 DEF body
  <2> QED
        BY <1>3, <2>1
<1>7. /\ whole \in Seq(S) /\ Len(whole) = v - 1 + Len(body) /\ Len(body) \in Nat
      /\ \A i \in 1..Len(body) : whole[v - 1 + i] = body[i]
      /\ v = 2 => whole[1] = ArchiveMagic
  <2>1. CASE v = 1
        BY <1>4, <1>5, <2>1
  <2>2. CASE v = 2
    <3>1. <<ArchiveMagic>> \in Seq(S) /\ Len(<<ArchiveMagic>>) = 1 /\ <<ArchiveMagic>>[1] = ArchiveMagic
          OBVIOUS
    <3> DEFINE mark == <<ArchiveMagic>>
    <3> HIDE DEF mark
    <3>2. /\ mark \o body \in Seq(S) /\ Len(mark \o body) = Len(mark) + Len(body)
          /\ \A i \in 1..Len(mark) : (mark \o body)[i] = mark[i]
          /\ \A j \in 1..Len(body) : (mark \o body)[Len(mark) + j] = body[j]
          BY <1>5, <3>1, OneAfterOther DEF mark
    <3>3. Len(mark) = 1 /\ mark[1] = ArchiveMagic /\ whole = mark \o body
          BY <1>4, <2>2, <3>1 DEF mark
    <3>4. Len(body) \in Nat
          BY <1>5
    <3> QED
          BY <2>2, <3>2, <3>3, <3>4
  <2> QED
        BY <2>1, <2>2
<1>8. body[1] = 1 /\ Len(body) >= 3
  <2>1. 1 \in 1..n /\ 1 \in 1..Len(es[1]) /\ Len(es[1]) >= 3 /\ es[1][1] = 1 /\ Len(es[1]) \in Nat
        BY <1>1, <1>2, <1>3 DEF n
  <2>2. at[1] = at[0] + Len(es[1]) /\ at[1] <= Len(body) /\ body[at[0] + 1] = es[1][1]
        BY <1>6, <2>1
  <2> QED
        BY <1>6, <1>7, <2>1, <2>2
<1>9. whole[1] = (IF v = 2 THEN ArchiveMagic ELSE 1) /\ (v = 2 => whole[2] = 1) /\ Len(whole) >= 3 /\ whole # <<>>
  <2>1. 1 \in 1..Len(body)
        BY <1>7, <1>8
  <2>2. whole[v - 1 + 1] = 1
        BY <1>7, <1>8, <2>1
  <2>3. Len(whole) >= 3
        BY <1>7, <1>8
  <2> QED
        BY <1>7, <2>2, <2>3
<1>10. VersionOf(whole) = v
       BY <1>9 DEF VersionOf, IsV2, ArchiveMagic
<1> DEFINE to == [k \in 0..n |-> v - 1 + at[k]]
<1>11. /\ to \in [0..n -> Nat] /\ to[0] = v - 1 /\ to[n] = Len(whole)
       BY <1>1, <1>6, <1>7 DEF n
<1>12. ASSUME NEW k \in 1..n
       PROVE  /\ to[k] = to[k - 1] + Len(EntryOf(v, items[k])) /\ to[k] <= Len(whole)
              /\ \A j \in 1..Len(EntryOf(v, items[k])) : whole[to[k - 1] + j] = EntryOf(v, items[k])[j]
  <2> DEFINE e == EntryOf(v, items[k])
             p == at[k - 1]
             q == at[k]
  <2>0. es[k] = e
        BY <1>3
  <2>1. q = p + Len(e) /\ q <= Len(body) /\ \A j \in 1..Len(e) : body[p + j] = e[j]
        BY <1>6, <2>0
  <2>2. k - 1 \in 0..n /\ k \in 0..n /\ n \in Nat
        BY <1>1 DEF n
  <2>3. q \in Nat /\ p \in Nat /\ to[k] = v - 1 + q /\ to[k - 1] = v - 1 + p
        BY <1>6, <2>2
  <2>4. Len(e) \in Nat
        BY <1>2, <1>3
  <2> HIDE DEF to, p, q, e
  <2>5. ASSUME NEW j \in 1..Len(e) PROVE whole[to[k - 1] + j] = e[j]
    <3>1. p + j \in 1..Len(body)
          BY <1>7, <2>1, <2>3, <2>4
    <3>2. v - 1 + (p + j) = v - 1 + p + j
          BY <2>3, <2>4
    <3> QED
          BY <1>7, <2>1, <2>3, <3>1, <3>2
  <2>6. v - 1 + q = v - 1 + p + Len(e) /\ v - 1 + q <= v - 1 + Len(body)
        BY <1>7, <2>1, <2>3, <2>4
  <2>7. to[k] = to[k - 1] + Len(e) /\ to[k] <= Len(whole)
        BY <1>7, <2>3, <2>6
  <2> QED
        BY <2>5, <2>7 DEF e
<1> HIDE DEF to
<1>13. ArchiveHead(S, v, whole)
       BY <1>7, <1>9, <1>10 DEF ArchiveHead
<1>14. EntryEnds(v, items, whole, to)
       BY <1>11, <1>12 DEF EntryEnds, n
<1> QED
      BY <1>13, <1>14 DEF whole

(* What was put into an archive is read back: all files, in order, and       *)
(* nothing more (lib.rs:169-263).                                            *)
LEMMA ArchiveReadsBack ==
  ASSUME WordAssumption, NEW v \in {1, 2}, NEW items \in Seq(Packable), items # <<>>,
         v = 1 => \A i \in 1..Len(items) : items[i].exec = 0,
         Len(ArchiveOf(v, items)) < WordSize
  PROVE  /\ ArchiveOf(v, items) \in Seq(Int)
         /\ ParseArchive(ArchiveOf(v, items)) = [ok |-> TRUE, files |-> items]
<1> DEFINE n == Len(items)
           blob == ArchiveOf(v, items)
<1>1. n \in Nat /\ n # 0 /\ \A i \in 1..n : items[i] \in Packable /\ items[i].data \in Seq(Int)
  <2>1. n \in Nat /\ n # 0 /\ \A i \in 1..n : items[i] \in Packable
        OBVIOUS
  <2>2. \A f \in Packable : f.data \in Seq(Int)
        BY DEF Packable
  <2> QED
        BY <2>1, <2>2
<1>a. Nat \subseteq Int /\ ArchiveMagic \in Int
      BY DEF ArchiveMagic
<1>b. ArchiveHead(Int, v, blob) /\ \E at : EntryEnds(v, items, blob, at)
  <2>1. \A i \in 1..Len(items) : items[i].data \in Seq(Int)
        BY <1>1
  <2> HIDE DEF n
  <2> QED
        BY <1>a, <2>1, ArchiveLaid
<1>2. blob \in Seq(Int) /\ VersionOf(blob) = v /\ Len(blob) < WordSize
      BY <1>b DEF ArchiveHead
<1> HIDE DEF blob
<1>c. PICK at : EntryEnds(v, items, blob, at)
      BY <1>b
<1>3. /\ at \in [0..n -> Nat] /\ at[0] = v - 1 /\ at[n] = Len(blob)
      /\ \A k \in 1..n :
           /\ at[k] = at[k - 1] + Len(EntryOf(v, items[k])) /\ at[k] <= Len(blob)
           /\ \A j \in 1..Len(EntryOf(v, items[k])) : blob[at[k - 1] + j] = EntryOf(v, items[k])[j]
      BY <1>c DEF EntryEnds
<1> HIDE DEF n
<1>4. PICK f : /\ \A i \in 0..Len(blob) : f[i] = ParseStep(f, blob, i)
               /\ ParseArchive(blob) = f[IF IsV2(blob) THEN 1 ELSE 0]
      BY <1>2, ArchiveParsed
<1>5. ParseArchive(blob) = f[v - 1]
      BY <1>2, <1>4 DEF VersionOf
<1> DEFINE Right(k) == f[at[k]] = [ok |-> TRUE, files |-> SubSeq(items, k + 1, n)]
           Wrong == {k \in Nat : k <= n /\ ~Right(n - k)}
<1> HIDE DEF Right
<1>6. Wrong = {}
  <2> SUFFICES ASSUME Wrong # {} PROVE FALSE
      OBVIOUS
  <2>1. PICK k \in Wrong : \A j \in Wrong : k <= j
        BY LeastNumber
  <2>2. k \in Nat /\ k <= n /\ ~Right(n - k)
        BY <2>1
  <2>3. CASE k = 0
    <3>1. n - k = n /\ n + 1 > n
          BY <1>1, <2>3 DEF n
    <3>2. SubSeq(items, n + 1, n) = <<>>
          BY <1>1, <3>1, SubSeqEmpty DEF n
    <3>3. at[n] = Len(blob) /\ Len(blob) \in 0..Len(blob)
          BY <1>2, <1>3
    <3>4. f[at[n]] = [ok |-> TRUE, files |-> <<>>]
          BY <1>4, <3>3 DEF ParseStep
    <3> QED
          BY <2>2, <3>1, <3>2, <3>4 DEF Right
  <2>4. CASE k # 0
    <3> DEFINE m == n - k
    <3>1. k - 1 \in Nat /\ k - 1 <= n /\ n - (k - 1) = m + 1 /\ ~(k <= k - 1)
          BY <1>1, <2>2, <2>4 DEF n
    <3>2. Right(m + 1)
      <4>1. k - 1 \notin Wrong
            BY <2>1, <3>1
      <4> QED
            BY <3>1, <4>1
    <3>3. m \in 0..n /\ m + 1 \in 1..n /\ m + 1 - 1 = m /\ m + 1 + 1 = m + 2 /\ n \in Nat
          BY <1>1, <2>2, <2>4 DEF n
    <3> HIDE DEF m
    <3> DEFINE item == items[m + 1]
               e == EntryOf(v, item)
    <3>4. item \in Packable /\ (v = 1 => item.exec = 0)
          BY <1>1, <3>3 DEF n
    <3> DEFINE p == at[m]
               q == at[m + 1]
    <3>5. q = p + Len(e) /\ q <= Len(blob) /\ \A j \in 1..Len(e) : blob[p + j] = e[j]
      <4> DEFINE i == m + 1
      <4>1. i \in 1..n /\ i - 1 = m
            BY <3>3
      <4> HIDE DEF i
      <4>2. /\ at[i] = at[i - 1] + Len(EntryOf(v, items[i])) /\ at[i] <= Len(blob)
            /\ \A j \in 1..Len(EntryOf(v, items[i])) : blob[at[i - 1] + j] = EntryOf(v, items[i])[j]
            BY <1>3, <4>1
      <4> QED
            BY <4>1, <4>2 DEF i
    <3>6. p \in Nat /\ q \in Nat
      <4>1. m + 1 \in 0..n
            BY <3>3
      <4> QED
            BY <1>3, <3>3, <4>1
    <3>7. Len(e) \in Nat /\ Len(e) >= 3
      <4>1. item.data \in Seq(Int) /\ Len(item.data) \in Nat
            BY <3>4 DEF Packable
      <4>2. Len(e) = v + 2 + Len(item.data)
            BY <1>a, <3>4, <4>1, EntryCells
      <4>3. \A x \in Nat : v + 2 + x \in Nat /\ v + 2 + x >= 3
            OBVIOUS
      <4> QED
            BY <4>1, <4>2, <4>3
    <3> HIDE DEF item, e, p, q
    <3>8. EntryAt(blob, p) = [ok |-> TRUE, next |-> q, file |-> item]
      <4>1. IsV2(blob) \/ item.exec = 0
            BY <1>2, <3>4 DEF VersionOf
      <4>2. p + Len(e) <= Len(blob)
            BY <3>5
      <4> QED
            BY <1>2, <3>4, <3>5, <3>6, <4>1, <4>2, EntryThere DEF e
    <3>9. p \in 0..Len(blob) /\ p # Len(blob)
          BY <1>2, <3>5, <3>6, <3>7
    <3>10. f[p] = ParseStep(f, blob, p)
           BY <1>4, <3>9
    <3>11. f[q] = [ok |-> TRUE, files |-> SubSeq(items, m + 2, n)]
           BY <3>2, <3>3 DEF Right, q
    <3>12. f[p] = [ok |-> TRUE, files |-> <<item>> \o SubSeq(items, m + 2, n)]
      <4>1. EntryAt(blob, p).ok /\ EntryAt(blob, p).next = q /\ EntryAt(blob, p).file = item
            BY <3>8
      <4>2. f[q].ok /\ f[q].files = SubSeq(items, m + 2, n)
        <5> DEFINE g == [ok |-> TRUE, files |-> SubSeq(items, m + 2, n)]
        <5>1. g.ok /\ g.files = SubSeq(items, m + 2, n)
              OBVIOUS
        <5> QED
              BY <3>11, <5>1
      <4>3. ParseStep(f, blob, p) = [ok |-> TRUE, files |-> <<EntryAt(blob, p).file>> \o f[EntryAt(blob, p).next].files]
            BY <3>9, <4>1, <4>2 DEF ParseStep
      <4> QED
            BY <3>10, <4>1, <4>2, <4>3
    <3>13. SubSeq(items, m + 1, n) = <<item>> \o SubSeq(items, m + 2, n)
      <4>1. m + 1 \in 1..Len(items) /\ n \in m + 1..Len(items)
            BY <3>3 DEF n
      <4> QED
            BY <3>3, <4>1, SubSeqRecursiveFirst DEF item
    <3>14. Right(m)
           BY <3>12, <3>13 DEF Right, p
    <3> QED
          BY <2>2, <3>14 DEF m
  <2> QED
        BY <2>3, <2>4
<1>7. Right(0)
  <2>1. n \in Nat /\ n <= n /\ n - n = 0
        BY <1>1
  <2> QED
        BY <1>6, <2>1
<1>8. SubSeq(items, 1, n) = items
      BY SubSeqFull DEF n
<1>9. at[0] = v - 1 /\ 0 + 1 = 1
      BY <1>3
<1>10. ParseArchive(blob) = [ok |-> TRUE, files |-> items]
       BY <1>5, <1>7, <1>8, <1>9 DEF Right
<1> QED
      BY <1>2, <1>10 DEF blob

Packaged(p) == p.manifest \in Seq(Int) /\ p.files \in Seq(Packable) /\ p.files # <<>>

(* The section's content is the manifest with its length, and the archive    *)
(* (build.rs:345-352).                                                       *)
LEMMA SectionLaid ==
  ASSUME NEW m \in Seq(Int), NEW a \in Seq(Int), NEW d, d = <<Len(m)>> \o m \o a
  PROVE  /\ d \in Seq(Int) /\ Len(d) = 1 + Len(m) + Len(a) /\ d[1] = Len(m)
         /\ \A j \in 1..Len(m) : d[1 + j] = m[j]
         /\ \A j \in 1..Len(a) : d[1 + Len(m) + j] = a[j]
<1> DEFINE s == <<Len(m)>>
           t == s \o m
<1>1. s \in Seq(Int) /\ Len(s) = 1 /\ s[1] = Len(m) /\ Len(m) \in Nat /\ Len(a) \in Nat
      OBVIOUS
<1> HIDE DEF s
<1>2. /\ t \in Seq(Int) /\ Len(t) = 1 + Len(m) /\ t[1] = Len(m)
      /\ \A j \in 1..Len(m) : t[1 + j] = m[j]
  <2>1. /\ t \in Seq(Int) /\ Len(t) = Len(s) + Len(m)
        /\ \A i \in 1..Len(s) : t[i] = s[i]
        /\ \A j \in 1..Len(m) : t[Len(s) + j] = m[j]
    <3>1. s \in Seq(Int) /\ m \in Seq(Int)
          BY <1>1
    <3> QED
          BY <3>1, OneAfterOther
  <2> HIDE DEF t
  <2> QED
        BY <1>1, <2>1
<1> HIDE DEF t
<1>3. /\ t \o a \in Seq(Int) /\ Len(t \o a) = Len(t) + Len(a)
      /\ \A i \in 1..Len(t) : (t \o a)[i] = t[i]
      /\ \A j \in 1..Len(a) : (t \o a)[Len(t) + j] = a[j]
  <2>1. t \in Seq(Int) /\ a \in Seq(Int)
        BY <1>2
  <2> QED
        BY <2>1, OneAfterOther
<1>4. d = t \o a
      BY DEF s, t
<1>5. \A j \in 1..Len(m) : 1 + j \in 1..Len(t)
      BY <1>1, <1>2
<1>6. 1 \in 1..Len(t)
      BY <1>1, <1>2
<1> QED
      BY <1>1, <1>2, <1>3, <1>4, <1>5, <1>6

(* The section gives back what was packed (payload.rs, lib.rs:169-225).      *)
LEMMA SectionReadsBack ==
  ASSUME WordAssumption, NEW p, Packaged(p), NEW d, d = EncodeSectionPayload(p), Len(d) < WordSize
  PROVE  ReadSectionPayload(d) = Read(p.files, p.manifest)
<1> DEFINE m == p.manifest
           a == EncodeArchive(p.files)
<1>1. m \in Seq(Int) /\ Len(m) \in Nat /\ a = ArchiveOf(2, p.files) /\ p.files \in Seq(Packable) /\ p.files # <<>>
      BY DEF Packaged, ArchiveOf
<1>2. a \in Seq(Int) /\ Len(a) \in Nat
  <2>1. \A i \in 1..Len(p.files) : p.files[i].data \in Seq(Int)
    <3>1. \A i \in 1..Len(p.files) : p.files[i] \in Packable
          BY <1>1
    <3> QED
          BY <3>1 DEF Packable
  <2>2. Nat \subseteq Int /\ ArchiveMagic \in Int /\ 2 \in {1, 2}
        BY DEF ArchiveMagic
  <2>3. ArchiveHead(Int, 2, a)
        BY <1>1, <2>1, <2>2, ArchiveLaid
  <2> HIDE DEF a
  <2>4. a \in Seq(Int)
        BY <2>3 DEF ArchiveHead
  <2> QED
        BY <2>4
<1>3. d = <<Len(m)>> \o m \o a
      BY DEF EncodeSectionPayload
<1> HIDE DEF m, a
<1>4. /\ d \in Seq(Int) /\ Len(d) = 1 + Len(m) + Len(a) /\ d[1] = Len(m)
      /\ \A j \in 1..Len(m) : d[1 + j] = m[j]
      /\ \A j \in 1..Len(a) : d[1 + Len(m) + j] = a[j]
      BY <1>1, <1>2, <1>3, SectionLaid
<1>5. Num(d[1]) = Len(m)
  <2>1. Len(m) \in Word /\ Len(m) \in Int
        BY <1>1, <1>2, <1>4 DEF Word, WordAssumption
  <2> QED
        BY <1>4, <2>1, NumIsWord
<1>6. Piece(d, 1, Len(m)) = m
  <2>1. 1 + Len(m) <= Len(d) /\ 1 \in Nat
        BY <1>1, <1>2, <1>4
  <2> QED
        BY <1>1, <1>4, <2>1, PieceIs
<1>7. Rest(d, 1 + Len(m)) = a
  <2>1. 1 + Len(m) + Len(a) <= Len(d) /\ 1 + Len(m) \in Nat
        BY <1>1, <1>2, <1>4
  <2>2. Piece(d, 1 + Len(m), Len(a)) = a
        BY <1>2, <1>4, <2>1, PieceIs
  <2> QED
        BY <1>4, <2>2 DEF Rest, Piece
<1>8. Fits(d, 1, Len(m)) /\ d # <<>>
  <2>1. Len(d) # 0 /\ 1 + Len(m) <= Len(d) /\ 1 + Len(m) < WordSize
        BY <1>1, <1>2, <1>4 DEF WordAssumption
  <2> QED
        BY <2>1 DEF Fits
<1>9. ParseArchive(a) = [ok |-> TRUE, files |-> p.files]
  <2>1. Len(a) < WordSize /\ 2 \in {1, 2} /\ ~(2 = 1)
        BY <1>1, <1>2, <1>4 DEF WordAssumption
  <2> QED
        BY <1>1, <2>1, ArchiveReadsBack
<1>10. ParseArchive(a).ok /\ ParseArchive(a).files = p.files
       BY <1>9
<1>11. Decoded(a, m) = Read(p.files, m)
       BY <1>10 DEF Decoded
<1> QED
       BY <1>5, <1>6, <1>7, <1>8, <1>11 DEF ReadSectionPayload, m

-----------------------------------------------------------------------------
(* The footer is in the last three cells (lib.rs:280-294).                   *)
LEMMA FootIs ==
  ASSUME NEW im \in Seq(Int), NEW n \in Nat, n = Len(im), n >= 3
  PROVE  \A i \in 1..3 : Rest(im, n - 3)[i] = im[n - 3 + i] /\ im[n - 3 + i] \in Int
<1>1. n - 3 \in Nat /\ n - 3 + 3 = n
      OBVIOUS
<1>2. \A i \in 1..3 : Piece(im, n - 3, 3)[i] = im[n - 3 + i]
  <2> DEFINE b == n - 3
  <2>1. b \in Nat /\ b + 3 <= Len(im)
        BY <1>1
  <2> HIDE DEF b
  <2>2. \A l \in Nat : b + l <= Len(im) => \A i \in 1..l : Piece(im, b, l)[i] = im[b + i]
        BY <2>1, PieceOf
  <2> QED
        BY <2>1, <2>2 DEF b
<1>3. Rest(im, n - 3) = Piece(im, n - 3, 3)
      BY <1>1 DEF Rest, Piece
<1>4. \A i \in 1..3 : n - 3 + i \in 1..Len(im)
      OBVIOUS
<1>5. \A i \in 1..3 : im[n - 3 + i] \in Int
      BY <1>4
<1> QED
      BY <1>2, <1>3, <1>5

(* Whatever the content, a reader ends by reading or refusing it.            *)
LEMMA DecodedEnds ==
  ASSUME NEW a, NEW m PROVE Decoded(a, m) # Crashed /\ Decoded(a, m) # Endless
  BY DEF Decoded, Read, Refused, Crashed, Endless

(* So does the reader of a section (lib.rs:290-307).                         *)
LEMMA SectionEnds ==
  ASSUME NEW s PROVE ReadSectionPayload(s) # Crashed /\ ReadSectionPayload(s) # Endless
  BY DecodedEnds DEF ReadSectionPayload, Refused, Crashed, Endless

(* No footer makes the reader slice what is not there (lib.rs:287-291,       *)
(* payload.rs): the lengths are compared first.                              *)
LEMMA TrailerEnds ==
  ASSUME WordAssumption, NEW im \in Seq(Int)
  PROVE  ReadTrailer(im) # Crashed /\ ReadTrailer(im) # Endless
<1> DEFINE n == Len(im)
           l == ReadLayout(im)
<1> SUFFICES ASSUME l.ok PROVE ~(n - 3 - l.manifest - l.archive < 0)
      BY DecodedEnds DEF ReadTrailer, Refused, Crashed, Endless
<1>1. n \in Nat /\ n >= 3
      BY DEF ReadLayout
<1> DEFINE a == Num(Rest(im, n - 3)[2])
           m == Num(Rest(im, n - 3)[3])
<1>2. a \in Nat /\ m \in Nat
  <2>1. Rest(im, n - 3)[2] \in Int /\ Rest(im, n - 3)[3] \in Int
        BY <1>1, FootIs
  <2> QED
        BY <2>1, NumIsWord
<1>3. a + m + 3 <= n /\ l.archive = a /\ l.manifest = m
  <2>1. ~(a + m + 3 > n) /\ l.archive = a /\ l.manifest = m
        BY DEF ReadLayout
  <2> HIDE DEF a, m, l
  <2> QED
        BY <1>1, <1>2, <2>1
<1> HIDE DEF a, m, l, n
<1> QED
      BY <1>1, <1>2, <1>3

(* Without the footer's mark in its place, or with lengths that are not      *)
(* there, nothing is read (lib.rs:280-294).                                  *)
LEMMA NoFoot ==
  ASSUME WordAssumption, NEW im \in Seq(Int), NEW n \in Nat, n = Len(im),
         n >= 3 => im[n - 2] # FootMagic \/ Num(im[n - 1]) + Num(im[n]) + 3 > n
  PROVE  ReadTrailer(im) = Refused
<1>1. CASE n < 3
  <2>1. ~ReadLayout(im).ok
        BY <1>1 DEF ReadLayout
  <2> QED
        BY <2>1 DEF ReadTrailer
<1>2. CASE n >= 3
  <2> DEFINE foot == Rest(im, n - 3)
  <2>1. foot[1] = im[n - 2] /\ foot[2] = im[n - 1] /\ foot[3] = im[n]
    <3>1. n - 3 + 1 = n - 2 /\ n - 3 + 2 = n - 1 /\ n - 3 + 3 = n
          OBVIOUS
    <3>2. \A i \in 1..3 : foot[i] = im[n - 3 + i]
          BY <1>2, FootIs
    <3> HIDE DEF foot
    <3> QED
          BY <3>1, <3>2
  <2> HIDE DEF foot
  <2>2. foot[1] # FootMagic \/ Num(foot[2]) + Num(foot[3]) + 3 > n
        BY <1>2, <2>1
  <2>3. ~ReadLayout(im).ok
        BY <2>2 DEF ReadLayout, foot
  <2> QED
        BY <2>3 DEF ReadTrailer
<1> QED
      BY <1>1, <1>2

(* The launcher's cells (what a linker writes).                              *)
LEMMA BareCells ==
  /\ BareLauncher \in Seq(Int \ {FootMagic, SectionName}) /\ BareLauncher \in Seq(Int) /\ Len(BareLauncher) = 15
  /\ BareLauncher[1] = Elf /\ BareLauncher[2] = 2 /\ BareLauncher[3] = LoadSegment
  /\ BareLauncher[7] = NoteSegment /\ BareLauncher[8] = 12 /\ BareLauncher[9] = 3 /\ BareLauncher[10] = 1
  /\ BareLauncher[13] = Gnu /\ BareLauncher[14] = 1 /\ BareLauncher[15] = 7
<1> DEFINE S == Int \ {FootMagic, SectionName}
           h == <<Elf, 2, LoadSegment, 10, 2, 8, NoteSegment, 12, 3, 1, Code, Sentinel>>
           g == <<Gnu, Len(<<7>>)>>
           x == <<7>>
           t == g \o x
<1>1. h \in Seq(S) /\ Len(h) = 12
      BY DEF Elf, LoadSegment, NoteSegment, Code, Sentinel, FootMagic, SectionName
<1>2. /\ h[1] = Elf /\ h[2] = 2 /\ h[3] = LoadSegment
      /\ h[7] = NoteSegment /\ h[8] = 12 /\ h[9] = 3 /\ h[10] = 1
      OBVIOUS
<1>3. g \in Seq(S) /\ Len(g) = 2 /\ g[1] = Gnu /\ g[2] = 1
      BY DEF Gnu, FootMagic, SectionName
<1>4. x \in Seq(S) /\ Len(x) = 1 /\ x[1] = 7
      BY DEF FootMagic, SectionName
<1>5. BareLauncher = h \o t
      BY DEF BareLauncher, Note
<1> HIDE DEF h, g, x, S
<1>6. t \in Seq(S) /\ Len(t) = 3 /\ t[1] = Gnu /\ t[2] = 1 /\ t[3] = 7
  <2>1. /\ t \in Seq(S) /\ Len(t) = Len(g) + Len(x)
        /\ \A i \in 1..Len(g) : t[i] = g[i]
        /\ \A j \in 1..Len(x) : t[Len(g) + j] = x[j]
    <3>1. g \in Seq(S) /\ x \in Seq(S)
          BY <1>3, <1>4
    <3> QED
          BY <3>1, OneAfterOther
  <2> HIDE DEF t
  <2> QED
        BY <1>3, <1>4, <2>1
<1> HIDE DEF t
<1>7. /\ h \o t \in Seq(S) /\ Len(h \o t) = Len(h) + Len(t)
      /\ \A i \in 1..Len(h) : (h \o t)[i] = h[i]
      /\ \A j \in 1..Len(t) : (h \o t)[Len(h) + j] = t[j]
  <2>1. h \in Seq(S) /\ t \in Seq(S)
        BY <1>1, <1>6
  <2> QED
        BY <2>1, OneAfterOther
<1>8. BareLauncher \in Seq(S) /\ BareLauncher \in Seq(Int)
  <2>1. BareLauncher \in Seq(S) /\ S \subseteq Int
        BY <1>5, <1>7 DEF S
  <2> QED
        BY <2>1, SeqMonotonic
<1>9. /\ Len(BareLauncher) = 15
      /\ \A i \in 1..12 : BareLauncher[i] = h[i]
      /\ \A j \in 1..3 : BareLauncher[12 + j] = t[j]
  <2>1. Len(h) = 12 /\ Len(t) = 3
        BY <1>1, <1>6
  <2>2. \A i \in 1..12 : (h \o t)[i] = h[i]
        BY <1>7, <2>1
  <2>3. \A j \in 1..3 : (h \o t)[12 + j] = t[j]
        BY <1>7, <2>1
  <2>4. Len(h \o t) = 15
        BY <1>7, <2>1
  <2> QED
        BY <1>5, <2>2, <2>3, <2>4
<1>10. /\ BareLauncher[1] = Elf /\ BareLauncher[2] = 2 /\ BareLauncher[3] = LoadSegment
       /\ BareLauncher[7] = NoteSegment /\ BareLauncher[8] = 12 /\ BareLauncher[9] = 3 /\ BareLauncher[10] = 1
       BY <1>2, <1>9
<1>11. BareLauncher[13] = Gnu /\ BareLauncher[14] = 1 /\ BareLauncher[15] = 7
  <2>1. BareLauncher[12 + 1] = t[1] /\ BareLauncher[12 + 2] = t[2] /\ BareLauncher[12 + 3] = t[3]
        BY <1>9
  <2> QED
        BY <1>6, <2>1
<1>12. BareLauncher \in Seq(Int \ {FootMagic, SectionName}) /\ BareLauncher \in Seq(Int) /\ Len(BareLauncher) = 15
       BY <1>8, <1>9 DEF S
<1> QED
      BY <1>10, <1>11, <1>12

TrailerParts(im, a, m) ==
  /\ im \in Seq(Int) /\ Len(im) = 18 + Len(a) + Len(m)
  /\ \A i \in 1..15 : im[i] = BareLauncher[i]
  /\ \A j \in 1..Len(a) : im[15 + j] = a[j]
  /\ \A j \in 1..Len(m) : im[15 + Len(a) + j] = m[j]
  /\ im[16 + Len(a) + Len(m)] = FootMagic
  /\ im[17 + Len(a) + Len(m)] = Len(a) /\ im[18 + Len(a) + Len(m)] = Len(m)

(* The older form: the launcher, the archive, the manifest and the footer    *)
(* (build.rs, payload.rs, lib.rs:264-279).                                   *)
LEMMA TrailerLaid ==
  ASSUME NEW a \in Seq(Int), NEW m \in Seq(Int), NEW im, im = WithTrailer(a, m)
  PROVE  TrailerParts(im, a, m)
<1> DEFINE b == BareLauncher
           f == EncodeFooter(Len(a), Len(m))
           s == b \o a
           t == s \o m
           la == Len(a)
           lm == Len(m)
<1>1. b \in Seq(Int) /\ Len(b) = 15 /\ la \in Nat /\ lm \in Nat
      BY BareCells
<1>2. f \in Seq(Int) /\ Len(f) = 3 /\ f[1] = FootMagic /\ f[2] = la /\ f[3] = lm
      BY <1>1 DEF EncodeFooter, FootMagic
<1>3. im = t \o f
      BY DEF WithTrailer
<1> HIDE DEF b, f
<1>4. /\ s \in Seq(Int) /\ Len(s) = Len(b) + Len(a)
      /\ \A i \in 1..Len(b) : s[i] = b[i]
      /\ \A j \in 1..Len(a) : s[Len(b) + j] = a[j]
  <2>1. b \in Seq(Int)
        BY <1>1
  <2> QED
        BY <2>1, OneAfterOther
<1>5. /\ s \in Seq(Int) /\ Len(s) = 15 + la
      /\ \A i \in 1..15 : s[i] = b[i]
      /\ \A j \in 1..la : s[15 + j] = a[j]
  <2> HIDE DEF s
  <2> QED
        BY <1>1, <1>4
<1> HIDE DEF s
<1>6. /\ t \in Seq(Int) /\ Len(t) = Len(s) + Len(m)
      /\ \A i \in 1..Len(s) : t[i] = s[i]
      /\ \A j \in 1..Len(m) : t[Len(s) + j] = m[j]
  <2>1. s \in Seq(Int)
        BY <1>5
  <2> QED
        BY <2>1, OneAfterOther
<1> HIDE DEF t, la, lm
<1>7. /\ t \in Seq(Int) /\ Len(t) = 15 + la + lm
      /\ \A i \in 1..15 : t[i] = b[i]
      /\ \A j \in 1..la : t[15 + j] = a[j]
      /\ \A j \in 1..lm : t[15 + la + j] = m[j]
  <2>0. Len(s) = 15 + la /\ la \in Nat
        BY <1>1, <1>5
  <2>1. \A i \in 1..15 : i \in 1..Len(s)
        BY <2>0
  <2>2. \A j \in 1..la : 15 + j \in 1..Len(s)
        BY <2>0
  <2> QED
        BY <1>1, <1>5, <1>6, <2>1, <2>2 DEF lm
<1>8. /\ t \o f \in Seq(Int) /\ Len(t \o f) = Len(t) + Len(f)
      /\ \A i \in 1..Len(t) : (t \o f)[i] = t[i]
      /\ \A j \in 1..Len(f) : (t \o f)[Len(t) + j] = f[j]
  <2>1. t \in Seq(Int) /\ f \in Seq(Int)
        BY <1>2, <1>7
  <2> QED
        BY <2>1, OneAfterOther
<1>9. /\ im \in Seq(Int) /\ Len(im) = 15 + la + lm + 3
      /\ \A i \in 1..15 + la + lm : im[i] = t[i]
      /\ \A j \in 1..3 : im[15 + la + lm + j] = f[j]
      BY <1>1, <1>2, <1>3, <1>7, <1>8
<1>10. /\ \A i \in 1..15 : im[i] = b[i]
       /\ \A j \in 1..la : im[15 + j] = a[j]
       /\ \A j \in 1..lm : im[15 + la + j] = m[j]
  <2>1. /\ \A i \in 1..15 : i \in 1..15 + la + lm
        /\ \A j \in 1..la : 15 + j \in 1..15 + la + lm
        /\ \A j \in 1..lm : 15 + la + j \in 1..15 + la + lm
        BY <1>1
  <2> QED
        BY <1>7, <1>9, <2>1
<1>11. /\ 15 + la + lm + 1 = 16 + la + lm /\ 15 + la + lm + 2 = 17 + la + lm
       /\ 15 + la + lm + 3 = 18 + la + lm
       BY <1>1
<1>12. im[16 + la + lm] = FootMagic /\ im[17 + la + lm] = la /\ im[18 + la + lm] = lm
       BY <1>2, <1>9, <1>11
<1> QED
       BY <1>9, <1>10, <1>11, <1>12 DEF la, lm, b, TrailerParts

(* The older form gives back what was packed (lib.rs:169-225, 280-294).      *)
LEMMA TrailerReadsBack ==
  ASSUME WordAssumption, NEW p, Packaged(p), NEW v \in {1, 2},
         v = 1 => \A i \in 1..Len(p.files) : p.files[i].exec = 0,
         NEW im, im = WithTrailer(ArchiveOf(v, p.files), p.manifest), Len(im) < WordSize
  PROVE  ReadTrailer(im) = Read(p.files, p.manifest)
<1> DEFINE m == p.manifest
           a == ArchiveOf(v, p.files)
           la == Len(a)
           lm == Len(m)
           n == Len(im)
<1>1. m \in Seq(Int) /\ lm \in Nat /\ p.files \in Seq(Packable) /\ p.files # <<>>
      BY DEF Packaged
<1>2. a \in Seq(Int) /\ la \in Nat
  <2>1. \A i \in 1..Len(p.files) : p.files[i].data \in Seq(Int)
    <3>1. \A i \in 1..Len(p.files) : p.files[i] \in Packable
          BY <1>1
    <3> QED
          BY <3>1 DEF Packable
  <2>2. Nat \subseteq Int /\ ArchiveMagic \in Int
        BY DEF ArchiveMagic
  <2>3. ArchiveHead(Int, v, a)
        BY <1>1, <2>1, <2>2, ArchiveLaid
  <2> HIDE DEF a
  <2>4. a \in Seq(Int)
        BY <2>3 DEF ArchiveHead
  <2> QED
        BY <2>4
<1> HIDE DEF m, a
<1>3. /\ im \in Seq(Int) /\ Len(im) = 18 + Len(a) + Len(m)
      /\ \A i \in 1..15 : im[i] = BareLauncher[i]
      /\ \A j \in 1..Len(a) : im[15 + j] = a[j]
      /\ \A j \in 1..Len(m) : im[15 + Len(a) + j] = m[j]
      /\ im[16 + Len(a) + Len(m)] = FootMagic
      /\ im[17 + Len(a) + Len(m)] = Len(a) /\ im[18 + Len(a) + Len(m)] = Len(m)
  <2>1. im = WithTrailer(a, m)
        BY DEF a, m
  <2>2. m \in Seq(Int) /\ a \in Seq(Int)
        BY <1>1, <1>2
  <2> HIDE DEF la, lm, n
  <2> QED
    <3>1. TrailerParts(im, a, m)
          BY <2>1, <2>2, TrailerLaid
    <3> QED
          BY <3>1 DEF TrailerParts
<1> HIDE DEF la, lm, n
<1>4. /\ n \in Nat /\ n = 18 + la + lm /\ n < WordSize
      /\ im[16 + la + lm] = FootMagic /\ im[17 + la + lm] = la /\ im[18 + la + lm] = lm
      BY <1>1, <1>2, <1>3 DEF la, lm, n
<1>5. /\ n - 3 + 1 = 16 + la + lm /\ n - 3 + 2 = 17 + la + lm /\ n - 3 + 3 = 18 + la + lm /\ n >= 3
  <2>1. la \in Nat /\ lm \in Nat /\ n = 18 + la + lm
        BY <1>1, <1>2, <1>4
  <2> QED
        BY <2>1
<1> DEFINE foot == Rest(im, n - 3)
<1>6. foot[1] = FootMagic /\ foot[2] = la /\ foot[3] = lm
  <2>1. \A i \in 1..3 : Rest(im, n - 3)[i] = im[n - 3 + i]
        BY <1>3, <1>4, <1>5, FootIs DEF n
  <2> HIDE DEF foot
  <2> QED
        BY <1>4, <1>5, <2>1 DEF foot
<1> HIDE DEF foot
<1>7. Num(la) = la /\ Num(lm) = lm
  <2>0. WordSize \in Nat /\ la \in Nat /\ lm \in Nat /\ 18 + la + lm < WordSize
        BY <1>1, <1>2, <1>4 DEF WordAssumption
  <2>1. la \in Word /\ lm \in Word /\ la \in Int /\ lm \in Int
        BY <2>0 DEF Word
  <2> QED
        BY <2>1, NumIsWord
<1>8. ReadLayout(im) = [ok |-> TRUE, archive |-> la, manifest |-> lm]
  <2>1. ~(n < 3) /\ ~(la + lm + 3 > n)
        BY <1>1, <1>2, <1>4
  <2> QED
        BY <1>6, <1>7, <2>1 DEF ReadLayout, foot, n
<1>9. n - 3 - lm = 15 + la /\ 15 + la - la = 15 /\ ~(15 < 0)
      BY <1>1, <1>2, <1>4
<1>10. ReadTrailer(im) = Decoded(Piece(im, 15, la), Piece(im, 15 + la, lm))
  <2> DEFINE l == ReadLayout(im)
  <2>1. l.ok /\ l.archive = la /\ l.manifest = lm
        BY <1>8
  <2> HIDE DEF l
  <2>2. n - 3 - l.manifest = 15 + la /\ n - 3 - l.manifest - l.archive = 15
    <3>1. l.manifest = lm /\ l.archive = la
          BY <2>1
    <3>2. n - 3 - l.manifest = 15 + la
          BY <1>9, <3>1
    <3>3. n - 3 - l.manifest - l.archive = 15 + la - la
      <4>1. n - 3 - l.manifest - l.archive = n - 3 - lm - la
            BY <3>1
      <4>2. n \in Nat /\ la \in Nat /\ lm \in Nat
            BY <1>1, <1>2, <1>4 DEF la
      <4> QED
            BY <1>9, <4>1, <4>2
    <3> QED
          BY <1>9, <3>2, <3>3
  <2> QED
        BY <2>1, <2>2 DEF ReadTrailer, l, n
<1>11. Piece(im, 15, la) = a
  <2>1. 15 + Len(a) <= Len(im) /\ 15 \in Nat
        BY <1>1, <1>2, <1>4 DEF n, la
  <2> QED
        BY <1>2, <1>3, <2>1, PieceIs DEF la
<1>12. Piece(im, 15 + la, lm) = m
  <2>1. 15 + la + Len(m) <= Len(im) /\ 15 + la \in Nat
        BY <1>1, <1>2, <1>4 DEF n, lm
  <2> QED
    <3>1. \A j \in 1..Len(m) : im[15 + la + j] = m[j]
          BY <1>3 DEF la
    <3>2. m \in Seq(Int) /\ im \in Seq(Int)
          BY <1>1, <1>3
    <3> DEFINE b == 15 + la
    <3>3. b \in Nat /\ b + Len(m) <= Len(im) /\ \A j \in 1..Len(m) : im[b + j] = m[j]
          BY <2>1, <3>1
    <3> HIDE DEF b
    <3>4. Piece(im, b, Len(m)) = m
          BY <3>2, <3>3, PieceIs
    <3> QED
          BY <3>4 DEF b, lm
<1>13. ParseArchive(a) = [ok |-> TRUE, files |-> p.files]
  <2>1. Len(a) < WordSize
        BY <1>1, <1>2, <1>4 DEF la, WordAssumption
  <2> QED
        BY <1>1, <2>1, ArchiveReadsBack DEF a
<1>14. ParseArchive(a).ok /\ ParseArchive(a).files = p.files
       BY <1>13
<1> QED
       BY <1>10, <1>11, <1>12, <1>14 DEF Decoded, m

PieceAt(t, s, off, n) ==
  t \in Seq(Int) /\ Len(t) = n /\ \A i \in 1..n : t[i] = s[off + i]

(* A piece of an image (slices of the image).                                *)
LEMMA CellsOf ==
  ASSUME NEW s \in Seq(Int), NEW off \in Nat, NEW n \in Nat, off + n <= Len(s)
  PROVE  PieceAt(Piece(s, off, n), s, off, n)
  BY PieceOf DEF PieceAt

(* What the search makes of the note at a place, with what it makes of those *)
(* that come after it (lib.rs:433-470).                                      *)
NoteSize(seg, pos) == Num(seg[pos + 2])
DescAt(seg, align, pos) == AlignUp(pos + 2, align)
DescOf(seg, align, pos) == Piece(seg, DescAt(seg, align, pos), NoteSize(seg, pos))
NextAt(seg, align, pos) == AlignUp(DescAt(seg, align, pos) + NoteSize(seg, pos), align)
NoteMissing(seg, align, pos) ==
  ~Fits(seg, pos, 2) \/ DescAt(seg, align, pos) \notin 0..Len(seg)
    \/ ~Fits(seg, DescAt(seg, align, pos), NoteSize(seg, pos))
NoteTaken(seg, align, pos) ==
  /\ seg[pos + 1] = Sui /\ DescOf(seg, align, pos) # <<>>
  /\ Head(DescOf(seg, align, pos)) = SectionName
Visit(f, seg, align, pos) ==
  IF NoteMissing(seg, align, pos) THEN NoSection
  ELSE IF NoteTaken(seg, align, pos) THEN [found |-> TRUE, data |-> Tail(DescOf(seg, align, pos))]
  ELSE IF NextAt(seg, align, pos) \in 0..Len(seg) THEN f[NextAt(seg, align, pos)] ELSE NoSection
Round(g, seg, align, r, pos) == IF r = 0 THEN Endless ELSE Visit(g[r - 1], seg, align, pos)
RoundsTo(g, seg, align, m) ==
  g = [rounds \in 0..m |-> [pos \in 0..Len(seg) |-> Round(g, seg, align, rounds, pos)]]

(* However often the loop may go round, its rounds are defined.              *)
LEMMA RoundsEnd ==
  ASSUME NEW seg, NEW align, NEW m \in Nat PROVE \E g : RoundsTo(g, seg, align, m)
<1> DEFINE Stuck == {k \in Nat : ~\E g : RoundsTo(g, seg, align, k)}
<1> SUFFICES ASSUME Stuck # {} PROVE FALSE
    OBVIOUS
<1>1. PICK k \in Stuck : \A j \in Stuck : k <= j
      BY LeastNumber
<1>2. k # 0
  <2> DEFINE g == [rounds \in 0..0 |-> [pos \in 0..Len(seg) |-> Endless]]
  <2>1. \A r \in 0..0 : \A pos : Round(g, seg, align, r, pos) = Endless
        BY DEF Round
  <2>2. [rounds \in 0..0 |-> [pos \in 0..Len(seg) |-> Round(g, seg, align, rounds, pos)]] = g
    <3> HIDE DEF g
    <3>1. [rounds \in 0..0 |-> [pos \in 0..Len(seg) |-> Round(g, seg, align, rounds, pos)]]
            = [rounds \in 0..0 |-> [pos \in 0..Len(seg) |-> Endless]]
          BY <2>1
    <3> QED
          BY <3>1 DEF g
  <2> HIDE DEF g
  <2>3. RoundsTo(g, seg, align, 0)
        BY <2>2 DEF RoundsTo
  <2> QED
        BY <2>3
<1>3. k - 1 \in Nat /\ k - 1 \notin Stuck /\ k \in Nat
      BY <1>1, <1>2
<1>4. PICK g : RoundsTo(g, seg, align, k - 1)
      BY <1>3
<1> DEFINE f == [rounds \in 0..k |-> IF rounds = k THEN [pos \in 0..Len(seg) |-> Visit(g[k - 1], seg, align, pos)]
                                     ELSE g[rounds]]
<1>5. \A r \in 0..(k - 1) : g[r] = [pos \in 0..Len(seg) |-> Round(g, seg, align, r, pos)]
      BY <1>4 DEF RoundsTo
<1>6. \A r \in 0..(k - 1) : f[r] = g[r]
      BY <1>3
<1>7. \A r \in 0..k : \A pos : r < k => Round(f, seg, align, r, pos) = Round(g, seg, align, r, pos)
  <2> TAKE r \in 0..k
  <2> TAKE pos
  <2> SUFFICES ASSUME r < k, r # 0 PROVE f[r - 1] = g[r - 1]
      BY DEF Round
  <2>1. r - 1 \in 0..(k - 1)
        BY <1>3
  <2> HIDE DEF f
  <2> QED
        BY <1>6, <2>1
<1>8. f[k] = [pos \in 0..Len(seg) |-> Visit(g[k - 1], seg, align, pos)]
      BY <1>3
<1>9. f = [rounds \in 0..k |-> f[rounds]]
      OBVIOUS
<1>10. k - 1 \in 0..(k - 1)
       BY <1>3
<1> HIDE DEF f
<1>11. \A pos : Round(f, seg, align, k, pos) = Visit(g[k - 1], seg, align, pos)
       BY <1>2, <1>6, <1>10 DEF Round
<1>12. \A r \in 0..k : f[r] = [pos \in 0..Len(seg) |-> Round(f, seg, align, r, pos)]
  <2> TAKE r \in 0..k
  <2>1. CASE r = k
        BY <1>8, <1>11, <2>1
  <2>2. CASE r # k
    <3>1. r \in 0..(k - 1) /\ r < k
          BY <1>3, <2>2
    <3>2. f[r] = [pos \in 0..Len(seg) |-> Round(g, seg, align, r, pos)]
          BY <1>5, <1>6, <3>1
    <3>3. \A pos : Round(f, seg, align, r, pos) = Round(g, seg, align, r, pos)
          BY <1>7, <3>1
    <3> QED
          BY <3>2, <3>3
  <2> QED
        BY <2>1, <2>2
<1>13. RoundsTo(f, seg, align, k)
       BY <1>9, <1>12 DEF RoundsTo
<1> QED
      BY <1>1, <1>13

(* What is found in a segment is what the loop makes of its first note when  *)
(* it may go round once more than the segment has places.                    *)
LEMMA NotesSearched ==
  ASSUME NEW seg \in Seq(Int), NEW align
  PROVE  \E g : /\ \A pos \in 0..Len(seg) : g[0][pos] = Endless
                /\ \A r \in 1..Len(seg) + 1, pos \in 0..Len(seg) : g[r][pos] = Visit(g[r - 1], seg, align, pos)
                /\ FindInNoteSegment(seg, align) = g[Len(seg) + 1][0]
<1> DEFINE g == CHOOSE g : RoundsTo(g, seg, align, Len(seg) + 1)
           L == Len(seg)
<1>0. L \in Nat /\ L + 1 \in Nat
      OBVIOUS
<1>1. RoundsTo(g, seg, align, L + 1)
      BY <1>0, RoundsEnd
<1>2. FindInNoteSegment(seg, align) = g[L + 1][0]
      BY DEF FindInNoteSegment, RoundsTo, Round, Visit, NoteMissing, NoteTaken, NextAt, DescOf, DescAt, NoteSize
<1> HIDE DEF g, L
<1>3. \A r \in 0..L + 1 : g[r] = [pos \in 0..L |-> Round(g, seg, align, r, pos)]
      BY <1>1 DEF RoundsTo, L
<1>4. \A r \in 0..L + 1, pos \in 0..L : g[r][pos] = Round(g, seg, align, r, pos)
      BY <1>3
<1>5. \A pos \in 0..L : g[0][pos] = Endless
  <2>1. 0 \in 0..L + 1
        BY <1>0
  <2> QED
        BY <1>4, <2>1 DEF Round
<1>6. \A r \in 1..L + 1, pos \in 0..L : g[r][pos] = Visit(g[r - 1], seg, align, pos)
  <2> TAKE r \in 1..L + 1, pos \in 0..L
  <2>1. r \in 0..L + 1 /\ r # 0
        BY <1>0
  <2>2. g[r][pos] = Round(g, seg, align, r, pos)
        BY <1>4, <2>1
  <2> QED
        BY <2>1, <2>2 DEF Round
<1> QED
      BY <1>2, <1>5, <1>6 DEF L

(* A note that is there ends behind its place when its parts need not be     *)
(* aligned (lib.rs:433-470).                                                 *)
LEMMA NoteMoves ==
  ASSUME WordAssumption, NEW seg \in Seq(Int), NEW pos \in 0..Len(seg),
         NEW align \in Int, align <= 1, ~NoteMissing(seg, align, pos)
  PROVE  NextAt(seg, align, pos) \in pos + 1..Len(seg)
<1> DEFINE n == NoteSize(seg, pos)
<1>1. DescAt(seg, align, pos) = pos + 2
      BY DEF DescAt, AlignUp
<1>2. NextAt(seg, align, pos) = pos + 2 + n
      BY <1>1 DEF NextAt, AlignUp
<1>3. pos + 2 <= Len(seg) /\ pos + 2 + n <= Len(seg) /\ Len(seg) \in Nat /\ pos \in Nat
      BY <1>1 DEF NoteMissing, Fits
<1>4. n \in Nat
  <2>1. pos + 2 \in 1..Len(seg)
        BY <1>3
  <2>2. seg[pos + 2] \in Int
        BY <2>1
  <2> QED
        BY <2>2, NumIsWord DEF NoteSize
<1> HIDE DEF n
<1> QED
      BY <1>2, <1>3, <1>4

(* The ways a search ends are told apart.                                    *)
LEMMA EndsDiffer ==
  /\ NoSection # Endless
  /\ \A d : [found |-> TRUE, data |-> d] # Endless
  /\ \A d : [found |-> TRUE, data |-> d] # NoSection
<1>1. DOMAIN Endless = {"end"} /\ DOMAIN NoSection = {"found", "data"}
      BY DEF Endless, NoSection
<1>2. \A d : DOMAIN [found |-> TRUE, data |-> d] = {"found", "data"}
      OBVIOUS
<1>3. "found" \notin {"end"} /\ "found" \in {"found", "data"}
      OBVIOUS
<1>4. NoSection # Endless
  <2> SUFFICES ASSUME NoSection = Endless PROVE FALSE
      OBVIOUS
  <2>1. DOMAIN NoSection = DOMAIN Endless
        OBVIOUS
  <2> QED
        BY <1>1, <1>3, <2>1
<1>5. ASSUME NEW d PROVE [found |-> TRUE, data |-> d] # Endless
  <2> DEFINE s == [found |-> TRUE, data |-> d]
  <2>1. DOMAIN s = {"found", "data"}
        BY <1>2
  <2> HIDE DEF s
  <2>2. s # Endless
    <3> SUFFICES ASSUME s = Endless PROVE FALSE
        OBVIOUS
    <3>1. DOMAIN s = DOMAIN Endless
          OBVIOUS
    <3> QED
          BY <1>1, <1>3, <2>1, <3>1
  <2> QED
        BY <2>2 DEF s
<1>6. ASSUME NEW d PROVE [found |-> TRUE, data |-> d] # NoSection
  <2> DEFINE s == [found |-> TRUE, data |-> d]
  <2>1. s.found = TRUE /\ NoSection.found = FALSE
        BY DEF NoSection
  <2> HIDE DEF s
  <2>2. s # NoSection
        BY <2>1
  <2> QED
        BY <2>2 DEF s
<1> QED
      BY <1>4, <1>5, <1>6

(* The search of notes that need not be aligned always ends (lib.rs:433-470).*)
LEMMA NotesEnd ==
  ASSUME WordAssumption, NEW seg \in Seq(Int), NEW align \in Int, align <= 1
  PROVE  FindInNoteSegment(seg, align) # Endless
<1> DEFINE L == Len(seg)
<1>0. L \in Nat
      OBVIOUS
<1>1. PICK g : /\ \A pos \in 0..L : g[0][pos] = Endless
               /\ \A r \in 1..L + 1, pos \in 0..L : g[r][pos] = Visit(g[r - 1], seg, align, pos)
               /\ FindInNoteSegment(seg, align) = g[L + 1][0]
      BY NotesSearched
<1> HIDE DEF L
<1> DEFINE Wrong == {r \in Nat : r <= L + 1 /\ \E pos \in 0..L : r + pos > L /\ g[r][pos] = Endless}
<1> SUFFICES ASSUME Wrong # {} PROVE FALSE
  <2> SUFFICES ASSUME FindInNoteSegment(seg, align) = Endless PROVE L + 1 \in Wrong
      OBVIOUS
  <2>1. L + 1 \in Nat /\ L + 1 <= L + 1 /\ 0 \in 0..L /\ L + 1 + 0 > L
        BY <1>0
  <2> QED
        BY <1>1, <2>1
<1>2. PICK r \in Wrong : \A j \in Wrong : r <= j
      BY LeastNumber
<1>3. r \in Nat /\ r <= L + 1
      OBVIOUS
<1>4. PICK pos \in 0..L : r + pos > L /\ g[r][pos] = Endless
      OBVIOUS
<1>5. r # 0
      BY <1>0, <1>4
<1>6. g[r][pos] = Visit(g[r - 1], seg, align, pos)
  <2>1. r \in 1..L + 1
        BY <1>0, <1>3, <1>5
  <2> QED
        BY <1>1, <2>1
<1>7. ~NoteMissing(seg, align, pos)
      BY <1>4, <1>6, EndsDiffer DEF Visit
<1> DEFINE next == NextAt(seg, align, pos)
<1>8. next \in pos + 1..L
      BY <1>7, NoteMoves DEF L
<1>9. next \in 0..L
      BY <1>0, <1>8
<1>10. g[r - 1][next] = Endless
  <2>1. ~NoteTaken(seg, align, pos)
        BY <1>4, <1>6, <1>7, EndsDiffer DEF Visit
  <2> QED
        BY <1>4, <1>6, <1>7, <1>9, <2>1 DEF Visit, L
<1> HIDE DEF next
<1>13. r + pos > L
       BY <1>4
<1>14. pos \in Nat /\ next \in Nat /\ next >= pos + 1
  <2> HIDE DEF Wrong
  <2>1. pos \in Nat
        BY <1>0
  <2> QED
        BY <1>0, <1>8, <2>1
<1>11. r - 1 \in Nat /\ r - 1 <= L + 1 /\ r - 1 + next > L /\ ~(r <= r - 1)
  <2> HIDE DEF Wrong
  <2> QED
        BY <1>0, <1>3, <1>5, <1>13, <1>14
<1>12. r - 1 \in Wrong
       BY <1>9, <1>10, <1>11
<1> QED
       BY <1>2, <1>11, <1>12

(* The note that libsui writes is found, with all of its content.            *)
LEMMA SuiNoteFound ==
  ASSUME WordAssumption, NEW data \in Seq(Int), NEW seg \in Seq(Int),
         Len(seg) = 3 + Len(data), Len(seg) < WordSize,
         seg[1] = Sui, seg[2] = 1 + Len(data), seg[3] = SectionName,
         \A j \in 1..Len(data) : seg[3 + j] = data[j]
  PROVE  FindInNoteSegment(seg, 1) = [found |-> TRUE, data |-> data]
<1> DEFINE l == 1 + Len(data)
           desc == Piece(seg, 2, l)
<1>1. l \in Nat /\ l >= 1 /\ Len(data) \in Nat /\ 2 + l = Len(seg) /\ Len(seg) \in Nat /\ 2 <= Len(seg)
      OBVIOUS
<1>2. Num(seg[2]) = l
  <2>1. l \in Word /\ l \in Int
        BY <1>1 DEF Word, WordAssumption
  <2> QED
        BY <2>1, NumIsWord
<1> HIDE DEF l
<1>3. Fits(seg, 0, 2) /\ Fits(seg, 2, l)
  <2>1. 0 + 2 < WordSize /\ 0 + 2 <= Len(seg) /\ 2 + l < WordSize /\ 2 + l <= Len(seg)
        BY <1>1 DEF WordAssumption
  <2> QED
        BY <2>1 DEF Fits
<1>4. desc \in Seq(Int) /\ Len(desc) = l /\ \A i \in 1..l : desc[i] = seg[2 + i]
  <2>1. 2 \in Nat /\ 2 + l <= Len(seg)
        BY <1>1
  <2>2. PieceAt(Piece(seg, 2, l), seg, 2, l)
        BY <1>1, <2>1, CellsOf
  <2> QED
        BY <2>2 DEF PieceAt
<1>5. desc # <<>> /\ Head(desc) = SectionName
  <2>1. Len(desc) # 0 /\ 1 \in 1..l /\ desc[1] = seg[2 + 1]
        BY <1>1, <1>4
  <2> HIDE DEF desc
  <2>2. desc # <<>> /\ Head(desc) = desc[1]
        BY <1>4, <2>1
  <2> QED
        BY <2>1, <2>2
<1> HIDE DEF desc
<1>6. Tail(desc) = data
  <2>1. /\ Tail(desc) \in Seq(Int) /\ Len(Tail(desc)) = Len(desc) - 1
        /\ \A i \in 1..Len(Tail(desc)) : Tail(desc)[i] = desc[i + 1]
        BY <1>4, <1>5, HeadTailProperties
  <2>2. Len(desc) - 1 = Len(data)
        BY <1>1, <1>4 DEF l
  <2>3. ASSUME NEW i \in 1..Len(data) PROVE Tail(desc)[i] = data[i]
    <3>1. i + 1 \in 1..l /\ 2 + (i + 1) = 3 + i
          BY <1>1 DEF l
    <3>2. desc[i + 1] = seg[2 + (i + 1)] /\ Tail(desc)[i] = desc[i + 1]
          BY <1>4, <2>1, <2>2, <3>1
    <3> QED
          BY <3>1, <3>2
  <2> QED
        BY <2>1, <2>2, <2>3, SeqEqual
<1> DEFINE L == Len(seg)
<1>7. PICK g : /\ \A pos \in 0..L : g[0][pos] = Endless
               /\ \A r \in 1..L + 1, pos \in 0..L : g[r][pos] = Visit(g[r - 1], seg, 1, pos)
               /\ FindInNoteSegment(seg, 1) = g[L + 1][0]
      BY NotesSearched
<1> HIDE DEF L
<1> DEFINE pos == 0
<1>8. pos + 2 = 2 /\ pos + 1 = 1 /\ pos = 0 /\ pos \in 0..L /\ L + 1 \in 1..L + 1
      BY <1>1 DEF L
<1> HIDE DEF pos
<1>9. NoteSize(seg, pos) = l /\ DescAt(seg, 1, pos) = 2
      BY <1>2, <1>8 DEF NoteSize, DescAt, AlignUp
<1>10. ~NoteMissing(seg, 1, pos) /\ DescOf(seg, 1, pos) = desc
  <2>1. 2 \in 0..Len(seg)
        BY <1>1
  <2> QED
        BY <1>3, <1>8, <1>9, <2>1 DEF NoteMissing, DescOf, desc
<1>11. NoteTaken(seg, 1, pos)
       BY <1>5, <1>8, <1>10 DEF NoteTaken
<1>12. g[L + 1][pos] = [found |-> TRUE, data |-> Tail(desc)]
  <2> DEFINE r == L + 1
  <2>0. r \in 1..L + 1
        BY <1>8
  <2> HIDE DEF r
  <2>1. g[r][pos] = Visit(g[r - 1], seg, 1, pos)
        BY <1>7, <1>8, <2>0
  <2> USE DEF r
  <2> QED
        BY <1>10, <1>11, <2>1 DEF Visit
<1> QED
       BY <1>6, <1>7, <1>8, <1>12

(* The note of the linker is not mistaken for it.                            *)
LEMMA GnuNotePassed ==
  ASSUME WordAssumption, NEW seg \in Seq(Int), Len(seg) = 3, seg[1] = Gnu, seg[2] = 1
  PROVE  FindInNoteSegment(seg, 1) = NoSection
<1>1. PICK g : /\ \A pos \in 0..3 : g[0][pos] = Endless
               /\ \A r \in 1..3 + 1, pos \in 0..3 : g[r][pos] = Visit(g[r - 1], seg, 1, pos)
               /\ FindInNoteSegment(seg, 1) = g[3 + 1][0]
  <2> DEFINE L == Len(seg)
  <2>1. \E g : /\ \A pos \in 0..L : g[0][pos] = Endless
               /\ \A r \in 1..L + 1, pos \in 0..L : g[r][pos] = Visit(g[r - 1], seg, 1, pos)
               /\ FindInNoteSegment(seg, 1) = g[L + 1][0]
        BY NotesSearched
  <2>2. L = 3
        OBVIOUS
  <2> HIDE DEF L
  <2> QED
        BY <2>1, <2>2
<1>2. Num(seg[2]) = 1
      BY NumIsWord DEF Word, WordAssumption
<1>3. Fits(seg, 0, 2) /\ Fits(seg, 2, 1) /\ ~Fits(seg, 3, 2)
      BY DEF Fits, WordAssumption
<1>5. seg[1] # Sui
      BY DEF Gnu, Sui
<1> DEFINE pos == 0
<1>6. pos + 2 = 2 /\ pos + 1 = 1 /\ pos = 0 /\ pos \in 0..3
      OBVIOUS
<1> HIDE DEF pos
<1>7. NoteSize(seg, pos) = 1 /\ DescAt(seg, 1, pos) = 2 /\ NextAt(seg, 1, pos) = 3
  <2>1. NoteSize(seg, pos) = 1 /\ DescAt(seg, 1, pos) = 2
        BY <1>2, <1>6 DEF NoteSize, DescAt, AlignUp
  <2> QED
        BY <2>1 DEF NextAt, AlignUp
<1>8. ~NoteMissing(seg, 1, pos) /\ ~NoteTaken(seg, 1, pos)
  <2>1. 2 \in 0..Len(seg)
        OBVIOUS
  <2> QED
        BY <1>3, <1>5, <1>6, <1>7, <2>1 DEF NoteMissing, NoteTaken
<1>9. \A f : Visit(f, seg, 1, pos) = f[3]
  <2>1. 3 \in 0..Len(seg)
        OBVIOUS
  <2> QED
        BY <1>7, <1>8, <2>1 DEF Visit
<1>10. \A f : Visit(f, seg, 1, 3) = NoSection
  <2>1. NoteMissing(seg, 1, 3)
        BY <1>3 DEF NoteMissing
  <2> QED
        BY <2>1 DEF Visit
<1>11. g[4][pos] = Visit(g[3], seg, 1, pos) /\ g[3][3] = Visit(g[2], seg, 1, 3)
  <2>1. 4 \in 1..3 + 1 /\ 3 \in 1..3 + 1 /\ 3 \in 0..3 /\ 4 - 1 = 3 /\ 3 - 1 = 2
        OBVIOUS
  <2> QED
        BY <1>1, <1>6, <2>1
<1>12. FindInNoteSegment(seg, 1) = g[4][pos]
       BY <1>1, <1>6
<1> QED
      BY <1>9, <1>10, <1>11, <1>12

(* Nothing is found where the section's name is nowhere.                     *)
LEMMA NoNameNoNote ==
  ASSUME WordAssumption, NEW seg \in Seq(Int), \A i \in 1..Len(seg) : seg[i] # SectionName, NEW align
  PROVE  FindInNoteSegment(seg, align) \in {NoSection, Endless}
<1> DEFINE L == Len(seg)
<1>0. L \in Nat
      OBVIOUS
<1>1. PICK g : /\ \A pos \in 0..L : g[0][pos] = Endless
               /\ \A r \in 1..L + 1, pos \in 0..L : g[r][pos] = Visit(g[r - 1], seg, align, pos)
               /\ FindInNoteSegment(seg, align) = g[L + 1][0]
      BY NotesSearched
<1>2. ASSUME NEW pos \in 0..L, ~NoteMissing(seg, align, pos) PROVE ~NoteTaken(seg, align, pos)
  <2> DEFINE at == DescAt(seg, align, pos)
             n == NoteSize(seg, pos)
             desc == DescOf(seg, align, pos)
  <2> SUFFICES ASSUME desc # <<>> PROVE Head(desc) # SectionName
      BY DEF NoteTaken
  <2>1. at \in 0..Len(seg) /\ at + n <= Len(seg) /\ pos + 2 <= Len(seg)
        BY <1>2 DEF NoteMissing, Fits
  <2>2. n \in Nat
    <3>1. pos + 2 \in 1..Len(seg)
          BY <1>0, <2>1
    <3>2. seg[pos + 2] \in Int
          BY <3>1
    <3> QED
          BY <3>2, NumIsWord DEF NoteSize
  <2>3. desc = Piece(seg, at, n)
        BY DEF DescOf
  <2> HIDE DEF at, n, desc
  <2>4. at \in Nat
        BY <1>0, <2>1
  <2>5. PieceAt(desc, seg, at, n)
        BY <2>1, <2>2, <2>3, <2>4, CellsOf
  <2>6. desc \in Seq(Int) /\ Len(desc) = n /\ \A i \in 1..n : desc[i] = seg[at + i]
        BY <2>5 DEF PieceAt
  <2>7. Len(desc) # 0 /\ Head(desc) = desc[1]
        BY <2>6
  <2>8. 1 \in 1..n /\ at + 1 \in 1..Len(seg)
        BY <1>0, <2>1, <2>2, <2>4, <2>6, <2>7
  <2>9. desc[1] = seg[at + 1]
        BY <2>6, <2>8
  <2> QED
        BY <2>7, <2>8, <2>9
<1> HIDE DEF L
<1> DEFINE Wrong == {r \in Nat : r <= L + 1 /\ \E pos \in 0..L : g[r][pos] \notin {NoSection, Endless}}
<1> SUFFICES ASSUME Wrong # {} PROVE FALSE
  <2> SUFFICES ASSUME FindInNoteSegment(seg, align) \notin {NoSection, Endless} PROVE L + 1 \in Wrong
      OBVIOUS
  <2>1. L + 1 \in Nat /\ L + 1 <= L + 1 /\ 0 \in 0..L
        BY <1>0
  <2> QED
        BY <1>1, <2>1
<1>3. PICK r \in Wrong : \A j \in Wrong : r <= j
      BY LeastNumber
<1>4. r \in Nat /\ r <= L + 1
      OBVIOUS
<1>5. PICK pos \in 0..L : g[r][pos] \notin {NoSection, Endless}
      OBVIOUS
<1>6. r # 0
      BY <1>1, <1>5
<1>7. g[r][pos] = Visit(g[r - 1], seg, align, pos)
  <2>1. r \in 1..L + 1
        BY <1>0, <1>4, <1>6
  <2> QED
        BY <1>1, <2>1
<1>8. ~NoteMissing(seg, align, pos)
      BY <1>5, <1>7 DEF Visit
<1>9. ~NoteTaken(seg, align, pos)
      BY <1>2, <1>8 DEF L
<1> DEFINE next == NextAt(seg, align, pos)
<1>10. next \in 0..L /\ g[r - 1][next] \notin {NoSection, Endless}
       BY <1>5, <1>7, <1>8, <1>9 DEF Visit, L
<1> HIDE DEF next
<1>11. r - 1 \in Nat /\ r - 1 <= L + 1 /\ ~(r <= r - 1)
       BY <1>0, <1>4, <1>6
<1>12. r - 1 \in Wrong
       BY <1>10, <1>11
<1> QED
       BY <1>3, <1>11, <1>12

(* Two sequences are joined to a third.                                      *)
LEMMA JoinIs ==
  ASSUME NEW s \in Seq(Int), NEW t \in Seq(Int), NEW u \in Seq(Int), Len(u) = Len(s) + Len(t),
         \A i \in 1..Len(s) : u[i] = s[i], \A j \in 1..Len(t) : u[Len(s) + j] = t[j]
  PROVE  s \o t = u
<1>1. /\ s \o t \in Seq(Int) /\ Len(s \o t) = Len(s) + Len(t)
      /\ \A i \in 1..Len(s) : (s \o t)[i] = s[i]
      /\ \A j \in 1..Len(t) : (s \o t)[Len(s) + j] = t[j]
      BY OneAfterOther
<1>2. ASSUME NEW i \in 1..Len(s \o t) PROVE (s \o t)[i] = u[i]
  <2>1. CASE i \in 1..Len(s)
        BY <1>1, <2>1
  <2>2. CASE i \notin 1..Len(s)
    <3>1. Len(s) \in Nat /\ Len(t) \in Nat
          OBVIOUS
    <3>2. i - Len(s) \in 1..Len(t) /\ Len(s) + (i - Len(s)) = i
          BY <1>1, <2>2, <3>1
    <3>3. (s \o t)[Len(s) + (i - Len(s))] = t[i - Len(s)] /\ u[Len(s) + (i - Len(s))] = t[i - Len(s)]
          BY <1>1, <3>2
    <3> QED
          BY <3>2, <3>3
  <2> QED
        BY <2>1, <2>2
<1> QED
      BY <1>1, <1>2, SeqEqual

(* What stands before the content in an image (the linker and libsui).       *)
HostHead(host, n) ==
  CASE host = "elf" -> <<Elf, 3, LoadSegment, 14, 2, 8, NoteSegment, 16, 3, 1, NoteSegment, 19, 3 + n, 1,
                         Code, Sentinel, Gnu, 1, 7, Sui, 1 + n, SectionName>>
    [] host = "pe" -> <<Pe, 2, 30, 20, 2, 9, 30, 8 + n, 11, Code, Sentinel,
                        2, Icon, 37, 1, SectionName, 38, n, Code>>
    [] host = "macho-arm" -> <<MachoArm, 2, Code, 8, 2, Sui, 10, n, Code, Sentinel>>
    [] host = "macho-intel" -> <<MachoIntel, Sentinel, Code, Sentinel, SentinelMagic, n>>

(* The head of each kind of image.                                           *)
LEMMA HostCases ==
  ASSUME NEW n
  PROVE  /\ HostHead("elf", n) = <<Elf, 3, LoadSegment, 14, 2, 8, NoteSegment, 16, 3, 1, NoteSegment, 19, 3 + n, 1,
                                   Code, Sentinel, Gnu, 1, 7, Sui, 1 + n, SectionName>>
         /\ HostHead("pe", n) = <<Pe, 2, 30, 20, 2, 9, 30, 8 + n, 11, Code, Sentinel,
                                  2, Icon, 37, 1, SectionName, 38, n, Code>>
         /\ HostHead("macho-arm", n) = <<MachoArm, 2, Code, 8, 2, Sui, 10, n, Code, Sentinel>>
         /\ HostHead("macho-intel", n) = <<MachoIntel, Sentinel, Code, Sentinel, SentinelMagic, n>>
<1>1. "elf" # "pe" /\ "elf" # "macho-arm" /\ "elf" # "macho-intel" /\ "pe" # "macho-arm"
      /\ "pe" # "macho-intel" /\ "macho-arm" # "macho-intel"
      OBVIOUS
<1> QED
      BY <1>1 DEF HostHead

HeadLength(host) ==
  IF host = "elf" THEN 22 ELSE IF host = "pe" THEN 19 ELSE IF host = "macho-arm" THEN 10 ELSE 6

(* No head has the footer's mark.                                            *)
LEMMA HeadCells ==
  ASSUME NEW n \in Nat, NEW host \in Host
  PROVE  /\ HostHead(host, n) \in Seq(Int) /\ HostHead(host, n) \in Seq(Int \ {FootMagic})
         /\ Len(HostHead(host, n)) = HeadLength(host)
<1> DEFINE S == Int \ {FootMagic}
           h == HostHead(host, n)
<1>a. /\ 3 + n \in S /\ 1 + n \in S /\ 8 + n \in S /\ n \in S
      /\ 1 \in S /\ 2 \in S /\ 3 \in S /\ 7 \in S /\ 8 \in S /\ 9 \in S /\ 10 \in S /\ 11 \in S
      /\ 14 \in S /\ 16 \in S /\ 19 \in S /\ 20 \in S /\ 30 \in S /\ 37 \in S /\ 38 \in S
      BY DEF FootMagic
<1>b. /\ Elf \in S /\ Pe \in S /\ MachoArm \in S /\ MachoIntel \in S /\ Sentinel \in S /\ SentinelMagic \in S
      /\ Code \in S /\ LoadSegment \in S /\ NoteSegment \in S /\ Gnu \in S /\ Sui \in S /\ SectionName \in S
      /\ Icon \in S
      BY DEF FootMagic, Elf, Pe, MachoArm, MachoIntel, Sentinel, SentinelMagic, Code, LoadSegment,
             NoteSegment, Gnu, Sui, SectionName, Icon
<1> HIDE DEF S
<1>0. h \in Seq(S) /\ Len(h) = HeadLength(host)
  <2>1. CASE host = "elf"
    <3>1. h = <<Elf, 3, LoadSegment, 14, 2, 8, NoteSegment, 16, 3, 1, NoteSegment, 19, 3 + n, 1,
                Code, Sentinel, Gnu, 1, 7, Sui, 1 + n, SectionName>>
          BY <2>1, HostCases
    <3> HIDE DEF h
    <3>2. h \in Seq(S) /\ Len(h) = 22
          BY <1>a, <1>b, <3>1
    <3> QED
          BY <2>1, <3>2 DEF HeadLength
  <2>2. CASE host = "pe"
    <3>1. h = <<Pe, 2, 30, 20, 2, 9, 30, 8 + n, 11, Code, Sentinel,
                2, Icon, 37, 1, SectionName, 38, n, Code>>
          BY <2>2, HostCases
    <3> HIDE DEF h
    <3>2. h \in Seq(S) /\ Len(h) = 19
          BY <1>a, <1>b, <3>1
    <3> QED
          BY <2>2, <3>2 DEF HeadLength
  <2>3. CASE host = "macho-arm"
    <3>1. h = <<MachoArm, 2, Code, 8, 2, Sui, 10, n, Code, Sentinel>>
          BY <2>3, HostCases
    <3> HIDE DEF h
    <3>2. h \in Seq(S) /\ Len(h) = 10
          BY <1>a, <1>b, <3>1
    <3> QED
          BY <2>3, <3>2 DEF HeadLength
  <2>4. CASE host = "macho-intel"
    <3>1. h = <<MachoIntel, Sentinel, Code, Sentinel, SentinelMagic, n>>
          BY <2>4, HostCases
    <3> HIDE DEF h
    <3>2. h \in Seq(S) /\ Len(h) = 6
          BY <1>a, <1>b, <3>1
    <3> QED
          BY <2>4, <3>2 DEF HeadLength
  <2> QED
        BY <2>1, <2>2, <2>3, <2>4 DEF Host
<1> HIDE DEF h
<1>1. S \subseteq Int
      BY DEF S
<1>2. h \in Seq(Int)
      BY <1>0, <1>1, SeqMonotonic
<1> QED
      BY <1>0, <1>2 DEF h, S

(* An image is its head and the content.                                     *)
LEMMA PeIs ==
  ASSUME NEW data \in Seq(Int)
  PROVE  Embedded("pe", data) = HostHead("pe", Len(data)) \o data
<1> DEFINE n == Len(data)
           a == <<Pe, 2, 30, 20, 2, 9, 30, 8 + n, 11>>
           b == <<Code, Sentinel>>
           c == <<2, Icon, 37, 1, SectionName, 38, n, Code>>
           ab == <<Pe, 2, 30, 20, 2, 9, 30, 8 + n, 11, Code, Sentinel>>
           abc == <<Pe, 2, 30, 20, 2, 9, 30, 8 + n, 11, Code, Sentinel, 2, Icon, 37, 1, SectionName, 38, n, Code>>
<1>1. Embedded("pe", data) = a \o b \o c \o data
      BY DEF Embedded
<1>2. n \in Int /\ 8 + n \in Int
      OBVIOUS
<1> HIDE DEF n
<1>3. a \o b = ab
  <2>1. a \in Seq(Int) /\ b \in Seq(Int) /\ ab \in Seq(Int) /\ Len(a) = 9 /\ Len(b) = 2 /\ Len(ab) = 9 + 2
        BY <1>2 DEF Pe, Code, Sentinel
  <2>2. (\A i \in 1..9 : ab[i] = a[i]) /\ (\A j \in 1..2 : ab[9 + j] = b[j])
        OBVIOUS
  <2> HIDE DEF a, b, ab
  <2>3. Len(ab) = Len(a) + Len(b) /\ (\A i \in 1..Len(a) : ab[i] = a[i]) /\ (\A j \in 1..Len(b) : ab[Len(a) + j] = b[j])
        BY <2>1, <2>2
  <2> QED
        BY <2>1, <2>3, JoinIs
<1>4. ab \o c = abc
  <2>1. ab \in Seq(Int) /\ c \in Seq(Int) /\ abc \in Seq(Int) /\ Len(ab) = 11 /\ Len(c) = 8 /\ Len(abc) = 11 + 8
        BY <1>2 DEF Pe, Code, Sentinel, Icon, SectionName
  <2>2. (\A i \in 1..11 : abc[i] = ab[i]) /\ (\A j \in 1..8 : abc[11 + j] = c[j])
        OBVIOUS
  <2> HIDE DEF ab, c, abc
  <2>3. Len(abc) = Len(ab) + Len(c) /\ (\A i \in 1..Len(ab) : abc[i] = ab[i]) /\ (\A j \in 1..Len(c) : abc[Len(ab) + j] = c[j])
        BY <2>1, <2>2
  <2> QED
        BY <2>1, <2>3, JoinIs
<1>5. HostHead("pe", n) = abc
      BY HostCases
<1> HIDE DEF a, b, c, ab, abc
<1> QED
      BY <1>1, <1>3, <1>4, <1>5 DEF n

(* A Mach-O image is its head and the payload (payload.rs:10-54).            *)
LEMMA MachoArmIs ==
  ASSUME NEW data \in Seq(Int)
  PROVE  Embedded("macho-arm", data) = HostHead("macho-arm", Len(data)) \o data
<1> DEFINE n == Len(data)
           a == <<MachoArm, 2, Code, 8, 2, Sui, 10, n>>
           b == <<Code, Sentinel>>
           ab == <<MachoArm, 2, Code, 8, 2, Sui, 10, n, Code, Sentinel>>
<1>1. Embedded("macho-arm", data) = a \o b \o data
      BY DEF Embedded
<1>2. n \in Int
      OBVIOUS
<1> HIDE DEF n
<1>3. a \o b = ab
  <2>1. a \in Seq(Int) /\ b \in Seq(Int) /\ ab \in Seq(Int) /\ Len(a) = 8 /\ Len(b) = 2 /\ Len(ab) = 8 + 2
        BY <1>2 DEF MachoArm, Sui, Code, Sentinel
  <2>2. (\A i \in 1..8 : ab[i] = a[i]) /\ (\A j \in 1..2 : ab[8 + j] = b[j])
        OBVIOUS
  <2> HIDE DEF a, b, ab
  <2>3. Len(ab) = Len(a) + Len(b) /\ (\A i \in 1..Len(a) : ab[i] = a[i]) /\ (\A j \in 1..Len(b) : ab[Len(a) + j] = b[j])
        BY <2>1, <2>2
  <2> QED
        BY <2>1, <2>3, JoinIs
<1>4. HostHead("macho-arm", n) = ab
      BY HostCases
<1> HIDE DEF a, b, ab
<1> QED
      BY <1>1, <1>3, <1>4 DEF n

(* The same for an image that ends in a sentinel.                            *)
LEMMA MachoIntelIs ==
  ASSUME NEW data \in Seq(Int)
  PROVE  Embedded("macho-intel", data) = HostHead("macho-intel", Len(data)) \o data
  BY HostCases DEF Embedded

(* Sequences are joined in any order.                                        *)
LEMMA AnyOrder ==
  ASSUME NEW s \in Seq(Int), NEW t \in Seq(Int), NEW u \in Seq(Int)
  PROVE  s \o (t \o u) = (s \o t) \o u
  BY ConcatAssociative

(* An ELF image is its head and the payload (payload.rs:10-54).              *)
LEMMA ElfIs ==
  ASSUME NEW data \in Seq(Int)
  PROVE  Embedded("elf", data) = HostHead("elf", Len(data)) \o data
<1> DEFINE n == Len(data)
           x == <<SectionName>>
           s == <<Sui, 1 + n>>
           sx == <<Sui, 1 + n, SectionName>>
           d == s \o (x \o data)
           a == <<Elf, 3, LoadSegment, 14, 2, 8, NoteSegment, 16, 3, 1, NoteSegment, 19, 3 + n, 1>>
           b == <<Code, Sentinel>>
           g == <<Gnu, 1>>
           t == <<7>>
           gt == <<Gnu, 1, 7>>
           ab == <<Elf, 3, LoadSegment, 14, 2, 8, NoteSegment, 16, 3, 1, NoteSegment, 19, 3 + n, 1, Code, Sentinel>>
           abg == <<Elf, 3, LoadSegment, 14, 2, 8, NoteSegment, 16, 3, 1, NoteSegment, 19, 3 + n, 1, Code, Sentinel, Gnu, 1, 7>>
           all == <<Elf, 3, LoadSegment, 14, 2, 8, NoteSegment, 16, 3, 1, NoteSegment, 19, 3 + n, 1,
                    Code, Sentinel, Gnu, 1, 7, Sui, 1 + n, SectionName>>
<1>1. n \in Nat /\ n \in Int /\ 1 + n \in Int /\ 3 + n \in Int
      OBVIOUS
<1>2. x \in Seq(Int) /\ Len(x) = 1
      BY DEF SectionName
<1>3. Len(x \o data) = 1 + n /\ x \o data \in Seq(Int)
  <2> HIDE DEF x
  <2>1. Len(x \o data) = Len(x) + Len(data) /\ x \o data \in Seq(Int)
        BY <1>2, ConcatProperties
  <2> QED
        BY <1>2, <2>1
<1>4. Note(Sui, x \o data) = d
      BY <1>3 DEF Note
<1>5. Note(Gnu, <<7>>) = g \o t
  <2>1. Len(<<7>>) = 1
        OBVIOUS
  <2> QED
        BY <2>1 DEF Note
<1> HIDE DEF n
<1>6. s \o x = sx
  <2>1. s \in Seq(Int) /\ sx \in Seq(Int) /\ Len(s) = 2 /\ Len(sx) = 2 + 1
        BY <1>1 DEF Sui, SectionName
  <2>2. (\A i \in 1..2 : sx[i] = s[i]) /\ (\A j \in 1..1 : sx[2 + j] = x[j])
        OBVIOUS
  <2> HIDE DEF s, x, sx
  <2>3. Len(sx) = Len(s) + Len(x) /\ (\A i \in 1..Len(s) : sx[i] = s[i]) /\ (\A j \in 1..Len(x) : sx[Len(s) + j] = x[j])
        BY <1>2, <2>1, <2>2
  <2> QED
        BY <1>2, <2>1, <2>3, JoinIs
<1>7. d = sx \o data /\ sx \in Seq(Int) /\ Len(sx) = 3
  <2>1. s \in Seq(Int) /\ sx \in Seq(Int) /\ Len(sx) = 3
        BY <1>1 DEF Sui, SectionName
  <2> HIDE DEF s, x, sx
  <2>2. s \o (x \o data) = (s \o x) \o data
    <3>1. s \in Seq(Int) /\ x \in Seq(Int) /\ data \in Seq(Int)
          BY <1>2, <2>1
    <3> QED
          BY <3>1, AnyOrder
  <2> QED
        BY <1>6, <2>1, <2>2
<1>8. Len(d) = 3 + n /\ d \in Seq(Int)
  <2> HIDE DEF d, sx
  <2>1. Len(sx \o data) = Len(sx) + Len(data) /\ sx \o data \in Seq(Int)
        BY <1>7, ConcatProperties
  <2> QED
        BY <1>7, <2>1 DEF n
<1>9. Embedded("elf", data) = a \o b \o (g \o t) \o d
  <2> DEFINE y == Note(Sui, <<SectionName>> \o data)
  <2>1. y = d /\ Len(y) = 3 + n
        BY <1>4, <1>8
  <2>2. Embedded("elf", data) =
          <<Elf, 3, LoadSegment, 14, 2, 8, NoteSegment, 16, 3, 1, NoteSegment, 19, Len(y), 1>> \o <<Code, Sentinel>>
            \o Note(Gnu, <<7>>) \o y
        BY DEF Embedded
  <2> HIDE DEF y, d
  <2> QED
        BY <1>5, <2>1, <2>2
<1> HIDE DEF d
<1>10. g \o t = gt
  <2>1. g \in Seq(Int) /\ t \in Seq(Int) /\ gt \in Seq(Int) /\ Len(g) = 2 /\ Len(t) = 1 /\ Len(gt) = 2 + 1
        BY DEF Gnu
  <2>2. (\A i \in 1..2 : gt[i] = g[i]) /\ (\A j \in 1..1 : gt[2 + j] = t[j])
        OBVIOUS
  <2> HIDE DEF g, t, gt
  <2>3. Len(gt) = Len(g) + Len(t) /\ (\A i \in 1..Len(g) : gt[i] = g[i]) /\ (\A j \in 1..Len(t) : gt[Len(g) + j] = t[j])
        BY <2>1, <2>2
  <2> QED
        BY <2>1, <2>3, JoinIs
<1>11. a \o b = ab
  <2>1. a \in Seq(Int) /\ b \in Seq(Int) /\ ab \in Seq(Int) /\ Len(a) = 14 /\ Len(b) = 2 /\ Len(ab) = 14 + 2
        BY <1>1 DEF Elf, LoadSegment, NoteSegment, Code, Sentinel
  <2>2. (\A i \in 1..14 : ab[i] = a[i]) /\ (\A j \in 1..2 : ab[14 + j] = b[j])
        OBVIOUS
  <2> HIDE DEF a, b, ab
  <2>3. Len(ab) = Len(a) + Len(b) /\ (\A i \in 1..Len(a) : ab[i] = a[i]) /\ (\A j \in 1..Len(b) : ab[Len(a) + j] = b[j])
        BY <2>1, <2>2
  <2> QED
        BY <2>1, <2>3, JoinIs
<1>12. ab \o gt = abg
  <2>1. ab \in Seq(Int) /\ gt \in Seq(Int) /\ abg \in Seq(Int) /\ Len(ab) = 16 /\ Len(gt) = 3 /\ Len(abg) = 16 + 3
        BY <1>1 DEF Elf, LoadSegment, NoteSegment, Code, Sentinel, Gnu
  <2>2. (\A i \in 1..16 : abg[i] = ab[i]) /\ (\A j \in 1..3 : abg[16 + j] = gt[j])
        OBVIOUS
  <2> HIDE DEF ab, gt, abg
  <2>3. Len(abg) = Len(ab) + Len(gt) /\ (\A i \in 1..Len(ab) : abg[i] = ab[i]) /\ (\A j \in 1..Len(gt) : abg[Len(ab) + j] = gt[j])
        BY <2>1, <2>2
  <2> QED
        BY <2>1, <2>3, JoinIs
<1>13. abg \o sx = all /\ abg \in Seq(Int)
  <2>1. abg \in Seq(Int) /\ all \in Seq(Int) /\ Len(abg) = 19 /\ Len(all) = 19 + 3
        BY <1>1 DEF Elf, LoadSegment, NoteSegment, Code, Sentinel, Gnu, Sui, SectionName
  <2>2. (\A i \in 1..19 : all[i] = abg[i]) /\ (\A j \in 1..3 : all[19 + j] = sx[j])
        OBVIOUS
  <2> HIDE DEF abg, sx, all
  <2>3. Len(all) = Len(abg) + Len(sx) /\ (\A i \in 1..Len(abg) : all[i] = abg[i]) /\ (\A j \in 1..Len(sx) : all[Len(abg) + j] = sx[j])
        BY <1>7, <2>1, <2>2
  <2> QED
        BY <1>7, <2>1, <2>3, JoinIs
<1>14. HostHead("elf", n) = all
       BY HostCases
<1> HIDE DEF a, b, ab, g, t, gt, abg, sx, all
<1>15. abg \o (sx \o data) = (abg \o sx) \o data
  <2>1. abg \in Seq(Int) /\ sx \in Seq(Int) /\ data \in Seq(Int)
        BY <1>7, <1>13
  <2> QED
        BY <2>1, AnyOrder
<1> QED
       BY <1>7, <1>9, <1>10, <1>11, <1>12, <1>13, <1>14, <1>15 DEF n

(* An image that begins as it was written, to its own end or beyond.         *)
Carries(im, head, data) ==
  /\ im \in Seq(Int)
  /\ \A i \in 1..Len(head) : i <= Len(im) => im[i] = head[i]
  /\ \A j \in 1..Len(data) : Len(head) + j <= Len(im) => im[Len(head) + j] = data[j]

EmbeddedParts(im, host, data) ==
  /\ im \in Seq(Int) /\ Len(im) = HeadLength(host) + Len(data) /\ HeadLength(host) \in Nat
  /\ Len(HostHead(host, Len(data))) = HeadLength(host)
  /\ \A i \in 1..HeadLength(host) : im[i] = HostHead(host, Len(data))[i]
  /\ \A j \in 1..Len(data) : im[HeadLength(host) + j] = data[j]

(* Whatever the host, the payload is whole behind the head.                  *)
LEMMA HostLaid ==
  ASSUME NEW host \in Host, NEW data \in Seq(Int)
  PROVE  EmbeddedParts(Embedded(host, data), host, data)
<1> DEFINE h == HostHead(host, Len(data))
           im == Embedded(host, data)
<1>1. im = h \o data
      BY ElfIs, PeIs, MachoArmIs, MachoIntelIs DEF Host
<1>2. h \in Seq(Int) /\ Len(h) = HeadLength(host) /\ HeadLength(host) \in Nat
  <2>1. Len(data) \in Nat
        OBVIOUS
  <2> QED
        BY <2>1, HeadCells DEF HeadLength
<1> HIDE DEF h, im
<1>3. /\ h \o data \in Seq(Int) /\ Len(h \o data) = Len(h) + Len(data)
      /\ \A i \in 1..Len(h) : (h \o data)[i] = h[i]
      /\ \A j \in 1..Len(data) : (h \o data)[Len(h) + j] = data[j]
  <2>1. h \in Seq(Int)
        BY <1>2
  <2> QED
        BY <2>1, OneAfterOther
<1>4. EmbeddedParts(im, host, data)
      BY <1>1, <1>2, <1>3 DEF EmbeddedParts, h
<1> QED
      BY <1>4 DEF im

(* The first cell says whose image it is (lib.rs:384-394).                   *)
LEMMA LocateBy ==
  ASSUME NEW im
  PROVE  /\ im # <<>> /\ im[1] = Elf => LocateSection(im) = LocateElfNote(im)
         /\ im # <<>> /\ im[1] = Pe => LocateSection(im) = LocatePeResource(im)
         /\ im # <<>> /\ im[1] = MachoArm => LocateSection(im) = LocateMachoSection(im)
         /\ im # <<>> /\ im[1] = MachoIntel => LocateSection(im) = LocateSentinel(im)
         /\ im = <<>> \/ im[1] \notin {Elf, Pe, MachoArm, MachoIntel} => LocateSection(im) = NoSection
<1>1. Elf # Pe /\ Elf # MachoArm /\ Elf # MachoIntel /\ Pe # MachoArm /\ Pe # MachoIntel /\ MachoArm # MachoIntel
      BY DEF Elf, Pe, MachoArm, MachoIntel
<1>2. ASSUME im # <<>>, im[1] = Elf PROVE LocateSection(im) = LocateElfNote(im)
      BY <1>1, <1>2 DEF LocateSection
<1>3. ASSUME im # <<>>, im[1] = Pe PROVE LocateSection(im) = LocatePeResource(im)
      BY <1>1, <1>3 DEF LocateSection
<1>4. ASSUME im # <<>>, im[1] = MachoArm PROVE LocateSection(im) = LocateMachoSection(im)
      BY <1>1, <1>4 DEF LocateSection
<1>5. ASSUME im # <<>>, im[1] = MachoIntel PROVE LocateSection(im) = LocateSentinel(im)
      BY <1>1, <1>5 DEF LocateSection
<1>6. ASSUME im = <<>> \/ im[1] \notin {Elf, Pe, MachoArm, MachoIntel} PROVE LocateSection(im) = NoSection
      BY <1>6 DEF LocateSection
<1> QED
      BY <1>2, <1>3, <1>4, <1>5, <1>6

(* What is in a set and below all of it is the least of it.                  *)
LEMMA LeastIs ==
  ASSUME NEW S, S \subseteq Int, NEW m \in S, \A i \in S : m <= i
  PROVE  Least(S) = m
<1>1. \E i \in S : \A j \in S : i <= j
      OBVIOUS
<1>2. Least(S) \in S /\ \A j \in S : Least(S) <= j
      BY <1>1 DEF Least
<1>3. Least(S) <= m /\ m <= Least(S) /\ Least(S) \in Int /\ m \in Int
      BY <1>2
<1> QED
      BY <1>3

(* The least of one.                                                         *)
LEMMA OnlyOne ==
  ASSUME NEW m \in Int PROVE Least({m}) = m
<1>1. {m} \subseteq Int /\ m \in {m} /\ \A i \in {m} : m <= i
      OBVIOUS
<1> DEFINE S == {m}
<1>2. S \subseteq Int /\ m \in S /\ \A i \in S : m <= i
      BY <1>1
<1> HIDE DEF S
<1>3. Least(S) = m
      BY <1>2, LeastIs
<1> QED
      BY <1>3 DEF S

-----------------------------------------------------------------------------
(* The program headers that are looked at, and those with the section.       *)
OffAt(im, i) == Num(im[4 + 4 * i])
SizeAt(im, i) == Num(im[5 + 4 * i])
AlignAt(im, i) == Num(im[6 + 4 * i])
NotesAt(im, i) == im[3 + 4 * i] = NoteSegment
ElfLooked(im) ==
  {i \in 0..(Num(im[2]) - 1) : \A j \in 0..i :
     Fits(im, 2 + 4 * j, 4) /\ (NotesAt(im, j) => OffAt(im, j) + SizeAt(im, j) < WordSize)}
SegmentAt(im, i) == Piece(im, OffAt(im, i), SizeAt(im, i))
ElfHit(im, i) ==
  /\ NotesAt(im, i) /\ Fits(im, OffAt(im, i), SizeAt(im, i))
  /\ FindInNoteSegment(SegmentAt(im, i), AlignAt(im, i)) # NoSection
ElfHits(im) == {i \in ElfLooked(im) : ElfHit(im, i)}

(* The search of an ELF image in these terms (lib.rs:396-433).               *)
LEMMA ElfFinds ==
  ASSUME NEW im
  PROVE  LocateElfNote(im) = IF Len(im) < 2 \/ ElfHits(im) = {} THEN NoSection
                             ELSE FindInNoteSegment(SegmentAt(im, Least(ElfHits(im))),
                                                    AlignAt(im, Least(ElfHits(im))))
  BY DEF LocateElfNote, ElfHits, ElfHit, ElfLooked, SegmentAt, OffAt, SizeAt, AlignAt, NotesAt

ElfShape(im, l) ==
  /\ Len(im) >= 1 => im[1] = Elf
  /\ Len(im) >= 2 => im[2] = 3
  /\ Len(im) >= 6 => im[3] = LoadSegment
  /\ Len(im) >= 10 => im[7] = NoteSegment /\ im[8] = 16 /\ im[9] = 3 /\ im[10] = 1
  /\ Len(im) >= 14 => im[11] = NoteSegment /\ im[12] = 19 /\ im[13] = 3 + l /\ im[14] = 1
  /\ Len(im) >= 19 => im[17] = Gnu /\ im[18] = 1
  /\ Len(im) >= 22 => im[20] = Sui /\ im[21] = 1 + l /\ im[22] = SectionName

(* The cells of an ELF image.                                                *)
LEMMA ElfCells ==
  ASSUME NEW l \in Nat, NEW im \in Seq(Int), NEW h, h = HostHead("elf", l),
         \A i \in 1..22 : i <= Len(im) => im[i] = h[i]
  PROVE  ElfShape(im, l)
<1> DEFINE x == 3 + l
           y == 1 + l
<1>1. h = <<Elf, 3, LoadSegment, 14, 2, 8, NoteSegment, 16, 3, 1, NoteSegment, 19, x, 1,
            Code, Sentinel, Gnu, 1, 7, Sui, y, SectionName>>
      BY HostCases
<1> HIDE DEF x, y
<1>2. /\ h[1] = Elf /\ h[2] = 3 /\ h[3] = LoadSegment
      /\ h[7] = NoteSegment /\ h[8] = 16 /\ h[9] = 3 /\ h[10] = 1
      /\ h[11] = NoteSegment /\ h[12] = 19 /\ h[13] = 3 + l /\ h[14] = 1
      /\ h[17] = Gnu /\ h[18] = 1 /\ h[20] = Sui /\ h[21] = 1 + l /\ h[22] = SectionName
  <2>1. h[1] = Elf /\ h[2] = 3 /\ h[3] = LoadSegment
        BY <1>1
  <2>2. h[7] = NoteSegment /\ h[8] = 16 /\ h[9] = 3 /\ h[10] = 1
        BY <1>1
  <2>3. h[11] = NoteSegment /\ h[12] = 19 /\ h[13] = x /\ h[14] = 1
        BY <1>1
  <2>4. h[17] = Gnu /\ h[18] = 1
        BY <1>1
  <2>5. h[20] = Sui /\ h[21] = y /\ h[22] = SectionName
        BY <1>1
  <2> QED
        BY <2>1, <2>2, <2>3, <2>4, <2>5 DEF x, y
<1>3. Len(im) \in Nat
      OBVIOUS
<1> DEFINE n == Len(im)
<1>4. \A i \in 1..22 : n >= i => im[i] = h[i]
      BY <1>3
<1> HIDE DEF n
<1>5. n \in Nat
      BY <1>3 DEF n
<1>6. /\ n >= 1 => im[1] = h[1]
      /\ n >= 2 => im[2] = h[2]
      BY <1>4
<1>7. n >= 6 => im[3] = h[3]
  <2>1. n >= 6 => n >= 3
        BY <1>5
  <2> QED
        BY <1>4, <2>1
<1>8. n >= 10 => im[7] = h[7] /\ im[8] = h[8] /\ im[9] = h[9] /\ im[10] = h[10]
  <2>1. n >= 10 => n >= 7 /\ n >= 8 /\ n >= 9
        BY <1>5
  <2> QED
        BY <1>4, <2>1
<1>9. n >= 14 => im[11] = h[11] /\ im[12] = h[12] /\ im[13] = h[13] /\ im[14] = h[14]
  <2>1. n >= 14 => n >= 11 /\ n >= 12 /\ n >= 13
        BY <1>5
  <2> QED
        BY <1>4, <2>1
<1>10. n >= 19 => im[17] = h[17] /\ im[18] = h[18]
  <2>1. n >= 19 => n >= 17 /\ n >= 18
        BY <1>5
  <2> QED
        BY <1>4, <2>1
<1>11. n >= 22 => im[20] = h[20] /\ im[21] = h[21] /\ im[22] = h[22]
  <2>1. n >= 22 => n >= 20 /\ n >= 21
        BY <1>5
  <2> QED
        BY <1>4, <2>1
<1> QED
      BY <1>2, <1>6, <1>7, <1>8, <1>9, <1>10, <1>11 DEF n, ElfShape

(* The section of an ELF image is found when all of it is there, and only    *)
(* then (lib.rs:396-470).                                                    *)
LEMMA ElfLocated ==
  ASSUME WordAssumption, NEW data \in Seq(Int), 22 + Len(data) < WordSize, NEW im,
         Carries(im, HostHead("elf", Len(data)), data)
  PROVE  LocateSection(im) = IF Len(im) >= 22 + Len(data) THEN [found |-> TRUE, data |-> data] ELSE NoSection
<1> DEFINE l == Len(data)
           n == Len(im)
           h == HostHead("elf", l)
           H == ElfHits(im)
<1>1. im \in Seq(Int) /\ n \in Nat /\ l \in Nat /\ 22 + l < WordSize
      BY DEF Carries
<1>2. Len(h) = 22
  <2>1. "elf" \in Host /\ l \in Nat
        BY <1>1 DEF Host
  <2> QED
        BY <2>1, HeadCells DEF HeadLength
<1>3. /\ \A i \in 1..22 : i <= n => im[i] = h[i]
      /\ \A j \in 1..l : 22 + j <= n => im[22 + j] = data[j]
      BY <1>2 DEF Carries
<1>4. /\ n >= 1 => im[1] = Elf
      /\ n >= 2 => im[2] = 3
      /\ n >= 6 => im[3] = LoadSegment
      /\ n >= 10 => im[7] = NoteSegment /\ im[8] = 16 /\ im[9] = 3 /\ im[10] = 1
      /\ n >= 14 => im[11] = NoteSegment /\ im[12] = 19 /\ im[13] = 3 + l /\ im[14] = 1
      /\ n >= 19 => im[17] = Gnu /\ im[18] = 1
      /\ n >= 22 => im[20] = Sui /\ im[21] = 1 + l /\ im[22] = SectionName
  <2>1. \A i \in 1..22 : i <= Len(im) => im[i] = h[i]
        BY <1>3
  <2>2. im \in Seq(Int) /\ l \in Nat /\ h = HostHead("elf", l)
        BY <1>1
  <2> HIDE DEF h, l
  <2>3. ElfShape(im, l)
        BY <2>1, <2>2, ElfCells
  <2> QED
        BY <2>3 DEF ElfShape
<1> HIDE DEF h, l, n
<1>5. CASE n < 2
  <2>1. n = 0 => im = <<>>
        BY <1>1 DEF n
  <2>2. LocateElfNote(im) = NoSection
        BY <1>5, ElfFinds DEF n
  <2>3. LocateSection(im) = NoSection
    <3>1. CASE im = <<>>
          BY <3>1, LocateBy
    <3>2. CASE im # <<>>
      <4>1. im[1] = Elf
            BY <1>1, <1>4, <2>1, <3>2
      <4> QED
            BY <2>2, <3>2, <4>1, LocateBy
    <3> QED
          BY <3>1, <3>2
  <2>4. ~(n >= 22 + l)
        BY <1>1, <1>5
  <2> QED
        BY <2>3, <2>4 DEF n, l
<1>6. CASE n >= 2
  <2>1. im # <<>> /\ im[1] = Elf
        BY <1>1, <1>4, <1>6 DEF n
  <2>2. LocateSection(im) = LocateElfNote(im)
        BY <2>1, LocateBy
  <2>3. Num(1) = 1 /\ Num(3) = 3 /\ Num(16) = 16 /\ Num(19) = 19 /\ Num(3 + l) = 3 + l
    <3>1. 1 \in Word /\ 3 \in Word /\ 16 \in Word /\ 19 \in Word /\ 3 + l \in Word
          BY <1>1 DEF Word, WordAssumption
    <3>2. \A c \in Word : c \in Int
          BY DEF Word, WordAssumption
    <3> QED
          BY <3>1, <3>2, NumIsWord
  <2>4. ElfLooked(im) \subseteq 0..2
    <3>1. Num(im[2]) - 1 = 2
          BY <1>4, <1>6, <2>3
    <3> QED
          BY <3>1 DEF ElfLooked
  <2>5. 0 \notin H
    <3> SUFFICES ASSUME 0 \in ElfLooked(im) PROVE ~NotesAt(im, 0)
        BY DEF ElfHits, ElfHit
    <3>1. 0 \in 0..0 /\ 2 + 4 * 0 = 2 /\ 3 + 4 * 0 = 3
          OBVIOUS
    <3>2. Fits(im, 2, 4)
          BY <3>1 DEF ElfLooked
    <3>3. n >= 6
          BY <3>2 DEF Fits, n
    <3> QED
          BY <1>4, <3>1, <3>3 DEF NotesAt, LoadSegment, NoteSegment
  <2>6. 1 \notin H
    <3> SUFFICES ASSUME 1 \in ElfLooked(im), Fits(im, OffAt(im, 1), SizeAt(im, 1))
                 PROVE  FindInNoteSegment(SegmentAt(im, 1), AlignAt(im, 1)) = NoSection
        BY DEF ElfHits, ElfHit
    <3>1. 1 \in 0..1 /\ 2 + 4 * 1 = 6 /\ 4 + 4 * 1 = 8 /\ 5 + 4 * 1 = 9 /\ 6 + 4 * 1 = 10
          OBVIOUS
    <3>2. Fits(im, 6, 4)
          BY <3>1 DEF ElfLooked
    <3>3. n >= 10
          BY <3>2 DEF Fits, n
    <3>4. OffAt(im, 1) = 16 /\ SizeAt(im, 1) = 3 /\ AlignAt(im, 1) = 1
          BY <1>4, <2>3, <3>1, <3>3 DEF OffAt, SizeAt, AlignAt
    <3>5. n >= 19
          BY <3>4 DEF Fits, n
    <3> DEFINE seg == Piece(im, 16, 3)
    <3>6. PieceAt(seg, im, 16, 3)
          BY <1>1, <3>5, CellsOf DEF n
    <3>7. seg \in Seq(Int) /\ Len(seg) = 3 /\ seg[1] = Gnu /\ seg[2] = 1
      <4>1. seg \in Seq(Int) /\ Len(seg) = 3 /\ \A i \in 1..3 : seg[i] = im[16 + i]
            BY <3>6 DEF PieceAt
      <4> HIDE DEF seg
      <4>2. seg[1] = im[16 + 1] /\ seg[2] = im[16 + 2]
            BY <4>1
      <4> QED
            BY <1>4, <3>5, <4>1, <4>2
    <3> HIDE DEF seg
    <3>8. FindInNoteSegment(seg, 1) = NoSection
          BY <3>7, GnuNotePassed
    <3> QED
          BY <3>4, <3>8 DEF SegmentAt, seg
  <2>7. CASE n < 22 + l
    <3>1. 2 \notin H
      <4> SUFFICES ASSUME 2 \in ElfLooked(im), Fits(im, OffAt(im, 2), SizeAt(im, 2)) PROVE FALSE
          BY DEF ElfHits, ElfHit
      <4>1. 2 \in 0..2 /\ 2 + 4 * 2 = 10 /\ 4 + 4 * 2 = 12 /\ 5 + 4 * 2 = 13
            OBVIOUS
      <4>2. Fits(im, 10, 4)
            BY <4>1 DEF ElfLooked
      <4>3. n >= 14
            BY <4>2 DEF Fits, n
      <4>4. OffAt(im, 2) = 19 /\ SizeAt(im, 2) = 3 + l
            BY <1>4, <2>3, <4>1, <4>3 DEF OffAt, SizeAt
      <4>5. 19 + (3 + l) <= n
            BY <4>4 DEF Fits, n
      <4> QED
            BY <1>1, <2>7, <4>5
    <3>2. H = {}
      <4>1. \A i \in 0..2 : i = 0 \/ i = 1 \/ i = 2
            OBVIOUS
      <4>2. \A i \in H : i \in 0..2
            BY <2>4 DEF ElfHits
      <4> HIDE DEF H
      <4> QED
            BY <2>5, <2>6, <3>1, <4>1, <4>2
    <3>3. LocateElfNote(im) = NoSection
          BY <3>2, ElfFinds
    <3>4. ~(n >= 22 + l)
          BY <1>1, <2>7
    <3> QED
          BY <2>2, <3>3, <3>4 DEF n, l
  <2>8. CASE n >= 22 + l
    <3>1. n >= 22
          BY <1>1, <2>8
    <3>2. /\ 3 + 4 * 2 = 11 /\ 4 + 4 * 2 = 12 /\ 5 + 4 * 2 = 13 /\ 6 + 4 * 2 = 14
          /\ 3 + 4 * 0 = 3 /\ 4 + 4 * 1 = 8 /\ 5 + 4 * 1 = 9
          OBVIOUS
    <3>3. OffAt(im, 2) = 19 /\ SizeAt(im, 2) = 3 + l /\ AlignAt(im, 2) = 1 /\ NotesAt(im, 2)
      <4>1. n >= 14
            BY <1>1, <3>1
      <4>2. /\ OffAt(im, 2) = Num(im[12]) /\ SizeAt(im, 2) = Num(im[13]) /\ AlignAt(im, 2) = Num(im[14])
            /\ NotesAt(im, 2) <=> im[11] = NoteSegment
            BY <3>2 DEF OffAt, SizeAt, AlignAt, NotesAt
      <4> QED
            BY <1>4, <2>3, <4>1, <4>2
    <3>4. OffAt(im, 1) = 16 /\ SizeAt(im, 1) = 3 /\ ~NotesAt(im, 0)
      <4>1. n >= 10 /\ n >= 6
            BY <1>1, <3>1
      <4>2. OffAt(im, 1) = Num(im[8]) /\ SizeAt(im, 1) = Num(im[9]) /\ (NotesAt(im, 0) <=> im[3] = NoteSegment)
            BY <3>2 DEF OffAt, SizeAt, NotesAt
      <4>3. LoadSegment # NoteSegment
            BY DEF LoadSegment, NoteSegment
      <4> QED
            BY <1>4, <2>3, <4>1, <4>2, <4>3
    <3>5. 2 \in ElfLooked(im)
      <4>1. Num(im[2]) - 1 = 2 /\ 2 \in 0..2
            BY <1>4, <1>6, <2>3
      <4>2. \A j \in 0..2 : Fits(im, 2 + 4 * j, 4)
        <5> TAKE j \in 0..2
        <5>1. 2 + 4 * j + 4 <= n /\ 2 + 4 * j + 4 < WordSize
              BY <1>1, <3>1 DEF WordAssumption
        <5> QED
              BY <5>1 DEF Fits, n
      <4>3. \A j \in 0..2 : NotesAt(im, j) => OffAt(im, j) + SizeAt(im, j) < WordSize
        <5>1. \A j \in 0..2 : j = 0 \/ j = 1 \/ j = 2
              OBVIOUS
        <5>2. 16 + 3 < WordSize /\ 19 + (3 + l) < WordSize
              BY <1>1 DEF WordAssumption
        <5>3. OffAt(im, 1) + SizeAt(im, 1) < WordSize /\ OffAt(im, 2) + SizeAt(im, 2) < WordSize
              BY <3>3, <3>4, <5>2
        <5> QED
              BY <3>4, <5>1, <5>3
      <4> QED
            BY <4>1, <4>2, <4>3 DEF ElfLooked
    <3> DEFINE seg == Piece(im, 19, 3 + l)
    <3>6. PieceAt(seg, im, 19, 3 + l)
      <4>1. 19 + (3 + l) <= n /\ 3 + l \in Nat /\ 19 \in Nat
            BY <1>1, <2>8
      <4> QED
            BY <1>1, <4>1, CellsOf DEF n
    <3>7. FindInNoteSegment(seg, 1) = [found |-> TRUE, data |-> data]
      <4>1. seg \in Seq(Int) /\ Len(seg) = 3 + l /\ \A i \in 1..(3 + l) : seg[i] = im[19 + i]
            BY <3>6 DEF PieceAt
      <4> HIDE DEF seg
      <4>2. 1 \in 1..(3 + l) /\ 2 \in 1..(3 + l) /\ 3 \in 1..(3 + l)
            BY <1>1
      <4>3. seg[1] = im[19 + 1] /\ seg[2] = im[19 + 2] /\ seg[3] = im[19 + 3]
            BY <4>1, <4>2
      <4>4. seg[1] = Sui /\ seg[2] = 1 + l /\ seg[3] = SectionName
            BY <1>4, <3>1, <4>3
      <4>5. ASSUME NEW j \in 1..l PROVE seg[3 + j] = data[j]
        <5>1. 3 + j \in 1..(3 + l) /\ 19 + (3 + j) = 22 + j /\ 22 + j <= n
              BY <1>1, <2>8
        <5>2. seg[3 + j] = im[19 + (3 + j)]
              BY <4>1, <5>1
        <5>3. im[22 + j] = data[j]
              BY <1>3, <5>1 DEF n, l
        <5> QED
              BY <5>1, <5>2, <5>3
      <4>6. 3 + l < WordSize
            BY <1>1 DEF WordAssumption
      <4> QED
            BY <4>1, <4>4, <4>5, <4>6, SuiNoteFound DEF l
    <3> HIDE DEF seg
    <3>8. SegmentAt(im, 2) = seg
          BY <3>3 DEF SegmentAt, seg
    <3>9. 2 \in H
      <4>1. Fits(im, 19, 3 + l)
        <5>1. 19 + (3 + l) <= n /\ 19 + (3 + l) < WordSize
              BY <1>1, <2>8 DEF WordAssumption
        <5> QED
              BY <5>1 DEF Fits, n
      <4>2. FindInNoteSegment(seg, 1) # NoSection
            BY <3>7, EndsDiffer
      <4> QED
            BY <3>3, <3>5, <3>8, <4>1, <4>2 DEF ElfHits, ElfHit
    <3>10. \A i \in H : i \in 0..2
           BY <2>4 DEF ElfHits
    <3> HIDE DEF H
    <3>11. H = {2}
      <4>1. \A i \in 0..2 : i = 0 \/ i = 1 \/ i = 2
            OBVIOUS
      <4> QED
            BY <2>5, <2>6, <3>9, <3>10, <4>1
    <3>12. Least(H) = 2
      <4>1. 2 \in Int
            OBVIOUS
      <4>2. Least({2}) = 2
            BY <4>1, OnlyOne
      <4> QED
            BY <3>11, <4>2
    <3>13. LocateElfNote(im) = FindInNoteSegment(SegmentAt(im, 2), AlignAt(im, 2))
      <4>1. ~(Len(im) < 2) /\ ElfHits(im) # {} /\ Least(ElfHits(im)) = 2
            BY <1>1, <1>6, <3>11, <3>12 DEF H, n
      <4> QED
            BY <4>1, ElfFinds
    <3> QED
          BY <2>2, <2>8, <3>3, <3>7, <3>8, <3>13 DEF n, l
  <2> QED
        BY <1>1, <2>7, <2>8
<1> QED
      BY <1>1, <1>5, <1>6

(* In the launcher without a section, and what follows it, none is found     *)
(* (lib.rs:396-470).                                                         *)
LEMMA BareNotLocated ==
  ASSUME WordAssumption, NEW im \in Seq(Int), \A i \in 1..15 : i <= Len(im) => im[i] = BareLauncher[i]
  PROVE  LocateSection(im) = NoSection
<1> DEFINE n == Len(im)
<1>1. n \in Nat
      OBVIOUS
<1>2. /\ n >= 1 => im[1] = Elf
      /\ n >= 2 => im[2] = 2
      /\ n >= 6 => im[3] = LoadSegment
      /\ n >= 10 => im[8] = 12 /\ im[9] = 3 /\ im[10] = 1
      /\ n >= 15 => im[13] = Gnu /\ im[14] = 1
  <2>1. \A i \in 1..15 : n >= i => im[i] = BareLauncher[i]
        BY <1>1
  <2> HIDE DEF n
  <2>2. (n >= 6 => n >= 3) /\ (n >= 10 => n >= 8 /\ n >= 9) /\ (n >= 15 => n >= 13 /\ n >= 14)
        BY <1>1
  <2> QED
        BY <2>1, <2>2, BareCells
<1> HIDE DEF n
<1>3. CASE im = <<>>
      BY <1>3, LocateBy
<1>4. CASE im # <<>>
  <2>1. n # 0
        BY <1>4 DEF n
  <2>2. LocateSection(im) = LocateElfNote(im)
        BY <1>1, <1>2, <1>4, <2>1, LocateBy
  <2>3. CASE n < 2
        BY <2>2, <2>3, ElfFinds DEF n
  <2>4. CASE n >= 2
    <3>1. Num(1) = 1 /\ Num(2) = 2 /\ Num(12) = 12 /\ Num(3) = 3
      <4>1. 1 \in Word /\ 2 \in Word /\ 12 \in Word /\ 3 \in Word
            BY DEF Word, WordAssumption
      <4>2. \A c \in Word : c \in Int
            BY DEF Word, WordAssumption
      <4> QED
            BY <4>1, <4>2, NumIsWord
    <3>2. \A i \in ElfHits(im) : i \in 0..1
      <4>1. Num(im[2]) - 1 = 1
            BY <1>2, <2>4, <3>1
      <4> QED
            BY <4>1 DEF ElfHits, ElfLooked
    <3>3. 0 \notin ElfHits(im)
      <4> SUFFICES ASSUME 0 \in ElfLooked(im) PROVE ~NotesAt(im, 0)
          BY DEF ElfHits, ElfHit
      <4>1. 0 \in 0..0 /\ 2 + 4 * 0 = 2 /\ 3 + 4 * 0 = 3
            OBVIOUS
      <4>2. Fits(im, 2, 4)
            BY <4>1 DEF ElfLooked
      <4>3. n >= 6
            BY <4>2 DEF Fits, n
      <4> QED
            BY <1>2, <4>1, <4>3 DEF NotesAt, LoadSegment, NoteSegment
    <3>4. 1 \notin ElfHits(im)
      <4> SUFFICES ASSUME 1 \in ElfLooked(im), Fits(im, OffAt(im, 1), SizeAt(im, 1))
                   PROVE  FindInNoteSegment(SegmentAt(im, 1), AlignAt(im, 1)) = NoSection
          BY DEF ElfHits, ElfHit
      <4>1. 1 \in 0..1 /\ 2 + 4 * 1 = 6 /\ 4 + 4 * 1 = 8 /\ 5 + 4 * 1 = 9 /\ 6 + 4 * 1 = 10
            OBVIOUS
      <4>2. Fits(im, 6, 4)
            BY <4>1 DEF ElfLooked
      <4>3. n >= 10
            BY <4>2 DEF Fits, n
      <4>4. OffAt(im, 1) = 12 /\ SizeAt(im, 1) = 3 /\ AlignAt(im, 1) = 1
            BY <1>2, <3>1, <4>1, <4>3 DEF OffAt, SizeAt, AlignAt
      <4>5. n >= 15
            BY <4>4 DEF Fits, n
      <4> DEFINE seg == Piece(im, 12, 3)
      <4>6. PieceAt(seg, im, 12, 3)
            BY <1>1, <4>5, CellsOf DEF n
      <4>7. seg \in Seq(Int) /\ Len(seg) = 3 /\ seg[1] = Gnu /\ seg[2] = 1
        <5>1. seg \in Seq(Int) /\ Len(seg) = 3 /\ \A i \in 1..3 : seg[i] = im[12 + i]
              BY <4>6 DEF PieceAt
        <5> HIDE DEF seg
        <5>2. seg[1] = im[12 + 1] /\ seg[2] = im[12 + 2]
              BY <5>1
        <5> QED
              BY <1>2, <4>5, <5>1, <5>2
      <4> HIDE DEF seg
      <4>8. FindInNoteSegment(seg, 1) = NoSection
            BY <4>7, GnuNotePassed
      <4> QED
            BY <4>4, <4>8 DEF SegmentAt, seg
    <3>5. ElfHits(im) = {}
      <4>1. \A i \in 0..1 : i = 0 \/ i = 1
            OBVIOUS
      <4> QED
            BY <3>2, <3>3, <3>4, <4>1
    <3> QED
          BY <2>2, <3>5, ElfFinds
  <2> QED
        BY <1>1, <2>3, <2>4
<1> QED
      BY <1>3, <1>4

(* What the search of an ELF image ends with comes from a segment of notes   *)
(* whose place, size and alignment are in the file (lib.rs:396-431).         *)
LEMMA ElfSearched ==
  ASSUME WordAssumption, NEW im \in Seq(Int), LocateElfNote(im) # NoSection
  PROVE  /\ Len(im) >= 2
         /\ \E i \in 0..(Num(im[2]) - 1) :
              /\ Fits(im, 2 + 4 * i, 4) /\ NotesAt(im, i)
              /\ AlignAt(im, i) \in Nat
              /\ PieceAt(SegmentAt(im, i), im, OffAt(im, i), SizeAt(im, i))
              /\ OffAt(im, i) \in Nat /\ SizeAt(im, i) \in Nat
              /\ OffAt(im, i) + SizeAt(im, i) <= Len(im)
              /\ LocateElfNote(im) = FindInNoteSegment(SegmentAt(im, i), AlignAt(im, i))
<1>1. Len(im) >= 2 /\ ElfHits(im) # {}
      BY ElfFinds
<1>2. \A i \in ElfHits(im) : i \in Nat
      BY DEF ElfHits, ElfLooked
<1>3. Least(ElfHits(im)) \in ElfHits(im)
  <2>1. ElfHits(im) \subseteq Nat
        BY <1>2
  <2>2. \E i \in ElfHits(im) : \A j \in ElfHits(im) : i <= j
        BY <1>1, <2>1, LeastNumber
  <2> QED
        BY <2>2 DEF Least
<1> DEFINE i == Least(ElfHits(im))
<1>4. LocateElfNote(im) = FindInNoteSegment(SegmentAt(im, i), AlignAt(im, i))
      BY <1>1, ElfFinds
<1>5. i \in ElfHits(im)
      BY <1>3
<1> HIDE DEF i
<1>6. i \in ElfLooked(im) /\ NotesAt(im, i) /\ Fits(im, OffAt(im, i), SizeAt(im, i))
      BY <1>5 DEF ElfHits, ElfHit
<1>7. i \in 0..(Num(im[2]) - 1) /\ Fits(im, 2 + 4 * i, 4)
      BY <1>6 DEF ElfLooked
<1>12. i \in Nat
       BY <1>2, <1>5
<1>8. 4 + 4 * i \in 1..Len(im) /\ 5 + 4 * i \in 1..Len(im) /\ 6 + 4 * i \in 1..Len(im)
  <2>1. 2 + 4 * i + 4 <= Len(im)
        BY <1>7 DEF Fits
  <2>2. Len(im) \in Nat
        OBVIOUS
  <2> DEFINE n == Len(im)
  <2>3. n \in Nat /\ 2 + 4 * i + 4 <= n
        BY <2>1, <2>2
  <2> HIDE DEF n
  <2>4. 4 + 4 * i \in 1..n /\ 5 + 4 * i \in 1..n /\ 6 + 4 * i \in 1..n
        BY <1>12, <2>3
  <2> QED
        BY <2>4 DEF n
<1>9. OffAt(im, i) \in Nat /\ SizeAt(im, i) \in Nat /\ AlignAt(im, i) \in Nat
  <2> DEFINE n == Len(im)
  <2>2. \A j \in 1..n : im[j] \in Int
        OBVIOUS
  <2> HIDE DEF n
  <2>1. im[4 + 4 * i] \in Int /\ im[5 + 4 * i] \in Int /\ im[6 + 4 * i] \in Int
        BY <1>8, <2>2 DEF n
  <2> QED
        BY <2>1, NumIsWord DEF OffAt, SizeAt, AlignAt
<1>10. OffAt(im, i) + SizeAt(im, i) <= Len(im)
       BY <1>6 DEF Fits
<1>11. PieceAt(SegmentAt(im, i), im, OffAt(im, i), SizeAt(im, i))
       BY <1>9, <1>10, CellsOf DEF SegmentAt
<1> QED
       BY <1>1, <1>4, <1>6, <1>7, <1>9, <1>10, <1>11

(* Where the section's name is nowhere, no image but the other kinds' has    *)
(* the section.                                                              *)
LEMMA NoNameNotLocated ==
  ASSUME WordAssumption, NEW im \in Seq(Int), \A i \in 1..Len(im) : im[i] # SectionName,
         im # <<>>, im[1] \notin {Pe, MachoArm, MachoIntel}
  PROVE  LocateSection(im) \in {NoSection, Endless}
<1>1. LocateElfNote(im) \in {NoSection, Endless}
  <2> SUFFICES ASSUME LocateElfNote(im) # NoSection PROVE LocateElfNote(im) \in {NoSection, Endless}
      OBVIOUS
  <2>1. PICK i : /\ PieceAt(SegmentAt(im, i), im, OffAt(im, i), SizeAt(im, i))
                 /\ OffAt(im, i) \in Nat /\ SizeAt(im, i) \in Nat
                 /\ OffAt(im, i) + SizeAt(im, i) <= Len(im)
                 /\ LocateElfNote(im) = FindInNoteSegment(SegmentAt(im, i), AlignAt(im, i))
        BY ElfSearched
  <2> DEFINE off == OffAt(im, i)
             size == SizeAt(im, i)
             seg == SegmentAt(im, i)
             align == AlignAt(im, i)
  <2>2. LocateElfNote(im) = FindInNoteSegment(seg, align) /\ off \in Nat /\ size \in Nat /\ off + size <= Len(im)
        BY <2>1
  <2>3. seg \in Seq(Int) /\ Len(seg) = size /\ \A j \in 1..size : seg[j] = im[off + j]
        BY <2>1 DEF PieceAt
  <2> HIDE DEF off, size, seg, align
  <2>4. \A j \in 1..Len(seg) : seg[j] # SectionName
    <3> TAKE j \in 1..Len(seg)
    <3>1. off + j \in 1..Len(im)
          BY <2>2, <2>3
    <3> QED
          BY <2>3, <3>1
  <2> QED
        BY <2>2, <2>3, <2>4, NoNameNoNote
<1> QED
      BY <1>1, LocateBy

-----------------------------------------------------------------------------
(* The sections of a PE image, and the entries of its resource directory.    *)
PeRows(im) == 0..(Num(im[2]) - 1)
PeHolding(im, rva) ==
  {i \in PeRows(im) : Num(im[4 + 3 * i]) <= rva /\ rva - Num(im[4 + 3 * i]) < Num(im[5 + 3 * i])}
PeOffset(im, rva) == Num(im[6 + 3 * Least(PeHolding(im, rva))]) + rva - Num(im[4 + 3 * Least(PeHolding(im, rva))])
PeBase(im) == PeOffset(im, Num(im[3]))
PeEntry(im, k) == PeBase(im) + 1 + 3 * k
PeHits(im) ==
  {k \in 0..(Num(im[PeBase(im) + 1]) - 1) :
     (\A j \in 0..k : Fits(im, PeEntry(im, j), 3)) /\ im[PeEntry(im, k) + 1] = SectionName}
PeData(im) == Num(im[PeEntry(im, Least(PeHits(im))) + 2])

(* The search of a PE image in these terms (lib.rs:481-604).                 *)
LEMMA PeFinds ==
  ASSUME NEW im
  PROVE  LocatePeResource(im) =
           IF \/ ~Fits(im, 0, 3) \/ ~Fits(im, 3, 3 * Num(im[2]))
              \/ Num(im[3]) = 0 \/ PeHolding(im, Num(im[3])) = {} \/ ~Fits(im, PeBase(im), 1)
              \/ PeHits(im) = {} \/ PeHolding(im, PeData(im)) = {}
           THEN NoSection
           ELSE Section(im, PeOffset(im, PeData(im)), Num(im[PeEntry(im, Least(PeHits(im))) + 3]))
  BY DEF LocatePeResource, PeHolding, PeOffset, PeBase, PeEntry, PeHits, PeData, PeRows

(* The cells of a PE image, as far as they are there.                        *)
PeShape(im, l) ==
  /\ Len(im) >= 1 => im[1] = Pe
  /\ Len(im) >= 9 => im[2] = 2 /\ im[3] = 30 /\ im[4] = 20 /\ im[5] = 2 /\ im[6] = 9
                     /\ im[7] = 30 /\ im[8] = 8 + l /\ im[9] = 11
  /\ Len(im) >= 3 => im[2] = 2
  /\ Len(im) >= 12 => im[12] = 2
  /\ Len(im) >= 18 => im[13] = Icon /\ im[16] = SectionName /\ im[17] = 38 /\ im[18] = l
  /\ Len(im) >= 15 => im[13] = Icon

(* The cells of a PE image.                                                  *)
LEMMA PeCells ==
  ASSUME NEW l \in Nat, NEW im \in Seq(Int), NEW h, h = HostHead("pe", l),
         \A i \in 1..19 : i <= Len(im) => im[i] = h[i]
  PROVE  PeShape(im, l)
<1> DEFINE e == 8 + l
<1>1. h = <<Pe, 2, 30, 20, 2, 9, 30, e, 11, Code, Sentinel,
            2, Icon, 37, 1, SectionName, 38, l, Code>>
      BY HostCases
<1> HIDE DEF e
<1>2. /\ h[1] = Pe /\ h[2] = 2 /\ h[3] = 30 /\ h[4] = 20 /\ h[5] = 2 /\ h[6] = 9 /\ h[7] = 30
      /\ h[8] = e /\ h[9] = 11 /\ h[12] = 2 /\ h[13] = Icon /\ h[16] = SectionName
      /\ h[17] = 38 /\ h[18] = l
  <2>1. /\ h[1] = Pe /\ h[2] = 2 /\ h[3] = 30 /\ h[4] = 20 /\ h[5] = 2 /\ h[6] = 9
        BY <1>1
  <2>2. /\ h[7] = 30 /\ h[8] = e /\ h[9] = 11 /\ h[12] = 2 /\ h[13] = Icon
        BY <1>1
  <2>3. /\ h[16] = SectionName /\ h[17] = 38 /\ h[18] = l
        BY <1>1
  <2> QED
        BY <2>1, <2>2, <2>3
<1>3. Len(im) \in Nat
      OBVIOUS
<1> DEFINE n == Len(im)
<1>4. \A i \in 1..19 : n >= i => im[i] = h[i]
      BY <1>3
<1> HIDE DEF n
<1>5. n \in Nat
      BY <1>3 DEF n
<1>6. n >= 1 => im[1] = h[1]
      BY <1>4
<1>7. n >= 9 => /\ im[2] = h[2] /\ im[3] = h[3] /\ im[4] = h[4] /\ im[5] = h[5] /\ im[6] = h[6]
                /\ im[7] = h[7] /\ im[8] = h[8] /\ im[9] = h[9]
  <2>1. n >= 9 => n >= 2 /\ n >= 3 /\ n >= 4 /\ n >= 5 /\ n >= 6 /\ n >= 7 /\ n >= 8
        BY <1>5
  <2> QED
        BY <1>4, <2>1
<1>8. n >= 3 => im[2] = h[2]
  <2>1. n >= 3 => n >= 2
        BY <1>5
  <2> QED
        BY <1>4, <2>1
<1>9. n >= 12 => im[12] = h[12]
      BY <1>4
<1>10. n >= 18 => im[13] = h[13] /\ im[16] = h[16] /\ im[17] = h[17] /\ im[18] = h[18]
  <2>1. n >= 18 => n >= 13 /\ n >= 16 /\ n >= 17
        BY <1>5
  <2> QED
        BY <1>4, <2>1
<1>11. n >= 15 => im[13] = h[13]
  <2>1. n >= 15 => n >= 13
        BY <1>5
  <2> QED
        BY <1>4, <2>1
<1> QED
      BY <1>2, <1>6, <1>7, <1>8, <1>9, <1>10, <1>11 DEF n, e, PeShape

(* Both the resource directory and the data are in the last section.         *)
LEMMA PeHolds ==
  ASSUME WordAssumption, NEW l \in Nat, 19 + l < WordSize, l >= 1, NEW im \in Seq(Int),
         im[2] = 2, im[4] = 20, im[5] = 2, im[6] = 9, im[7] = 30, im[8] = 8 + l, im[9] = 11,
         NEW rva \in {30, 38}
  PROVE  PeHolding(im, rva) = {1} /\ PeOffset(im, rva) = rva - 19
<1>1. Num(2) = 2 /\ Num(20) = 20 /\ Num(9) = 9 /\ Num(30) = 30 /\ Num(8 + l) = 8 + l /\ Num(11) = 11
  <2>1. 2 \in Word /\ 20 \in Word /\ 9 \in Word /\ 30 \in Word /\ 8 + l \in Word /\ 11 \in Word
        BY DEF Word, WordAssumption
  <2>2. \A c \in Word : c \in Int
        BY DEF Word, WordAssumption
  <2> QED
        BY <2>1, <2>2, NumIsWord
<1>2. PeRows(im) = 0..1
  <2>1. Num(im[2]) = 2 /\ 2 - 1 = 1
        BY <1>1
  <2>2. PeRows(im) = 0..(Num(im[2]) - 1)
        BY DEF PeRows
  <2> QED
        BY <2>1, <2>2
<1>3. /\ 4 + 3 * 0 = 4 /\ 5 + 3 * 0 = 5 /\ 4 + 3 * 1 = 7 /\ 5 + 3 * 1 = 8 /\ 6 + 3 * 1 = 9
      OBVIOUS
<1>4. PeHolding(im, rva) \subseteq 0..1
      BY <1>2 DEF PeHolding
<1>5. 0 \notin PeHolding(im, rva)
  <2> SUFFICES ASSUME 0 \in PeHolding(im, rva) PROVE FALSE
      OBVIOUS
  <2>1. rva - Num(im[4]) < Num(im[5])
        BY <1>3 DEF PeHolding
  <2>2. rva - 20 < 2
        BY <1>1, <2>1
  <2> QED
        BY <2>2
<1>6. 1 \in PeHolding(im, rva)
  <2>1. Num(im[7]) <= rva /\ rva - Num(im[7]) < Num(im[8])
    <3>1. 30 <= rva /\ rva - 30 < 8 + l
          OBVIOUS
    <3> QED
          BY <1>1, <3>1
  <2> QED
        BY <1>2, <1>3, <2>1 DEF PeHolding
<1>7. PeHolding(im, rva) = {1}
  <2>1. \A i \in 0..1 : i = 0 \/ i = 1
        OBVIOUS
  <2> QED
        BY <1>4, <1>5, <1>6, <2>1
<1>8. Least({1}) = 1
      BY OnlyOne
<1>9. PeOffset(im, rva) = Num(im[9]) + rva - Num(im[7])
      BY <1>3, <1>7, <1>8 DEF PeOffset
<1>10. Num(im[9]) + rva - Num(im[7]) = rva - 19
       BY <1>1
<1> QED
      BY <1>7, <1>9, <1>10

(* A section whose place and length are known is taken when all of it is     *)
(* there (the checked slices of lib.rs:396-739).                             *)
LEMMA SectionThere ==
  ASSUME NEW data \in Seq(Int), NEW im, NEW head, NEW k \in Nat, Len(head) = k, k + Len(data) < WordSize,
         Carries(im, head, data)
  PROVE  Section(im, k, Len(data)) =
           IF Len(im) >= k + Len(data) THEN [found |-> TRUE, data |-> data] ELSE NoSection
<1> DEFINE l == Len(data)
           n == Len(im)
<1>1. im \in Seq(Int) /\ n \in Nat /\ l \in Nat /\ k + l < WordSize /\ k \in Nat
      BY DEF Carries
<1>2. \A j \in 1..l : k + j <= n => im[k + j] = data[j]
      BY DEF Carries
<1> HIDE DEF l, n
<1>3. CASE n < k + l
  <2>1. ~Fits(im, k, l) /\ ~(n >= k + l)
        BY <1>1, <1>3 DEF Fits, n
  <2> QED
        BY <2>1 DEF Section, n, l
<1>4. CASE n >= k + l
  <2>1. Fits(im, k, l) /\ k + l <= n
        BY <1>1, <1>4 DEF Fits, n
  <2> DEFINE t == Piece(im, k, l)
  <2>2. PieceAt(t, im, k, l)
        BY <1>1, <2>1, CellsOf DEF n
  <2>3. Section(im, k, l) = [found |-> TRUE, data |-> t]
        BY <2>1 DEF Section
  <2> HIDE DEF t
  <2>4. t = data
    <3>1. t \in Seq(Int) /\ Len(t) = l /\ \A i \in 1..l : t[i] = im[k + i]
          BY <2>2 DEF PieceAt
    <3>2. \A i \in 1..l : im[k + i] = data[i]
          BY <1>1, <1>2, <1>4
    <3> QED
          BY <3>1, <3>2, SeqEqual DEF l
  <2> QED
        BY <1>4, <2>3, <2>4 DEF n, l
<1> QED
      BY <1>1, <1>3, <1>4

(* The section of a PE image is found when all of it is there, and only then *)
(* (lib.rs:472-630).                                                         *)
LEMMA PeLocated ==
  ASSUME WordAssumption, NEW data \in Seq(Int), 19 + Len(data) < WordSize, Len(data) >= 1, NEW im,
         Carries(im, HostHead("pe", Len(data)), data)
  PROVE  LocateSection(im) = IF Len(im) >= 19 + Len(data) THEN [found |-> TRUE, data |-> data] ELSE NoSection
<1> DEFINE l == Len(data)
           n == Len(im)
           h == HostHead("pe", l)
<1>1. im \in Seq(Int) /\ n \in Nat /\ l \in Nat /\ 19 + l < WordSize /\ l >= 1
      BY DEF Carries
<1>2. Len(h) = 19
  <2>1. "pe" \in Host /\ l \in Nat
        BY <1>1 DEF Host
  <2> QED
        BY <2>1, HeadCells DEF HeadLength
<1>3. /\ \A i \in 1..19 : i <= n => im[i] = h[i]
      /\ \A j \in 1..l : 19 + j <= n => im[19 + j] = data[j]
      BY <1>2 DEF Carries
<1>4. /\ n >= 1 => im[1] = Pe
      /\ n >= 9 => im[2] = 2 /\ im[3] = 30 /\ im[4] = 20 /\ im[5] = 2 /\ im[6] = 9
                   /\ im[7] = 30 /\ im[8] = 8 + l /\ im[9] = 11
      /\ n >= 3 => im[2] = 2
      /\ n >= 12 => im[12] = 2
      /\ n >= 18 => im[13] = Icon /\ im[16] = SectionName /\ im[17] = 38 /\ im[18] = l
      /\ n >= 15 => im[13] = Icon
  <2>1. h = HostHead("pe", l) /\ \A i \in 1..19 : i <= Len(im) => im[i] = h[i]
        BY <1>3
  <2>2. im \in Seq(Int) /\ l \in Nat
        BY <1>1
  <2> HIDE DEF h, l
  <2>3. PeShape(im, l)
        BY <2>1, <2>2, PeCells
  <2> QED
        BY <2>3 DEF PeShape
<1> HIDE DEF h, l, n
<1>5. LocateSection(im) = LocatePeResource(im) \/ (n = 0 /\ LocateSection(im) = NoSection)
  <2>1. CASE im = <<>>
    <3>1. n = 0
          BY <2>1 DEF n
    <3> QED
          BY <2>1, <3>1, LocateBy
  <2>2. CASE im # <<>>
    <3>1. n # 0
          BY <1>1, <2>2 DEF n
    <3> QED
          BY <1>1, <1>4, <2>2, <3>1, LocateBy
  <2> QED
        BY <2>1, <2>2
<1>6. Num(2) = 2 /\ Num(30) = 30 /\ Num(38) = 38 /\ Num(l) = l
  <2>1. 2 \in Word /\ 30 \in Word /\ 38 \in Word /\ l \in Word
        BY <1>1 DEF Word, WordAssumption
  <2>2. \A c \in Word : c \in Int
        BY DEF Word, WordAssumption
  <2> QED
        BY <2>1, <2>2, NumIsWord
<1>7. CASE n < 9
  <2>1. ~Fits(im, 0, 3) \/ ~Fits(im, 3, 3 * Num(im[2]))
    <3> SUFFICES ASSUME Fits(im, 0, 3) PROVE ~Fits(im, 3, 3 * Num(im[2]))
        OBVIOUS
    <3>1. n >= 3
          BY DEF Fits, n
    <3>2. 3 * Num(im[2]) = 6
          BY <1>4, <1>6, <3>1
    <3>3. ~(3 + 6 <= n)
          BY <1>1, <1>7
    <3> QED
          BY <3>2, <3>3 DEF Fits, n
  <2>2. LocatePeResource(im) = NoSection
        BY <2>1, PeFinds
  <2>3. ~(n >= 19 + l)
        BY <1>1, <1>7
  <2> QED
        BY <1>5, <2>2, <2>3 DEF n, l
<1>8. CASE n >= 9
  <2>1. /\ im[2] = 2 /\ im[3] = 30 /\ im[4] = 20 /\ im[5] = 2 /\ im[6] = 9
        /\ im[7] = 30 /\ im[8] = 8 + l /\ im[9] = 11
        BY <1>4, <1>8
  <2>2. \A rva \in {30, 38} : PeHolding(im, rva) = {1} /\ PeOffset(im, rva) = rva - 19
        BY <1>1, <2>1, PeHolds
  <2>3. PeHolding(im, 30) = {1} /\ PeHolding(im, 38) = {1} /\ PeOffset(im, 30) = 11 /\ PeOffset(im, 38) = 19
        BY <2>2
  <2>4. Num(im[3]) = 30 /\ Num(im[2]) = 2
        BY <1>6, <2>1
  <2>5. PeBase(im) = 11
        BY <2>3, <2>4 DEF PeBase
  <2>6. PeEntry(im, 0) = 12 /\ PeEntry(im, 1) = 15
        BY <2>5 DEF PeEntry
  <2>7. LocateSection(im) = LocatePeResource(im)
        BY <1>5, <1>8
  <2>8. CASE n < 12
    <3>1. ~Fits(im, 11, 1)
          BY <1>1, <2>8 DEF Fits, n
    <3>2. LocatePeResource(im) = NoSection
          BY <2>5, <3>1, PeFinds
    <3>3. ~(n >= 19 + l)
          BY <1>1, <2>8
    <3> QED
          BY <2>7, <3>2, <3>3 DEF n, l
  <2>9. CASE n >= 12
    <3>1. Num(im[PeBase(im) + 1]) - 1 = 1
      <4>1. PeBase(im) + 1 = 12
            BY <2>5
      <4> QED
            BY <1>4, <1>6, <2>9, <4>1
    <3>2. \A k \in PeHits(im) : k \in 0..1 /\ (\A j \in 0..k : Fits(im, PeEntry(im, j), 3)) /\ im[PeEntry(im, k) + 1] = SectionName
          BY <3>1 DEF PeHits
    <3>3. 0 \notin PeHits(im)
      <4> SUFFICES ASSUME 0 \in PeHits(im) PROVE FALSE
          OBVIOUS
      <4>1. 0 \in 0..0 /\ 12 + 1 = 13
            OBVIOUS
      <4>2. Fits(im, 12, 3) /\ im[13] = SectionName
            BY <2>6, <3>2, <4>1
      <4>3. n >= 15
            BY <4>2 DEF Fits, n
      <4> QED
            BY <1>4, <4>2, <4>3 DEF Icon, SectionName
    <3>4. CASE n < 18
      <4>1. 1 \notin PeHits(im)
        <5> SUFFICES ASSUME 1 \in PeHits(im) PROVE FALSE
            OBVIOUS
        <5>1. 1 \in 0..1
              OBVIOUS
        <5>2. Fits(im, 15, 3)
              BY <2>6, <3>2, <5>1
        <5> QED
              BY <1>1, <3>4, <5>2 DEF Fits, n
      <4>2. PeHits(im) = {}
        <5>1. \A i \in 0..1 : i = 0 \/ i = 1
              OBVIOUS
        <5> QED
              BY <3>2, <3>3, <4>1, <5>1
      <4>3. LocatePeResource(im) = NoSection
            BY <4>2, PeFinds
      <4>4. ~(n >= 19 + l)
            BY <1>1, <3>4
      <4> QED
            BY <2>7, <4>3, <4>4 DEF n, l
    <3>5. CASE n >= 18
      <4>1. 15 + 1 = 16 /\ 15 + 2 = 17 /\ 15 + 3 = 18
            OBVIOUS
      <4>2. im[16] = SectionName /\ im[17] = 38 /\ im[18] = l
            BY <1>4, <3>5
      <4>3. 1 \in PeHits(im)
        <5>1. \A j \in 0..1 : j = 0 \/ j = 1
              OBVIOUS
        <5>2. Fits(im, 12, 3) /\ Fits(im, 15, 3)
          <6>1. 12 + 3 <= n /\ 15 + 3 <= n /\ 12 + 3 < WordSize /\ 15 + 3 < WordSize
                BY <1>1, <3>5 DEF WordAssumption
          <6> QED
                BY <6>1 DEF Fits, n
        <5>3. \A j \in 0..1 : Fits(im, PeEntry(im, j), 3)
              BY <2>6, <5>1, <5>2
        <5>4. im[PeEntry(im, 1) + 1] = SectionName /\ 1 \in 0..1
              BY <2>6, <4>1, <4>2
        <5> QED
              BY <3>1, <5>3, <5>4 DEF PeHits
      <4>4. PeHits(im) = {1}
        <5>1. \A i \in 0..1 : i = 0 \/ i = 1
              OBVIOUS
        <5> QED
              BY <3>2, <3>3, <4>3, <5>1
      <4>5. Least({1}) = 1
            BY OnlyOne
      <4>6. PeData(im) = 38 /\ Num(im[PeEntry(im, Least(PeHits(im))) + 3]) = l
            BY <1>6, <2>6, <4>1, <4>2, <4>4, <4>5 DEF PeData
      <4>7. Fits(im, 0, 3) /\ Fits(im, 3, 3 * Num(im[2])) /\ Fits(im, 11, 1)
        <5>1. 0 + 3 <= n /\ 3 + 6 <= n /\ 11 + 1 <= n /\ 0 + 3 < WordSize /\ 3 + 6 < WordSize /\ 11 + 1 < WordSize
              BY <1>1, <2>9 DEF WordAssumption
        <5>2. 3 * Num(im[2]) = 6
              BY <2>4
        <5> QED
              BY <5>1, <5>2 DEF Fits, n
      <4>8. LocatePeResource(im) = Section(im, 19, l)
        <5>1. PeHolding(im, Num(im[3])) # {} /\ PeHolding(im, PeData(im)) # {} /\ PeHits(im) # {} /\ Num(im[3]) # 0
          <6>1. PeHolding(im, Num(im[3])) = {1} /\ PeHolding(im, PeData(im)) = {1}
                BY <2>3, <2>4, <4>6
          <6>2. 30 # 0
                OBVIOUS
          <6> QED
                BY <2>4, <4>4, <6>1, <6>2
        <5>2. PeOffset(im, PeData(im)) = 19
              BY <2>3, <4>6
        <5> QED
              BY <2>5, <4>6, <4>7, <5>1, <5>2, PeFinds
      <4>9. LocateSection(im) = Section(im, 19, l)
            BY <2>7, <4>8
      <4> QED
        <5>1. Len(h) = 19 /\ 19 + Len(data) < WordSize /\ Carries(im, h, data)
              BY <1>2 DEF h, l
        <5> QED
              BY <4>9, <5>1, SectionThere DEF l
    <3> QED
          BY <1>1, <3>4, <3>5
  <2> QED
        BY <1>1, <2>8, <2>9
<1> QED
      BY <1>1, <1>7, <1>8

(* The cells of a Mach-O image, as far as they are there.                    *)
MachoArmShape(im, l) ==
  /\ Len(im) >= 1 => im[1] = MachoArm
  /\ Len(im) >= 2 => im[2] = 2
  /\ Len(im) >= 8 => im[3] = Code /\ im[6] = Sui /\ im[7] = 10 /\ im[8] = l
MachoIntelShape(im, l) ==
  /\ Len(im) >= 1 => im[1] = MachoIntel
  /\ Len(im) >= 3 => im[3] = Code
  /\ Len(im) >= 6 => im[4] = Sentinel /\ im[5] = SentinelMagic /\ im[6] = l

(* These are the cells that were written (libsui's Mach-O writer).           *)
LEMMA MachoCells ==
  ASSUME NEW l \in Nat, NEW im \in Seq(Int), NEW host \in {"macho-arm", "macho-intel"},
         NEW h, h = HostHead(host, l), \A i \in 1..HeadLength(host) : i <= Len(im) => im[i] = h[i]
  PROVE  IF host = "macho-arm" THEN MachoArmShape(im, l) ELSE MachoIntelShape(im, l)
<1> DEFINE n == Len(im)
<1>1. n \in Nat
      OBVIOUS
<1>2. CASE host = "macho-arm"
  <2>1. h = <<MachoArm, 2, Code, 8, 2, Sui, 10, l, Code, Sentinel>>
        BY <1>2, HostCases
  <2>2. h[1] = MachoArm /\ h[2] = 2 /\ h[3] = Code /\ h[6] = Sui /\ h[7] = 10 /\ h[8] = l
        BY <2>1
  <2>3. \A i \in 1..10 : n >= i => im[i] = h[i]
        BY <1>1, <1>2 DEF HeadLength
  <2> HIDE DEF n
  <2>4. (n >= 1 => im[1] = h[1]) /\ (n >= 2 => im[2] = h[2])
        BY <2>3
  <2>5. n >= 8 => im[3] = h[3] /\ im[6] = h[6] /\ im[7] = h[7] /\ im[8] = h[8]
    <3>1. n >= 8 => n >= 3 /\ n >= 6 /\ n >= 7
          BY <1>1
    <3> QED
          BY <2>3, <3>1
  <2>6. MachoArmShape(im, l)
        BY <2>2, <2>4, <2>5 DEF MachoArmShape, n
  <2> QED
        BY <1>2, <2>6
<1>3. CASE host = "macho-intel"
  <2>1. h = <<MachoIntel, Sentinel, Code, Sentinel, SentinelMagic, l>>
        BY <1>3, HostCases
  <2>2. h[1] = MachoIntel /\ h[3] = Code /\ h[4] = Sentinel /\ h[5] = SentinelMagic /\ h[6] = l
        BY <2>1
  <2>0. host # "macho-arm"
        BY <1>3
  <2>3. \A i \in 1..6 : n >= i => im[i] = h[i]
        BY <1>1, <1>3 DEF HeadLength
  <2> HIDE DEF n
  <2>4. (n >= 1 => im[1] = h[1]) /\ (n >= 3 => im[3] = h[3])
        BY <2>3
  <2>5. n >= 6 => im[4] = h[4] /\ im[5] = h[5] /\ im[6] = h[6]
    <3>1. n >= 6 => n >= 4 /\ n >= 5
          BY <1>1
    <3> QED
          BY <2>3, <3>1
  <2>6. MachoIntelShape(im, l)
        BY <2>2, <2>4, <2>5 DEF MachoIntelShape, n
  <2> QED
        BY <2>0, <2>6
<1> QED
      BY <1>2, <1>3

(* The section of a Mach-O image for ARM is found when all of it is there,   *)
(* and only then (lib.rs:632-700).                                           *)
LEMMA MachoArmLocated ==
  ASSUME WordAssumption, NEW data \in Seq(Int), 10 + Len(data) < WordSize, NEW im,
         Carries(im, HostHead("macho-arm", Len(data)), data)
  PROVE  LocateSection(im) = IF Len(im) >= 10 + Len(data) THEN [found |-> TRUE, data |-> data] ELSE NoSection
<1> DEFINE l == Len(data)
           n == Len(im)
           h == HostHead("macho-arm", l)
<1>1. im \in Seq(Int) /\ n \in Nat /\ l \in Nat /\ 10 + l < WordSize
      BY DEF Carries
<1>2. Len(h) = 10
  <2>1. "macho-arm" \in Host /\ l \in Nat /\ "macho-arm" \notin {"elf", "pe"}
        BY <1>1 DEF Host
  <2> QED
        BY <2>1, HeadCells DEF HeadLength
<1>3. Section(im, 10, l) = IF n >= 10 + l THEN [found |-> TRUE, data |-> data] ELSE NoSection
  <2> HIDE DEF h
  <2>1. 10 \in Nat /\ Carries(im, h, data)
        BY DEF h
  <2> QED
        BY <1>1, <1>2, <2>1, SectionThere
<1>4. MachoArmShape(im, l)
  <2>1. \A i \in 1..10 : i <= Len(im) => im[i] = h[i]
        BY <1>2 DEF Carries
  <2> DEFINE host == "macho-arm"
  <2>2. host \in {"macho-arm", "macho-intel"} /\ HeadLength(host) = 10 /\ h = HostHead(host, l) /\ host = "macho-arm"
        BY DEF HeadLength
  <2>3. \A i \in 1..HeadLength(host) : i <= Len(im) => im[i] = h[i]
        BY <2>1, <2>2
  <2> HIDE DEF h, host, l
  <2>4. im \in Seq(Int) /\ l \in Nat
        BY <1>1
  <2>5. IF host = "macho-arm" THEN MachoArmShape(im, l) ELSE MachoIntelShape(im, l)
        BY <2>2, <2>3, <2>4, MachoCells
  <2> QED
        BY <2>2, <2>5
<1> HIDE DEF h, l, n
<1>5. (n >= 1 => im[1] = MachoArm) /\ (n >= 2 => im[2] = 2)
      /\ (n >= 8 => im[3] = Code /\ im[6] = Sui /\ im[7] = 10 /\ im[8] = l)
      BY <1>4 DEF MachoArmShape, n
<1>6. Num(2) = 2 /\ Num(10) = 10 /\ Num(l) = l
  <2>1. 2 \in Word /\ 10 \in Word /\ l \in Word
        BY <1>1 DEF Word, WordAssumption
  <2>2. \A c \in Word : c \in Int
        BY DEF Word, WordAssumption
  <2> QED
        BY <2>1, <2>2, NumIsWord
<1>7. (n # 0 /\ LocateSection(im) = LocateMachoSection(im)) \/ (n = 0 /\ LocateSection(im) = NoSection)
  <2>1. CASE im = <<>>
    <3>1. n = 0
          BY <2>1 DEF n
    <3> QED
          BY <2>1, <3>1, LocateBy
  <2>2. CASE im # <<>>
    <3>1. n # 0
          BY <1>1, <2>2 DEF n
    <3>2. im[1] = MachoArm
          BY <1>1, <1>5, <3>1
    <3> QED
          BY <2>2, <3>1, <3>2, LocateBy
  <2> QED
        BY <2>1, <2>2
<1> DEFINE c == IF Len(im) < 2 THEN 0 ELSE Num(im[2])
           hits == {i \in 0..(c - 1) : im[3 + 3 * i] = Sui}
<1>8. LocateMachoSection(im) =
        IF Len(im) < 2 \/ ~Fits(im, 2, 3 * c) THEN NoSection
        ELSE IF hits = {} THEN LocateSentinel(im)
        ELSE Section(im, Num(im[4 + 3 * Least(hits)]), Num(im[5 + 3 * Least(hits)]))
      BY DEF LocateMachoSection
<1>9. n >= 2 => c = 2
      BY <1>1, <1>5, <1>6 DEF n
<1> HIDE DEF c
<1>10. CASE n < 8
  <2>1. Len(im) < 2 \/ ~Fits(im, 2, 3 * c)
    <3> SUFFICES ASSUME n >= 2 PROVE ~Fits(im, 2, 3 * c)
        BY <1>1 DEF n
    <3>1. 3 * c = 6 /\ ~(2 + 6 <= n)
          BY <1>1, <1>9, <1>10
    <3> QED
          BY <3>1 DEF Fits, n
  <2>2. LocateMachoSection(im) = NoSection
        BY <1>8, <2>1
  <2>3. ~(n >= 10 + l)
        BY <1>1, <1>10
  <2> QED
        BY <1>7, <2>2, <2>3 DEF n, l
<1>11. CASE n >= 8
  <2>1. im[3] = Code /\ im[6] = Sui /\ im[7] = 10 /\ im[8] = l /\ c = 2 /\ n >= 2
        BY <1>1, <1>5, <1>9, <1>11
  <2>2. 3 + 3 * 0 = 3 /\ 3 + 3 * 1 = 6 /\ 4 + 3 * 1 = 7 /\ 5 + 3 * 1 = 8 /\ c - 1 = 1
        BY <2>1
  <2>3. hits = {1}
    <3>1. 0 \notin hits
          BY <2>1, <2>2 DEF Code, Sui
    <3>2. 1 \in hits
          BY <2>1, <2>2
    <3>3. \A i \in hits : i = 0 \/ i = 1
          BY <2>2
    <3> HIDE DEF hits
    <3> QED
          BY <3>1, <3>2, <3>3
  <2> HIDE DEF hits
  <2>4. Least(hits) = 1
        BY <2>3, OnlyOne
  <2>5. Fits(im, 2, 3 * c) /\ ~(Len(im) < 2)
    <3>1. 3 * c = 6 /\ 2 + 6 <= n /\ 2 + 6 < WordSize /\ ~(n < 2)
          BY <1>1, <1>11, <2>1 DEF WordAssumption
    <3> QED
          BY <3>1 DEF Fits, n
  <2>6. LocateMachoSection(im) = Section(im, 10, l)
        BY <1>6, <1>8, <2>1, <2>2, <2>3, <2>4, <2>5
  <2>7. n # 0
        BY <1>1, <1>11
  <2> QED
        BY <1>3, <1>7, <2>6, <2>7 DEF n, l
<1> QED
      BY <1>1, <1>10, <1>11

(* The section of a Mach-O image for Intel is found behind the first         *)
(* sentinel that the magic follows (lib.rs:702-739).                         *)
LEMMA MachoIntelLocated ==
  ASSUME WordAssumption, NEW data \in Seq(Int), 6 + Len(data) < WordSize, NEW im,
         Carries(im, HostHead("macho-intel", Len(data)), data)
  PROVE  LocateSection(im) = IF Len(im) >= 6 + Len(data) THEN [found |-> TRUE, data |-> data] ELSE NoSection
<1> DEFINE l == Len(data)
           n == Len(im)
           h == HostHead("macho-intel", l)
<1>1. im \in Seq(Int) /\ n \in Nat /\ l \in Nat /\ 6 + l < WordSize
      BY DEF Carries
<1>2. Len(h) = 6
  <2>1. "macho-intel" \in Host /\ l \in Nat /\ "macho-intel" \notin {"elf", "pe"} /\ "macho-intel" # "macho-arm"
        BY <1>1 DEF Host
  <2> QED
        BY <2>1, HeadCells DEF HeadLength
<1>3. Section(im, 6, l) = IF n >= 6 + l THEN [found |-> TRUE, data |-> data] ELSE NoSection
  <2> HIDE DEF h
  <2>1. 6 \in Nat /\ Carries(im, h, data)
        BY DEF h
  <2> QED
        BY <1>1, <1>2, <2>1, SectionThere
<1>4. MachoIntelShape(im, l)
  <2>1. \A i \in 1..6 : i <= Len(im) => im[i] = h[i]
        BY <1>2 DEF Carries
  <2> DEFINE host == "macho-intel"
  <2>2. host \in {"macho-arm", "macho-intel"} /\ HeadLength(host) = 6 /\ h = HostHead(host, l) /\ host # "macho-arm"
        BY DEF HeadLength
  <2>3. \A i \in 1..HeadLength(host) : i <= Len(im) => im[i] = h[i]
        BY <2>1, <2>2
  <2> HIDE DEF h, host, l
  <2>4. im \in Seq(Int) /\ l \in Nat
        BY <1>1
  <2>5. IF host = "macho-arm" THEN MachoArmShape(im, l) ELSE MachoIntelShape(im, l)
        BY <2>2, <2>3, <2>4, MachoCells
  <2> QED
        BY <2>2, <2>5
<1> HIDE DEF h, l, n
<1>5. (n >= 1 => im[1] = MachoIntel) /\ (n >= 3 => im[3] = Code)
      /\ (n >= 6 => im[4] = Sentinel /\ im[5] = SentinelMagic /\ im[6] = l)
      BY <1>4 DEF MachoIntelShape, n
<1>6. Num(l) = l
  <2>1. l \in Word
        BY <1>1 DEF Word, WordAssumption
  <2> QED
        BY <1>1, <2>1, NumIsWord
<1>7. (n # 0 /\ LocateSection(im) = LocateSentinel(im)) \/ (n = 0 /\ LocateSection(im) = NoSection)
  <2>1. CASE im = <<>>
    <3>1. n = 0
          BY <2>1 DEF n
    <3> QED
          BY <2>1, <3>1, LocateBy
  <2>2. CASE im # <<>>
    <3>1. n # 0
          BY <1>1, <2>2 DEF n
    <3>2. im[1] = MachoIntel
          BY <1>1, <1>5, <3>1
    <3> QED
          BY <2>2, <3>1, <3>2, LocateBy
  <2> QED
        BY <2>1, <2>2
<1> DEFINE at == {i \in 1..Len(im) : i + 2 <= Len(im) /\ im[i] = Sentinel /\ im[i + 1] = SentinelMagic}
<1>8. LocateSentinel(im) = IF at = {} THEN NoSection ELSE Section(im, Least(at) + 2, Num(im[Least(at) + 2]))
      BY DEF LocateSentinel
<1>9. \A i \in at : i \in Nat /\ i >= 4 /\ i + 2 <= n
  <2> TAKE i \in at
  <2>1. i \in Nat /\ i >= 1 /\ i + 2 <= n /\ im[i] = Sentinel /\ im[i + 1] = SentinelMagic
        BY DEF n
  <2>2. i # 1
        BY <1>1, <1>5, <2>1 DEF MachoIntel, Sentinel
  <2>3. i # 2
    <3> SUFFICES ASSUME i = 2 PROVE FALSE
        OBVIOUS
    <3>1. n >= 3 /\ im[3] = SentinelMagic
          BY <1>1, <2>1
    <3> QED
          BY <1>5, <3>1 DEF Code, SentinelMagic
  <2>4. i # 3
    <3> SUFFICES ASSUME i = 3 PROVE FALSE
        OBVIOUS
    <3>1. n >= 3 /\ im[3] = Sentinel
          BY <1>1, <2>1
    <3> QED
          BY <1>5, <3>1 DEF Code, Sentinel
  <2> HIDE DEF at
  <2> QED
        BY <2>1, <2>2, <2>3, <2>4
<1>10. CASE n < 6
  <2>1. at = {}
    <3> HIDE DEF at
    <3>1. \A i \in at : FALSE
          BY <1>1, <1>9, <1>10
    <3> QED
          BY <3>1
  <2>2. ~(n >= 6 + l)
        BY <1>1, <1>10
  <2> QED
        BY <1>7, <1>8, <2>1, <2>2 DEF n, l
<1>11. CASE n >= 6
  <2>1. 4 \in at
    <3>1. 4 \in 1..n /\ 4 + 2 <= n /\ 4 + 1 = 5
          BY <1>1, <1>11
    <3>2. im[4] = Sentinel /\ im[4 + 1] = SentinelMagic
          BY <1>5, <1>11, <3>1
    <3> QED
          BY <3>1, <3>2 DEF n
  <2> HIDE DEF at
  <2>2. Least(at) = 4
    <3>1. at \subseteq Int /\ \A i \in at : 4 <= i
          BY <1>9
    <3> QED
          BY <2>1, <3>1, LeastIs
  <2>3. 4 + 2 = 6 /\ im[6] = l /\ n # 0
        BY <1>1, <1>5, <1>11
  <2>4. LocateSentinel(im) = Section(im, 6, l)
        BY <1>6, <1>8, <2>1, <2>2, <2>3
  <2> QED
        BY <1>3, <1>7, <2>3, <2>4 DEF n, l
<1> QED
      BY <1>1, <1>10, <1>11

(* In every format: the section is found when all of it is there, and only   *)
(* then (lib.rs:384-739).                                                    *)
LEMMA HostLocated ==
  ASSUME WordAssumption, NEW data \in Seq(Int), Len(data) >= 1, NEW host \in Host,
         HeadLength(host) + Len(data) < WordSize, NEW im, Carries(im, HostHead(host, Len(data)), data)
  PROVE  LocateSection(im) =
           IF Len(im) >= HeadLength(host) + Len(data) THEN [found |-> TRUE, data |-> data] ELSE NoSection
<1>1. CASE host = "elf"
  <2>1. HeadLength(host) = 22
        BY <1>1 DEF HeadLength
  <2> QED
        BY <1>1, <2>1, ElfLocated
<1>2. CASE host = "pe"
  <2>1. HeadLength(host) = 19
        BY <1>2 DEF HeadLength
  <2> QED
        BY <1>2, <2>1, PeLocated
<1>3. CASE host = "macho-arm"
  <2>1. HeadLength(host) = 10
        BY <1>3 DEF HeadLength
  <2> QED
        BY <1>3, <2>1, MachoArmLocated
<1>4. CASE host = "macho-intel"
  <2>1. HeadLength(host) = 6
        BY <1>4 DEF HeadLength
  <2> QED
        BY <1>4, <2>1, MachoIntelLocated
<1> QED
      BY <1>1, <1>2, <1>3, <1>4 DEF Host

(* Nothing but the alignment of notes can keep the search from ending        *)
(* (lib.rs:384-739).                                                         *)
LEMMA LocateEndless ==
  ASSUME WordAssumption, NEW im \in Seq(Int), LocateSection(im) = Endless
  PROVE  MisalignedNotes(im)
<1>1. \A s, off, n : Section(s, off, n) # Endless
      BY EndsDiffer DEF Section
<1>2. LocateSentinel(im) # Endless
      BY <1>1, EndsDiffer DEF LocateSentinel
<1>3. LocateMachoSection(im) # Endless
      BY <1>1, <1>2, EndsDiffer DEF LocateMachoSection
<1>4. LocatePeResource(im) # Endless
      BY <1>1, EndsDiffer, PeFinds
<1>5. LocateElfNote(im) = Endless
      BY <1>2, <1>3, <1>4, EndsDiffer, LocateBy
<1>6. LocateElfNote(im) # NoSection
      BY <1>5, EndsDiffer
<1>7. Len(im) >= 2
      BY <1>6, ElfSearched
<1>8. PICK i \in 0..(Num(im[2]) - 1) :
             /\ Fits(im, 2 + 4 * i, 4) /\ NotesAt(im, i)
             /\ AlignAt(im, i) \in Nat
             /\ PieceAt(SegmentAt(im, i), im, OffAt(im, i), SizeAt(im, i))
             /\ LocateElfNote(im) = FindInNoteSegment(SegmentAt(im, i), AlignAt(im, i))
      BY <1>6, ElfSearched
<1> DEFINE seg == SegmentAt(im, i)
           align == AlignAt(im, i)
<1>9. seg \in Seq(Int)
      BY <1>8 DEF PieceAt
<1>10. FindInNoteSegment(seg, align) = Endless /\ align \in Int
       BY <1>5, <1>8
<1> HIDE DEF seg
<1>11. align > 1
  <2> HIDE DEF align
  <2> SUFFICES ASSUME ~(align > 1) PROVE FALSE
      OBVIOUS
  <2>1. align <= 1
        BY <1>10
  <2> QED
        BY <1>9, <1>10, <2>1, NotesEnd
<1>12. im[3 + 4 * i] = NoteSegment /\ Num(im[6 + 4 * i]) > 1
       BY <1>8, <1>11 DEF NotesAt, AlignAt
<1> QED
      BY <1>7, <1>8, <1>12 DEF MisalignedNotes

ArchiveShape(v, a) ==
  a \in Seq(Int) /\ Len(a) \in Nat /\ Len(a) >= 3 /\ (v = 2 => a[1] = ArchiveMagic /\ a[2] = 1)
ArchivePlain(a) == \A j \in 1..Len(a) : a[j] # FootMagic /\ a[j] # SectionName

(* How an archive begins (lib.rs:237-263).                                   *)
LEMMA ArchiveShaped ==
  ASSUME NEW p, Packaged(p), NEW v \in {1, 2}
  PROVE  ArchiveShape(v, ArchiveOf(v, p.files))
<1>1. p.files \in Seq(Packable) /\ p.files # <<>>
      BY DEF Packaged
<1>2. \A i \in 1..Len(p.files) : p.files[i].data \in Seq(Int)
  <2>1. \A i \in 1..Len(p.files) : p.files[i] \in Packable
        BY <1>1
  <2> QED
        BY <2>1 DEF Packable
<1>3. Nat \subseteq Int /\ ArchiveMagic \in Int
      BY DEF ArchiveMagic
<1> DEFINE a == ArchiveOf(v, p.files)
<1>4. ArchiveHead(Int, v, a)
      BY <1>1, <1>2, <1>3, ArchiveLaid
<1> HIDE DEF a
<1>5. ArchiveShape(v, a)
      BY <1>4 DEF ArchiveHead, ArchiveShape
<1> QED
      BY <1>5 DEF a

(* Of unmistakable files an archive has neither mark (lib.rs:237-263).       *)
LEMMA ArchivePlainly ==
  ASSUME NEW p, Packaged(p), Unmistakable(p), NEW v \in {1, 2}
  PROVE  ArchivePlain(ArchiveOf(v, p.files))
<1> DEFINE S == Int \ {FootMagic, SectionName}
<1>1. p.files \in Seq(Packable) /\ p.files # <<>>
      BY DEF Packaged
<1>2. \A i \in 1..Len(p.files) : p.files[i].data \in Seq(S)
  <2> TAKE i \in 1..Len(p.files)
  <2> DEFINE d == p.files[i].data
  <2>1. d \in Seq(Int)
    <3>1. p.files[i] \in Packable
          BY <1>1
    <3> QED
          BY <3>1 DEF Packable
  <2>2. \A j \in 1..Len(d) : d[j] \notin {FootMagic, SectionName}
        BY DEF Unmistakable
  <2> HIDE DEF d
  <2>3. \A j \in 1..Len(d) : d[j] \in S
        BY <2>1, <2>2
  <2> HIDE DEF S
  <2>4. d = [j \in 1..Len(d) |-> d[j]] /\ Len(d) \in Nat
        BY <2>1
  <2>5. d \in [1..Len(d) -> S]
        BY <2>3, <2>4
  <2>6. d \in Seq(S)
        BY <2>4, <2>5, IsASeq
  <2> QED
        BY <2>6 DEF d
<1>3. Nat \subseteq S /\ ArchiveMagic \in S
      BY DEF ArchiveMagic, FootMagic, SectionName
<1> HIDE DEF S
<1> DEFINE a == ArchiveOf(v, p.files)
<1>4. ArchiveHead(S, v, a)
      BY <1>1, <1>2, <1>3, ArchiveLaid
<1> HIDE DEF a
<1>5. \A j \in 1..Len(a) : a[j] \in S
  <2>1. a \in Seq(S)
        BY <1>4 DEF ArchiveHead
  <2> QED
        BY <2>1
<1>6. ArchivePlain(a)
      BY <1>5 DEF ArchivePlain, S
<1> QED
      BY <1>6 DEF a

SectionShape(d, m, a) ==
  /\ d \in Seq(Int) /\ Len(d) = 1 + Len(m) + Len(a) /\ d[1] = Len(m)
  /\ \A j \in 1..Len(m) : d[1 + j] = m[j]
  /\ \A j \in 1..Len(a) : d[1 + Len(m) + j] = a[j]

(* The section's content is the manifest with its length, and the archive    *)
(* (build.rs:345-352).                                                       *)
LEMMA SectionShaped ==
  ASSUME NEW p, Packaged(p)
  PROVE  SectionShape(EncodeSectionPayload(p), p.manifest, ArchiveOf(2, p.files))
<1> DEFINE m == p.manifest
           a == ArchiveOf(2, p.files)
           d == EncodeSectionPayload(p)
<1>1. a \in Seq(Int) /\ a = EncodeArchive(p.files)
  <2>1. ArchiveShape(2, a)
        BY ArchiveShaped
  <2> QED
        BY <2>1 DEF ArchiveShape, ArchiveOf
<1>2. m \in Seq(Int) /\ d = <<Len(m)>> \o m \o a
      BY <1>1 DEF Packaged, EncodeSectionPayload
<1> HIDE DEF m, a, d
<1>3. /\ d \in Seq(Int) /\ Len(d) = 1 + Len(m) + Len(a) /\ d[1] = Len(m)
      /\ \A j \in 1..Len(m) : d[1 + j] = m[j]
      /\ \A j \in 1..Len(a) : d[1 + Len(m) + j] = a[j]
      BY <1>1, <1>2, SectionLaid
<1>4. SectionShape(d, m, a)
      BY <1>3 DEF SectionShape
<1> QED
      BY <1>4 DEF m, a, d

-----------------------------------------------------------------------------
(* What the readers make of an image.                                        *)
LaunchedOf(im) ==
  LET s == LocateSection(im)
      read == IF s = Endless THEN Endless ELSE IF s.found THEN ReadSectionPayload(s.data) ELSE Refused
  IN IF read # Refused THEN read ELSE ReadTrailer(im)
ExaminedOf(im) ==
  LET s == LocateSection(im)
  IN IF s = Endless THEN Endless ELSE IF s.found THEN ReadSectionPayload(s.data) ELSE ReadTrailer(im)

(* Neither reader crashes, and both end unless notes are misaligned          *)
(* (main.rs:655-694).                                                        *)
LEMMA ReadersEnd ==
  ASSUME WordAssumption, NEW im \in Seq(Int)
  PROVE  /\ LaunchedOf(im) # Crashed /\ ExaminedOf(im) # Crashed
         /\ LaunchedOf(im) = Endless => MisalignedNotes(im)
         /\ ExaminedOf(im) = Endless => MisalignedNotes(im)
<1>1. ReadTrailer(im) # Crashed /\ ReadTrailer(im) # Endless
      BY TrailerEnds
<1>2. \A s : ReadSectionPayload(s) # Crashed /\ ReadSectionPayload(s) # Endless
      BY SectionEnds
<1>3. Endless # Crashed /\ Endless # Refused
      BY DEF Endless, Crashed, Refused
<1>4. LaunchedOf(im) # Crashed /\ ExaminedOf(im) # Crashed
      BY <1>1, <1>2, <1>3 DEF LaunchedOf, ExaminedOf
<1>5. LaunchedOf(im) = Endless \/ ExaminedOf(im) = Endless => LocateSection(im) = Endless
  <2> SUFFICES ASSUME LocateSection(im) # Endless
               PROVE  LaunchedOf(im) # Endless /\ ExaminedOf(im) # Endless
      OBVIOUS
  <2> QED
      BY <1>1, <1>2, <1>3 DEF LaunchedOf, ExaminedOf
<1> QED
      BY <1>4, <1>5, LocateEndless

(* They agree when there is no footer to fall back to, when there is no      *)
(* section, and when the search for it has no end (main.rs:655-694).         *)
LEMMA ReadersAgree ==
  ASSUME NEW im, ReadTrailer(im) = Refused \/ LocateSection(im) \in {NoSection, Endless}
  PROVE  LaunchedOf(im) = ExaminedOf(im)
<1>1. CASE LocateSection(im) = NoSection
      BY <1>1, EndsDiffer DEF LaunchedOf, ExaminedOf, NoSection
<1>2. CASE ReadTrailer(im) = Refused
      BY <1>2 DEF LaunchedOf, ExaminedOf
<1>3. CASE LocateSection(im) = Endless
  <2>1. Endless # Refused
        BY DEF Endless, Refused
  <2> QED
        BY <1>3, <2>1 DEF LaunchedOf, ExaminedOf
<1> QED
      BY <1>1, <1>2, <1>3

(* Without a section and a footer both refuse.                               *)
LEMMA BothRefuse ==
  ASSUME NEW im, ReadTrailer(im) = Refused, LocateSection(im) = NoSection
  PROVE  LaunchedOf(im) = Refused /\ ExaminedOf(im) = Refused
  BY EndsDiffer DEF LaunchedOf, ExaminedOf, NoSection

(* The sizes at which an artifact of a format is whole.                      *)
WholeAt(host, p) == HeadLength(host) + Len(EncodeSectionPayload(p))
SoWritten(im, host, p) ==
  Carries(im, HostHead(host, Len(EncodeSectionPayload(p))), EncodeSectionPayload(p))

(* Where all of the section is there, whatever follows it, both readers give *)
(* back what was packed (payload.rs, lib.rs:169-225, 384-739).               *)
LEMMA WholeReads ==
  ASSUME WordAssumption, NEW p, Packaged(p), NEW host \in Host, WholeAt(host, p) < WordSize,
         NEW im, SoWritten(im, host, p), Len(im) >= WholeAt(host, p)
  PROVE  LaunchedOf(im) = Read(p.files, p.manifest) /\ ExaminedOf(im) = Read(p.files, p.manifest)
<1> DEFINE d == EncodeSectionPayload(p)
<1>1. d \in Seq(Int) /\ Len(d) >= 1 /\ Len(d) \in Nat
  <2>1. SectionShape(d, p.manifest, ArchiveOf(2, p.files))
        BY SectionShaped
  <2>2. Len(p.manifest) \in Nat
        BY DEF Packaged
  <2>3. Len(ArchiveOf(2, p.files)) \in Nat
    <3>1. ArchiveShape(2, ArchiveOf(2, p.files))
          BY ArchiveShaped
    <3> QED
          BY <3>1 DEF ArchiveShape
  <2>4. d \in Seq(Int) /\ Len(d) = 1 + Len(p.manifest) + Len(ArchiveOf(2, p.files))
        BY <2>1 DEF SectionShape
  <2> DEFINE la == Len(ArchiveOf(2, p.files))
             lm == Len(p.manifest)
             ld == Len(d)
  <2>5. la \in Nat /\ lm \in Nat /\ ld = 1 + lm + la
        BY <2>2, <2>3, <2>4
  <2> HIDE DEF la, lm, ld
  <2>6. ld \in Nat /\ ld >= 1
        BY <2>5
  <2> QED
        BY <2>4, <2>6 DEF ld
<1>2. HeadLength(host) \in Nat
      BY DEF HeadLength
<1>3. HeadLength(host) + Len(d) < WordSize /\ Carries(im, HostHead(host, Len(d)), d)
      /\ Len(im) >= HeadLength(host) + Len(d)
      BY DEF WholeAt, SoWritten
<1>4. ReadSectionPayload(d) = Read(p.files, p.manifest)
  <2>1. Len(d) < WordSize /\ d = EncodeSectionPayload(p)
    <3> HIDE DEF d
    <3>1. Len(d) < WordSize
          BY <1>1, <1>2, <1>3 DEF WordAssumption
    <3> QED
          BY <3>1 DEF d
  <2> HIDE DEF d
  <2> QED
        BY <2>1, SectionReadsBack
<1> HIDE DEF d
<1>5. LocateSection(im) = [found |-> TRUE, data |-> d]
      BY <1>1, <1>3, HostLocated
<1>6. Read(p.files, p.manifest) # Refused
      BY DEF Read, Refused
<1>7. [found |-> TRUE, data |-> d] # Endless
      BY EndsDiffer
<1> QED
      BY <1>4, <1>5, <1>6, <1>7 DEF LaunchedOf, ExaminedOf

(* Neither mistaken for a section nor left unread: artifacts of the older    *)
(* form (lib.rs:169-225, 280-294, 396-470).                                  *)
LEMMA TrailerReads ==
  ASSUME WordAssumption, NEW p, Packaged(p), NEW v \in {1, 2},
         v = 1 => \A i \in 1..Len(p.files) : p.files[i].exec = 0,
         NEW im, im = WithTrailer(ArchiveOf(v, p.files), p.manifest), Len(im) < WordSize
  PROVE  LaunchedOf(im) = Read(p.files, p.manifest) /\ ExaminedOf(im) = Read(p.files, p.manifest)
<1>1. ReadTrailer(im) = Read(p.files, p.manifest)
      BY TrailerReadsBack
<1>2. TrailerParts(im, ArchiveOf(v, p.files), p.manifest)
  <2>1. ArchiveOf(v, p.files) \in Seq(Int)
    <3>1. ArchiveShape(v, ArchiveOf(v, p.files))
          BY ArchiveShaped
    <3> QED
          BY <3>1 DEF ArchiveShape
  <2>2. p.manifest \in Seq(Int)
        BY DEF Packaged
  <2> QED
        BY <2>1, <2>2, TrailerLaid
<1>3. im \in Seq(Int) /\ \A i \in 1..15 : im[i] = BareLauncher[i]
      BY <1>2 DEF TrailerParts
<1>4. LocateSection(im) = NoSection
  <2>1. im \in Seq(Int) /\ \A i \in 1..15 : i <= Len(im) => im[i] = BareLauncher[i]
        BY <1>3
  <2> QED
        BY <2>1, BareNotLocated
<1> QED
      BY <1>1, <1>4, EndsDiffer DEF LaunchedOf, ExaminedOf, NoSection

HostShape(im, k, m, a) ==
  /\ im \in Seq(Int)
  /\ \A i \in 1..k : i <= Len(im) => im[i] # FootMagic
  /\ k + 1 <= Len(im) => im[k + 1] = Len(m)
  /\ \A j \in 1..Len(m) : k + 1 + j <= Len(im) => im[k + 1 + j] = m[j]
  /\ \A j \in 1..Len(a) : k + 1 + Len(m) + j <= Len(im) => im[k + 1 + Len(m) + j] = a[j]

(* The parts of an image, as far as they are there.                          *)
LEMMA HostShaped ==
  ASSUME NEW p, Packaged(p), NEW host \in Host, NEW im, SoWritten(im, host, p)
  PROVE  HostShape(im, HeadLength(host), p.manifest, ArchiveOf(2, p.files))
<1> DEFINE m == p.manifest
           a == ArchiveOf(2, p.files)
           d == EncodeSectionPayload(p)
           k == HeadLength(host)
           h == HostHead(host, Len(d))
<1>1. SectionShape(d, m, a)
      BY SectionShaped
<1>2. m \in Seq(Int) /\ a \in Seq(Int) /\ k \in Nat
  <2>1. ArchiveShape(2, a)
        BY ArchiveShaped
  <2> QED
        BY <2>1 DEF Packaged, ArchiveShape, HeadLength
<1>3. d \in Seq(Int) /\ Len(d) \in Nat
  <2>1. d \in Seq(Int)
        BY <1>1 DEF SectionShape
  <2> HIDE DEF d
  <2> QED
        BY <2>1
<1>4. h \in Seq(Int \ {FootMagic}) /\ Len(h) = k
      BY <1>3, HeadCells
<1>5. Carries(im, h, d)
      BY DEF SoWritten
<1> HIDE DEF m, a, d, k, h
<1>6. /\ im \in Seq(Int)
      /\ \A i \in 1..k : i <= Len(im) => im[i] = h[i]
      /\ \A j \in 1..Len(d) : k + j <= Len(im) => im[k + j] = d[j]
      BY <1>4, <1>5 DEF Carries
<1>7. /\ Len(d) = 1 + Len(m) + Len(a) /\ d[1] = Len(m)
      /\ \A j \in 1..Len(m) : d[1 + j] = m[j]
      /\ \A j \in 1..Len(a) : d[1 + Len(m) + j] = a[j]
      BY <1>1 DEF SectionShape
<1> DEFINE n == Len(im)
           lm == Len(m)
           la == Len(a)
<1>8. n \in Nat /\ lm \in Nat /\ la \in Nat /\ k \in Nat
      BY <1>2, <1>6
<1>9. \A i \in 1..k : i <= n => im[i] # FootMagic
  <2>1. \A i \in 1..k : h[i] # FootMagic
        BY <1>4
  <2> QED
        BY <1>6, <2>1
<1> HIDE DEF n, lm, la
<1>10. k + 1 <= n => im[k + 1] = lm
  <2>1. 1 \in 1..Len(d)
        BY <1>7, <1>8 DEF lm, la
  <2> QED
        BY <1>6, <1>7, <2>1 DEF n, lm
<1>11. \A j \in 1..lm : k + 1 + j <= n => im[k + 1 + j] = m[j]
  <2> SUFFICES ASSUME NEW j \in 1..lm, k + 1 + j <= n PROVE im[k + 1 + j] = m[j]
      OBVIOUS
  <2> DEFINE i == 1 + j
  <2>1. i \in 1..Len(d) /\ k + i = k + 1 + j
        BY <1>7, <1>8 DEF lm, la
  <2>2. d[i] = m[j]
        BY <1>7 DEF lm
  <2> HIDE DEF i
  <2> QED
        BY <1>6, <2>1, <2>2 DEF n
<1>12. \A j \in 1..la : k + 1 + lm + j <= n => im[k + 1 + lm + j] = a[j]
  <2> SUFFICES ASSUME NEW j \in 1..la, k + 1 + lm + j <= n PROVE im[k + 1 + lm + j] = a[j]
      OBVIOUS
  <2> DEFINE i == 1 + lm + j
  <2>1. i \in 1..Len(d) /\ k + i = k + 1 + lm + j
        BY <1>7, <1>8 DEF lm, la
  <2>2. d[i] = a[j]
        BY <1>7 DEF lm, la
  <2> HIDE DEF i
  <2> QED
        BY <1>6, <2>1, <2>2 DEF n
<1>13. HostShape(im, k, m, a)
       BY <1>6, <1>9, <1>10, <1>11, <1>12 DEF HostShape, n, lm, la
<1> QED
       BY <1>13 DEF k, m, a

(* How long the parts are.                                                   *)
LEMMA WholeIs ==
  ASSUME NEW p, Packaged(p), NEW host \in Host
  PROVE  /\ HeadLength(host) \in Nat /\ HeadLength(host) >= 6
         /\ Len(p.manifest) \in Nat /\ Len(ArchiveOf(2, p.files)) \in Nat
         /\ Len(ArchiveOf(2, p.files)) >= 3
         /\ WholeAt(host, p) = HeadLength(host) + 1 + Len(p.manifest) + Len(ArchiveOf(2, p.files))
<1>1. ArchiveShape(2, ArchiveOf(2, p.files))
      BY ArchiveShaped
<1>2. SectionShape(EncodeSectionPayload(p), p.manifest, ArchiveOf(2, p.files))
      BY SectionShaped
<1> DEFINE la == Len(ArchiveOf(2, p.files))
           lm == Len(p.manifest)
           ld == Len(EncodeSectionPayload(p))
           k == HeadLength(host)
<1>3. la \in Nat /\ la >= 3
      BY <1>1 DEF ArchiveShape
<1>4. lm \in Nat
      BY DEF Packaged
<1>5. ld = 1 + lm + la
      BY <1>2 DEF SectionShape
<1>6. k \in Nat /\ k >= 6
      BY DEF HeadLength
<1>7. WholeAt(host, p) = k + ld
      BY DEF WholeAt
<1> HIDE DEF la, lm, ld, k
<1>8. k + ld = k + 1 + lm + la
      BY <1>3, <1>4, <1>5, <1>6
<1> QED
      BY <1>3, <1>4, <1>6, <1>7, <1>8 DEF la, lm, ld, k

(* Only the manifest's end can look like a footer.                           *)
LEMMA HostMark ==
  ASSUME NEW p, Packaged(p), Unmistakable(p), NEW host \in Host, NEW im, SoWritten(im, host, p),
         NEW i \in 1..Len(im), i <= WholeAt(host, p), im[i] = FootMagic
  PROVE  i = HeadLength(host) + 1 + Len(p.manifest)
<1> DEFINE m == p.manifest
           a == ArchiveOf(2, p.files)
           k == HeadLength(host)
           lm == Len(m)
           la == Len(a)
           n == Len(im)
<1>1. HostShape(im, k, m, a)
      BY HostShaped
<1>2. k \in Nat /\ lm \in Nat /\ la \in Nat /\ i <= k + 1 + lm + la /\ i \in Nat /\ i >= 1
  <2>1. WholeAt(host, p) = k + 1 + lm + la /\ k \in Nat /\ lm \in Nat /\ la \in Nat
        BY WholeIs
  <2> HIDE DEF k, lm, la
  <2>2. im \in Seq(Int)
        BY <1>1 DEF HostShape
  <2>3. Len(im) \in Nat
        BY <2>2
  <2> QED
        BY <2>1, <2>3
<1>3. ArchivePlain(a)
      BY ArchivePlainly
<1>4. \A j \in 1..lm : m[j] = FootMagic => j = lm
      BY DEF Unmistakable
<1>5. \A j \in 1..la : a[j] # FootMagic
      BY <1>3 DEF ArchivePlain
<1> HIDE DEF m, a, k
<1>6. /\ \A j \in 1..k : j <= n => im[j] # FootMagic
      /\ k + 1 <= n => im[k + 1] = lm
      /\ \A j \in 1..lm : k + 1 + j <= n => im[k + 1 + j] = m[j]
      /\ \A j \in 1..la : k + 1 + lm + j <= n => im[k + 1 + lm + j] = a[j]
      BY <1>1 DEF HostShape
<1>7. i <= n
      OBVIOUS
<1> HIDE DEF lm, la, n
<1>8. CASE i <= k
  <2>1. i \in 1..k
        BY <1>2, <1>8
  <2> QED
        BY <1>6, <1>7, <2>1
<1>9. CASE i = k + 1
  <2>1. im[i] = lm
        BY <1>6, <1>7, <1>9
  <2>2. lm # FootMagic
        BY <1>2 DEF FootMagic
  <2> QED
        BY <2>1, <2>2
<1>10. CASE i > k + 1 /\ i <= k + 1 + lm
  <2> DEFINE j == i - (k + 1)
  <2>1. j \in 1..lm /\ k + 1 + j = i
        BY <1>2, <1>10
  <2> HIDE DEF j
  <2>2. im[k + 1 + j] = m[j]
        BY <1>6, <1>7, <2>1
  <2>3. j = lm
        BY <1>4, <2>1, <2>2
  <2> QED
        BY <2>1, <2>3 DEF k, lm, m
<1>11. CASE i > k + 1 + lm
  <2> DEFINE j == i - (k + 1 + lm)
  <2>1. j \in 1..la /\ k + 1 + lm + j = i
        BY <1>2, <1>11
  <2> HIDE DEF j
  <2>2. im[k + 1 + lm + j] = a[j]
        BY <1>6, <1>7, <2>1
  <2> QED
        BY <1>5, <2>1, <2>2
<1> QED
      BY <1>2, <1>8, <1>9, <1>10, <1>11

(* An artifact that ends before its section does is refused                  *)
(* (lib.rs:280-294, 384-739): behind a manifest that ends in the footer's    *)
(* mark the archive's own mark is read as a length that is not there.        *)
LEMMA CutHostRefused ==
  ASSUME WordAssumption, NEW p, Packaged(p), Unmistakable(p), NEW host \in Host, WholeAt(host, p) < WordSize,
         NEW im, SoWritten(im, host, p), Len(im) < WholeAt(host, p)
  PROVE  LaunchedOf(im) = Refused /\ ExaminedOf(im) = Refused
<1> DEFINE m == p.manifest
           a == ArchiveOf(2, p.files)
           k == HeadLength(host)
           lm == Len(m)
           la == Len(a)
           n == Len(im)
           w == WholeAt(host, p)
<1>1. HostShape(im, k, m, a) /\ ArchiveShape(2, a)
      BY HostShaped, ArchiveShaped
<1>2. im \in Seq(Int) /\ n \in Nat
      BY <1>1 DEF HostShape
<1>3. k \in Nat /\ lm \in Nat /\ la \in Nat /\ la >= 3 /\ w = k + 1 + lm + la
      BY WholeIs
<1>4. LocateSection(im) = NoSection
  <2> DEFINE d == EncodeSectionPayload(p)
  <2>1. d \in Seq(Int) /\ w = k + Len(d)
    <3>1. SectionShape(d, m, a)
          BY SectionShaped
    <3> QED
          BY <3>1 DEF SectionShape, WholeAt
  <2>2. Carries(im, HostHead(host, Len(d)), d)
        BY DEF SoWritten
  <2> HIDE DEF d, w, k, lm, la, m, a
  <2>3. Len(d) \in Nat /\ Len(d) >= 1 /\ ~(n >= k + Len(d)) /\ k + Len(d) < WordSize
    <3>1. Len(d) \in Nat /\ w < WordSize /\ n < w
          BY <2>1 DEF w
    <3> DEFINE ld == Len(d)
    <3>2. ld \in Nat /\ w = k + ld
          BY <2>1, <3>1
    <3> HIDE DEF ld, n
    <3>3. ld >= 1 /\ ~(n >= k + ld)
          BY <1>2, <1>3, <3>1, <3>2
    <3> QED
          BY <2>1, <3>1, <3>3 DEF ld, n
  <2>4. LocateSection(im) = IF Len(im) >= HeadLength(host) + Len(d) THEN [found |-> TRUE, data |-> d] ELSE NoSection
    <3>1. HeadLength(host) + Len(d) < WordSize
          BY <2>3 DEF k
    <3> QED
          BY <2>1, <2>2, <2>3, <3>1, HostLocated
  <2> QED
        BY <2>3, <2>4 DEF k
<1>5. ReadTrailer(im) = Refused
  <2> SUFFICES ASSUME n >= 3, im[n - 2] = FootMagic PROVE Num(im[n - 1]) + Num(im[n]) + 3 > n
    <3>1. n >= 3 => im[n - 2] # FootMagic \/ Num(im[n - 1]) + Num(im[n]) + 3 > n
          OBVIOUS
    <3> QED
          BY <1>2, <3>1, NoFoot
  <2>1. n - 2 = k + 1 + lm
    <3> DEFINE i == n - 2
    <3>1. i \in 1..Len(im) /\ i <= WholeAt(host, p) /\ im[i] = FootMagic
      <4>1. n < w /\ w = WholeAt(host, p)
            OBVIOUS
      <4> HIDE DEF w, n
      <4>2. n - 2 \in 1..n /\ n - 2 <= w
            BY <1>2, <1>3, <4>1
      <4> QED
            BY <4>1, <4>2 DEF n
    <3> HIDE DEF i
    <3>2. i = HeadLength(host) + 1 + Len(p.manifest)
          BY <3>1, HostMark
    <3> QED
          BY <3>2 DEF i
  <2>2. a[1] = ArchiveMagic /\ a[2] = 1
        BY <1>1 DEF ArchiveShape
  <2>3. /\ \A j \in 1..la : k + 1 + lm + j <= n => im[k + 1 + lm + j] = a[j]
        BY <1>1 DEF HostShape
  <2>4. w < WordSize /\ n < w
        OBVIOUS
  <2> HIDE DEF m, a, k, lm, la, n, w
  <2>5. k + 1 + lm + 1 = n - 1 /\ k + 1 + lm + 2 = n /\ n - 1 <= n
        BY <1>2, <1>3, <2>1
  <2>6. 1 \in 1..la /\ 2 \in 1..la
        BY <1>3
  <2>7. im[n - 1] = ArchiveMagic /\ im[n] = 1
    <3>1. k + 1 + lm + 1 <= n => im[k + 1 + lm + 1] = a[1]
          BY <2>3, <2>6
    <3>2. k + 1 + lm + 2 <= n => im[k + 1 + lm + 2] = a[2]
          BY <2>3, <2>6
    <3>3. n <= n
          BY <1>2
    <3> QED
          BY <2>2, <2>5, <3>1, <3>2, <3>3
  <2>8. Num(im[n - 1]) = WordSize - 5 /\ Num(im[n]) = 1
    <3>1. 1 \in Word /\ 1 \in Int
          BY DEF Word, WordAssumption
    <3>2. Num(1) = 1
          BY <3>1, NumIsWord
    <3> QED
          BY <2>7, <3>2, MarkersAsWords
  <2>9. WordSize - 5 + 1 + 3 > n
    <3>1. WordSize \in Nat
          BY DEF WordAssumption
    <3>2. w \in Nat
          BY <1>3
    <3> QED
          BY <1>2, <2>4, <3>1, <3>2
  <2> QED
        BY <2>8, <2>9
<1> QED
      BY <1>4, <1>5, BothRefuse

(* The launcher has neither mark (what a linker writes).                     *)
LEMMA BarePlain ==
  ASSUME NEW i \in 1..15 PROVE BareLauncher[i] # FootMagic /\ BareLauncher[i] # SectionName
<1> DEFINE S == Int \ {FootMagic, SectionName}
           b == BareLauncher
<1>1. b \in Seq(S) /\ Len(b) = 15
      BY BareCells
<1> HIDE DEF b, S
<1>2. \A j \in 1..Len(b) : b[j] \in S
  <2>1. b \in Seq(S)
        BY <1>1
  <2> QED
        BY <2>1
<1>3. i \in 1..Len(b)
      BY <1>1
<1>4. b[i] \in S
      BY <1>2, <1>3
<1> QED
      BY <1>4 DEF b, S

(* The first cells of an image.                                              *)
LEMMA FrontOf ==
  ASSUME NEW s \in Seq(Int), NEW n \in Nat, n <= Len(s), NEW im, im = SubSeq(s, 1, n)
  PROVE  im \in Seq(Int) /\ Len(im) = n /\ \A i \in 1..n : im[i] = s[i]
<1> DEFINE off == 0
<1>1. off \in Nat /\ off + n <= Len(s) /\ off + 1 = 1 /\ off + n = n /\ \A i \in 1..n : off + i = i
      OBVIOUS
<1> HIDE DEF off
<1>2. PieceAt(Piece(s, off, n), s, off, n)
      BY <1>1, CellsOf
<1>3. Piece(s, off, n) = im
      BY <1>1 DEF Piece
<1> QED
      BY <1>1, <1>2, <1>3 DEF PieceAt

(* Which cells of an artifact of the older form are the footer's mark: its   *)
(* own, and the manifest's last.                                             *)
LEMMA TrailerMark ==
  ASSUME NEW a \in Seq(Int), NEW m \in Seq(Int), ArchivePlain(a),
         \A j \in 1..Len(m) : m[j] = FootMagic => j = Len(m),
         NEW im, TrailerParts(im, a, m), NEW i \in 1..Len(im), i <= 15 + Len(a) + Len(m), im[i] = FootMagic
  PROVE  i = 15 + Len(a) + Len(m)
<1> DEFINE la == Len(a)
           lm == Len(m)
<1>1. la \in Nat /\ lm \in Nat /\ i \in Nat /\ i >= 1 /\ i <= 15 + la + lm
  <2>1. im \in Seq(Int)
        BY DEF TrailerParts
  <2>2. Len(im) \in Nat
        BY <2>1
  <2> QED
        BY <2>2
<1>2. \A j \in 1..lm : m[j] = FootMagic => j = lm
      OBVIOUS
<1>3. \A j \in 1..la : a[j] # FootMagic
      BY DEF ArchivePlain
<1>4. /\ \A j \in 1..15 : im[j] = BareLauncher[j]
      /\ \A j \in 1..la : im[15 + j] = a[j]
      /\ \A j \in 1..lm : im[15 + la + j] = m[j]
      BY DEF TrailerParts
<1> HIDE DEF la, lm
<1>5. CASE i <= 15
  <2>1. i \in 1..15
        BY <1>1, <1>5
  <2>2. im[i] = BareLauncher[i]
        BY <1>4, <2>1
  <2> QED
        BY <2>1, <2>2, BarePlain
<1>6. CASE i > 15 /\ i <= 15 + la
  <2> DEFINE j == i - 15
  <2>1. j \in 1..la /\ 15 + j = i
        BY <1>1, <1>6
  <2> HIDE DEF j
  <2>2. im[15 + j] = a[j]
        BY <1>4, <2>1
  <2> QED
        BY <1>3, <2>1, <2>2
<1>7. CASE i > 15 + la
  <2> DEFINE j == i - (15 + la)
  <2>1. j \in 1..lm /\ 15 + la + j = i
        BY <1>1, <1>7
  <2> HIDE DEF j
  <2>2. im[15 + la + j] = m[j]
        BY <1>4, <2>1
  <2>3. j = lm
        BY <1>2, <2>1, <2>2
  <2> QED
        BY <2>1, <2>3 DEF la, lm
<1> QED
      BY <1>1, <1>5, <1>6, <1>7

(* An artifact of the older form that lacks even its last cell is refused    *)
(* (lib.rs:280-294): behind a manifest that ends in the footer's mark the    *)
(* footer's own mark is read as a length that is not there.                  *)
LEMMA CutTrailerRefused ==
  ASSUME WordAssumption, NEW p, Packaged(p), Unmistakable(p), NEW v \in {1, 2},
         NEW whole, whole = WithTrailer(ArchiveOf(v, p.files), p.manifest), Len(whole) < WordSize,
         NEW n \in Nat, n < Len(whole), NEW im, im = SubSeq(whole, 1, n)
  PROVE  LaunchedOf(im) = Refused /\ ExaminedOf(im) = Refused
<1> DEFINE m == p.manifest
           a == ArchiveOf(v, p.files)
           lm == Len(m)
           la == Len(a)
<1>1. ArchiveShape(v, a) /\ ArchivePlain(a) /\ m \in Seq(Int)
      BY ArchiveShaped, ArchivePlainly DEF Packaged
<1>2. a \in Seq(Int) /\ la \in Nat /\ la >= 3 /\ lm \in Nat
      BY <1>1 DEF ArchiveShape
<1>3. TrailerParts(whole, a, m)
      BY <1>1, <1>2, TrailerLaid
<1>4. \A j \in 1..lm : m[j] = FootMagic => j = lm
      BY DEF Unmistakable
<1> HIDE DEF m, a
<1>5. /\ whole \in Seq(Int) /\ Len(whole) = 18 + la + lm
      /\ \A i \in 1..15 : whole[i] = BareLauncher[i]
      /\ whole[16 + la + lm] = FootMagic /\ whole[17 + la + lm] = la
      BY <1>3 DEF TrailerParts
<1>6. im \in Seq(Int) /\ Len(im) = n /\ \A i \in 1..n : im[i] = whole[i]
  <2>1. whole \in Seq(Int) /\ n <= Len(whole)
        BY <1>5
  <2> QED
        BY <2>1, FrontOf
<1>7. LocateSection(im) = NoSection
  <2>1. \A i \in 1..15 : i <= Len(im) => im[i] = BareLauncher[i]
    <3>1. \A i \in 1..15 : whole[i] = BareLauncher[i]
          BY <1>5
    <3>2. \A i \in 1..15 : i <= n => i \in 1..n
          OBVIOUS
    <3> QED
          BY <1>6, <3>1, <3>2
  <2>2. im \in Seq(Int)
        BY <1>6
  <2> QED
        BY <2>1, <2>2, BareNotLocated
<1>8. ReadTrailer(im) = Refused
  <2> SUFFICES ASSUME n >= 3, im[n - 2] = FootMagic PROVE Num(im[n - 1]) + Num(im[n]) + 3 > n
    <3>1. n >= 3 => im[n - 2] # FootMagic \/ Num(im[n - 1]) + Num(im[n]) + 3 > n
          OBVIOUS
    <3>2. im \in Seq(Int) /\ n \in Nat /\ n = Len(im)
          BY <1>6
    <3> QED
          BY <3>1, <3>2, NoFoot
  <2> DEFINE i == n - 2
  <2>0. n < 18 + la + lm
        BY <1>5
  <2> HIDE DEF la, lm
  <2>1. i \in 1..n /\ i <= 15 + la + lm /\ whole[i] = FootMagic /\ i \in 1..Len(whole)
    <3>1. n - 2 \in 1..n /\ n - 2 <= 15 + la + lm /\ n - 2 \in 1..18 + la + lm
          BY <1>2, <2>0
    <3>2. im[i] = FootMagic /\ i \in 1..n
          BY <3>1
    <3> HIDE DEF i
    <3>3. whole[i] = FootMagic
          BY <1>6, <3>2
    <3> QED
          BY <1>5, <3>1, <3>3 DEF i
  <2> HIDE DEF i
  <2>2. i = 15 + la + lm
    <3>1. i <= 15 + Len(a) + Len(m) /\ \A j \in 1..Len(m) : m[j] = FootMagic => j = Len(m)
          BY <1>4, <2>1 DEF la, lm
    <3>2. i = 15 + Len(a) + Len(m)
          BY <1>1, <1>2, <1>3, <2>1, <3>1, TrailerMark
    <3> QED
          BY <3>2 DEF la, lm
  <2>3. n = 17 + la + lm /\ n - 1 = 16 + la + lm /\ n - 1 \in 1..n /\ n \in 1..n
        BY <1>2, <2>2 DEF i
  <2>4. im[n - 1] = FootMagic /\ im[n] = la
    <3> DEFINE b == n - 1
    <3>1. b = 16 + la + lm /\ b \in 1..n
          BY <2>3
    <3> HIDE DEF b
    <3>2. im[b] = whole[b] /\ im[n] = whole[n]
          BY <1>6, <2>3, <3>1
    <3> QED
          BY <1>5, <2>3, <3>1, <3>2 DEF b
  <2>5. Num(im[n - 1]) = WordSize - 6
        BY <2>4, MarkersAsWords
  <2>6. Num(im[n]) = la
    <3>1. 18 + la + lm < WordSize
          BY <1>5
    <3>2. la \in Word /\ la \in Int
          BY <1>2, <3>1 DEF Word, WordAssumption
    <3> QED
          BY <2>4, <3>2, NumIsWord
  <2>7. WordSize - 6 + la + 3 > n
    <3>1. WordSize \in Nat /\ 18 + la + lm < WordSize
          BY <1>5 DEF WordAssumption
    <3> QED
          BY <1>2, <2>3, <3>1
  <2> QED
        BY <2>5, <2>6, <2>7
<1> QED
      BY <1>7, <1>8, BothRefuse

-----------------------------------------------------------------------------
(* What a damaged cell is read as.                                           *)
Damages == {0, 1, 3, WordSize - 2, WordSize - 1, Sui}

(* No damage makes a mark.                                                   *)
LEMMA DamageIsPlain ==
  ASSUME WordAssumption, NEW c \in Damages
  PROVE  c \in Int /\ c \notin {FootMagic, SectionName, Pe, MachoArm, MachoIntel}
  BY DEF WordAssumption, Damages, FootMagic, SectionName, Pe, MachoArm, MachoIntel, Sui

(* Of a damaged artifact with a section the last cells are not a footer, so  *)
(* both readers go by the section (lib.rs:280-294, main.rs:655-694).         *)
LEMMA DamagedHostAgrees ==
  ASSUME WordAssumption, NEW p, Packaged(p), Unmistakable(p), NEW host \in Host,
         NEW whole, SoWritten(whole, host, p), Len(whole) = WholeAt(host, p),
         NEW i \in 1..Len(whole), NEW c \in Damages, NEW im, im = [whole EXCEPT ![i] = c]
  PROVE  im \in Seq(Int) /\ LaunchedOf(im) = ExaminedOf(im)
<1> DEFINE n == WholeAt(host, p)
           k == HeadLength(host)
           lm == Len(p.manifest)
           la == Len(ArchiveOf(2, p.files))
<1>1. n = k + 1 + lm + la /\ k \in Nat /\ lm \in Nat /\ la \in Nat /\ la >= 3
      BY WholeIs
<1>2. whole \in Seq(Int) /\ c \in Int /\ c # FootMagic
      BY DamageIsPlain DEF SoWritten, Carries
<1>3. im \in Seq(Int) /\ Len(im) = n /\ \A j \in 1..n : im[j] = IF j = i THEN c ELSE whole[j]
  <2> HIDE DEF n
  <2> QED
        BY <1>2, ExceptSeq DEF n
<1>4. n >= 3 => im[n - 2] # FootMagic
  <2> DEFINE b == n - 2
  <2> HIDE DEF n, k, lm, la
  <2>1. b \in 1..n /\ b # k + 1 + lm /\ b <= n
        BY <1>1
  <2> HIDE DEF b
  <2>2. im[b] = IF b = i THEN c ELSE whole[b]
        BY <1>3, <2>1
  <2>3. whole[b] # FootMagic
    <3> SUFFICES ASSUME whole[b] = FootMagic PROVE FALSE
        OBVIOUS
    <3>1. b \in 1..Len(whole) /\ b <= WholeAt(host, p)
          BY <2>1 DEF n
    <3>2. b = HeadLength(host) + 1 + Len(p.manifest)
          BY <3>1, HostMark
    <3> QED
          BY <2>1, <3>2 DEF k, lm
  <2> QED
        BY <1>2, <2>2, <2>3 DEF b
<1>5. ReadTrailer(im) = Refused
  <2>1. n \in Nat
        BY <1>1
  <2> HIDE DEF n
  <2>2. n = Len(im) /\ (n >= 3 => im[n - 2] # FootMagic \/ Num(im[n - 1]) + Num(im[n]) + 3 > n)
        BY <1>3, <1>4
  <2> QED
        BY <1>3, <2>1, <2>2, NoFoot
<1> QED
      BY <1>3, <1>5, ReadersAgree

(* In an artifact of the older form no damage makes a section, so both       *)
(* readers go by the footer, or by neither (lib.rs:384-739,                  *)
(* main.rs:655-694).                                                         *)
LEMMA DamagedTrailerAgrees ==
  ASSUME WordAssumption, NEW p, Packaged(p), Unmistakable(p), NEW v \in {1, 2},
         NEW whole, whole = WithTrailer(ArchiveOf(v, p.files), p.manifest),
         NEW i \in 1..Len(whole), NEW c \in Damages, NEW im, im = [whole EXCEPT ![i] = c]
  PROVE  im \in Seq(Int) /\ LaunchedOf(im) = ExaminedOf(im)
<1> DEFINE m == p.manifest
           a == ArchiveOf(v, p.files)
           lm == Len(m)
           la == Len(a)
<1>1. ArchiveShape(v, a) /\ ArchivePlain(a) /\ m \in Seq(Int)
      BY ArchiveShaped, ArchivePlainly DEF Packaged
<1>2. a \in Seq(Int) /\ la \in Nat /\ lm \in Nat
      BY <1>1 DEF ArchiveShape
<1>3. TrailerParts(whole, a, m)
      BY <1>1, <1>2, TrailerLaid
<1>4. \A j \in 1..lm : m[j] # SectionName
      BY DEF Unmistakable
<1>5. \A j \in 1..la : a[j] # SectionName
      BY <1>1 DEF ArchivePlain
<1> HIDE DEF m, a
<1>6. /\ whole \in Seq(Int) /\ Len(whole) = 18 + la + lm
      /\ \A j \in 1..15 : whole[j] = BareLauncher[j]
      /\ \A j \in 1..la : whole[15 + j] = a[j]
      /\ \A j \in 1..lm : whole[15 + la + j] = m[j]
      /\ whole[16 + la + lm] = FootMagic
      /\ whole[17 + la + lm] = la /\ whole[18 + la + lm] = lm
      BY <1>3 DEF TrailerParts
<1> HIDE DEF la, lm
<1>7. c \in Int /\ c \notin {SectionName, Pe, MachoArm, MachoIntel}
      BY DamageIsPlain
<1>8. im \in Seq(Int) /\ Len(im) = Len(whole) /\ \A j \in 1..Len(whole) : im[j] = IF j = i THEN c ELSE whole[j]
  <2>1. whole \in Seq(Int) /\ c \in Int
        BY <1>6, <1>7
  <2> QED
        BY <2>1, ExceptSeq
<1>9. \A j \in 1..Len(whole) : whole[j] # SectionName
  <2> TAKE j \in 1..Len(whole)
  <2>0. j \in Nat /\ j >= 1 /\ j <= 18 + la + lm
        BY <1>2, <1>6
  <2>1. CASE j <= 15
    <3>1. j \in 1..15
          BY <2>0, <2>1
    <3>2. BareLauncher[j] # SectionName
          BY <3>1, BarePlain
    <3> QED
          BY <1>6, <3>1, <3>2
  <2>2. CASE j > 15 /\ j <= 15 + la
    <3> DEFINE q == j - 15
    <3>1. q \in 1..la /\ 15 + q = j
          BY <1>2, <2>0, <2>2
    <3> HIDE DEF q
    <3>2. whole[15 + q] = a[q]
          BY <1>6, <3>1
    <3> QED
          BY <1>5, <3>1, <3>2
  <2>3. CASE j > 15 + la /\ j <= 15 + la + lm
    <3> DEFINE q == j - (15 + la)
    <3>1. q \in 1..lm /\ 15 + la + q = j
          BY <1>2, <2>0, <2>3
    <3> HIDE DEF q
    <3>2. whole[15 + la + q] = m[q]
          BY <1>6, <3>1
    <3> QED
          BY <1>4, <3>1, <3>2
  <2>4. CASE j > 15 + la + lm
    <3>1. j = 16 + la + lm \/ j = 17 + la + lm \/ j = 18 + la + lm
          BY <1>2, <2>0, <2>4
    <3>2. FootMagic # SectionName /\ la # SectionName /\ lm # SectionName
          BY <1>2 DEF FootMagic, SectionName
    <3> QED
          BY <1>6, <3>1, <3>2
  <2> QED
        BY <1>2, <2>0, <2>1, <2>2, <2>3, <2>4
<1>10. LocateSection(im) \in {NoSection, Endless}
  <2>1. \A j \in 1..Len(im) : im[j] # SectionName
        BY <1>7, <1>8, <1>9
  <2>2. 1 \in 1..Len(whole)
        BY <1>2, <1>6
  <2>3. im # <<>>
        BY <1>8, <2>2
  <2>4. whole[1] = Elf
        BY <1>6, BareCells
  <2>5. im[1] = c \/ im[1] = Elf
        BY <1>8, <2>2, <2>4
  <2>6. im[1] \notin {Pe, MachoArm, MachoIntel}
        BY <1>7, <2>5 DEF Elf, Pe, MachoArm, MachoIntel
  <2> QED
        BY <1>8, <2>1, <2>3, <2>6, NoNameNotLocated
<1> QED
      BY <1>8, <1>10, ReadersAgree

(* What an artifact that was signed, cut off or damaged still is of what was *)
(* written: the invariant from which the readers' answers follow.            *)
Signed(whole) == whole \o <<Code, Code>>
IsCutOf(im, whole) == \E n \in Nat : n < Len(whole) /\ im = SubSeq(whole, 1, n)
IsDamaged(im, whole) == \E i \in 1..Len(whole), c \in Damages : im = [whole EXCEPT ![i] = c]
ArtifactInv ==
  /\ packed \in Payload /\ form \in Form
  /\ form = "trailer-v1" => \A i \in 1..Len(packed.files) : packed.files[i].exec = 0
  /\ mishap \in {"unpacked", "none", "signed", "cut", "damaged"}
  /\ mishap = "none" => image = PackedImage(form, packed)
  /\ mishap = "signed" => form \in Host /\ image = Signed(PackedImage(form, packed))
  /\ mishap = "cut" =>
       \/ IsCutOf(image, PackedImage(form, packed))
       \/ form \in Host /\ IsCutOf(image, Signed(PackedImage(form, packed)))
  /\ mishap = "damaged" => IsDamaged(image, PackedImage(form, packed))

(* What the assumption says of a payload.                                    *)
LEMMA PayloadIs ==
  ASSUME NEW p \in Payload
  PROVE  WordAssumption /\ Packaged(p) /\ \A f \in Form : Len(PackedImage(f, p)) < WordSize
  BY ArtifactAssumption DEF WordAssumption, Packaged, Packable

VersionIn(f) == IF f = "trailer-v1" THEN 1 ELSE 2

(* What is written, by form (build.rs:340-390).                              *)
LEMMA PackedBy ==
  ASSUME NEW f \in Form, NEW p
  PROVE  /\ f \in Host => PackedImage(f, p) = Embedded(f, EncodeSectionPayload(p))
         /\ f \notin Host => PackedImage(f, p) = WithTrailer(ArchiveOf(VersionIn(f), p.files), p.manifest)
<1>1. CASE f \in Host
  <2>1. f # "trailer" /\ f # "trailer-v1"
        BY <1>1 DEF Host
  <2> QED
        BY <1>1, <2>1 DEF PackedImage
<1>2. CASE f \notin Host
  <2>1. f = "trailer" \/ f = "trailer-v1"
        BY <1>2 DEF Form
  <2>2. "trailer" \notin Host /\ "trailer-v1" \notin Host /\ "trailer" # "trailer-v1"
        BY DEF Host
  <2>3. CASE f = "trailer"
    <3>1. PackedImage(f, p) = WithTrailer(EncodeArchive(p.files), p.manifest)
          BY <2>2, <2>3 DEF PackedImage
    <3>2. VersionIn(f) = 2
          BY <2>2, <2>3 DEF VersionIn
    <3> QED
          BY <2>2, <2>3, <3>1, <3>2 DEF ArchiveOf
  <2>4. CASE f = "trailer-v1"
    <3>1. PackedImage(f, p) = WithTrailer(EncodeArchiveV1(p.files), p.manifest)
          BY <2>2, <2>4 DEF PackedImage
    <3>2. VersionIn(f) = 1
          BY <2>4 DEF VersionIn
    <3> QED
          BY <2>2, <2>4, <3>1, <3>2 DEF ArchiveOf
  <2> QED
        BY <2>1, <2>3, <2>4
<1> QED
      BY <1>1, <1>2

(* A host image is laid out as the readers expect it.                        *)
LEMMA HostWritten ==
  ASSUME NEW p, Packaged(p), NEW host \in Host, NEW im, im = Embedded(host, EncodeSectionPayload(p))
  PROVE  SoWritten(im, host, p) /\ Len(im) = WholeAt(host, p) /\ im \in Seq(Int)
<1> DEFINE d == EncodeSectionPayload(p)
           h == HostHead(host, Len(d))
<1>1. d \in Seq(Int)
  <2>1. SectionShape(d, p.manifest, ArchiveOf(2, p.files))
        BY SectionShaped
  <2> QED
        BY <2>1 DEF SectionShape
<1> HIDE DEF d
<1>2. EmbeddedParts(im, host, d)
      BY <1>1, HostLaid DEF d
<1> HIDE DEF h
<1>3. /\ im \in Seq(Int) /\ Len(im) = HeadLength(host) + Len(d) /\ Len(h) = HeadLength(host)
      /\ \A i \in 1..Len(h) : im[i] = h[i]
      /\ \A j \in 1..Len(d) : im[Len(h) + j] = d[j]
      BY <1>2 DEF EmbeddedParts, h
<1>4. Carries(im, h, d)
      BY <1>3 DEF Carries
<1> QED
      BY <1>3, <1>4 DEF SoWritten, WholeAt, h, d

(* An image is a sequence of cells.                                          *)
LEMMA PackedIsSeq ==
  ASSUME NEW f \in Form, NEW p \in Payload
  PROVE  PackedImage(f, p) \in Seq(Int)
<1>1. Packaged(p)
      BY PayloadIs
<1>2. CASE f \in Host
  <2>1. PackedImage(f, p) = Embedded(f, EncodeSectionPayload(p))
        BY <1>2, PackedBy
  <2> QED
        BY <1>1, <1>2, <2>1, HostWritten
<1>3. CASE f \notin Host
  <2> DEFINE a == ArchiveOf(VersionIn(f), p.files)
  <2>1. PackedImage(f, p) = WithTrailer(a, p.manifest)
        BY <1>3, PackedBy
  <2>2. a \in Seq(Int)
    <3>1. VersionIn(f) \in {1, 2}
          BY DEF VersionIn
    <3>2. ArchiveShape(VersionIn(f), a)
          BY <1>1, <3>1, ArchiveShaped
    <3> QED
          BY <3>2 DEF ArchiveShape
  <2>3. p.manifest \in Seq(Int)
        BY <1>1 DEF Packaged
  <2> HIDE DEF a
  <2>4. TrailerParts(WithTrailer(a, p.manifest), a, p.manifest)
        BY <2>2, <2>3, TrailerLaid
  <2> QED
        BY <2>1, <2>4 DEF TrailerParts
<1> QED
      BY <1>2, <1>3

(* It holds before anything is packed.                                       *)
LEMMA ArtifactInitInv == ArtifactInit => ArtifactInv
<1> SUFFICES ASSUME ArtifactInit PROVE ArtifactInv
    OBVIOUS
<1>1. packed \in Payload /\ form \in Form /\ mishap = "unpacked"
      BY DEF ArtifactInit
<1>2. form = "trailer-v1" => \A i \in DOMAIN packed.files : packed.files[i].exec = 0
      BY DEF ArtifactInit
<1>3. DOMAIN packed.files = 1..Len(packed.files)
  <2>1. packed.files \in Seq([path : {1, 2}, data : Seq(Int), exec : {0, 1}])
        BY <1>1, ArtifactAssumption
  <2> DEFINE fs == packed.files
             S == [path : {1, 2}, data : Seq(Int), exec : {0, 1}]
  <2>2. fs \in Seq(S)
        BY <2>1
  <2> HIDE DEF fs, S
  <2>3. DOMAIN fs = 1..Len(fs)
        BY <2>2
  <2> QED
        BY <2>3 DEF fs
<1> QED
      BY <1>1, <1>2, <1>3 DEF ArtifactInv

(* Packing, signing, an early end and damage preserve it (build.rs:340-390). *)
LEMMA ArtifactNextInv == ArtifactInv /\ [ArtifactNext]_artifactVars => ArtifactInv'
<1> SUFFICES ASSUME ArtifactInv, [ArtifactNext]_artifactVars PROVE ArtifactInv'
    OBVIOUS
<1>0. /\ packed \in Payload /\ form \in Form
      /\ form = "trailer-v1" => \A i \in 1..Len(packed.files) : packed.files[i].exec = 0
      BY DEF ArtifactInv
<1>1. CASE PackArtifact
  <2>1. mishap' = "none" /\ image' = PackedImage(form, packed) /\ packed' = packed /\ form' = form
        BY <1>1 DEF PackArtifact
  <2> QED
        BY <1>0, <2>1 DEF ArtifactInv
<1>2. CASE SignArtifact
  <2>1. mishap = "none" /\ mishap' = "signed" /\ form \in Host /\ packed' = packed /\ form' = form
        /\ image' = image \o <<Code, Code>>
        BY <1>2 DEF SignArtifact
  <2>2. image = PackedImage(form, packed)
        BY <2>1 DEF ArtifactInv
  <2>3. image' = Signed(PackedImage(form, packed))
        BY <2>1, <2>2 DEF Signed
  <2> QED
        BY <1>0, <2>1, <2>3 DEF ArtifactInv
<1>3. CASE \E n \in 0..WordSize : CutOff(n)
  <2>1. PICK n \in 0..WordSize : CutOff(n)
        BY <1>3
  <2>2. /\ mishap \in {"none", "signed"} /\ mishap' = "cut" /\ packed' = packed /\ form' = form
        /\ n < Len(image) /\ image' = SubSeq(image, 1, n)
        BY <2>1 DEF CutOff
  <2>3. n \in Nat
        BY ArtifactAssumption
  <2>4. IsCutOf(image', image)
        BY <2>2, <2>3 DEF IsCutOf
  <2>5. \/ image = PackedImage(form, packed)
        \/ form \in Host /\ image = Signed(PackedImage(form, packed))
        BY <2>2 DEF ArtifactInv
  <2> QED
        BY <1>0, <2>2, <2>4, <2>5 DEF ArtifactInv
<1>4. CASE \E i \in 1..WordSize, cell \in {0, 1, 3, WordSize - 2, WordSize - 1, Sui} : Damage(i, cell)
  <2>1. PICK i \in 1..WordSize, cell \in {0, 1, 3, WordSize - 2, WordSize - 1, Sui} : Damage(i, cell)
        BY <1>4
  <2>2. /\ mishap = "none" /\ mishap' = "damaged" /\ packed' = packed /\ form' = form
        /\ i <= Len(image) /\ image' = [image EXCEPT ![i] = cell]
        BY <2>1 DEF Damage
  <2>3. cell \in Damages
        BY DEF Damages
  <2>4. image = PackedImage(form, packed)
        BY <2>2 DEF ArtifactInv
  <2>5. Len(image) \in Nat
    <3>1. image \in Seq(Int)
          BY <1>0, <2>4, PackedIsSeq
    <3> QED
          BY <3>1
  <2>6. i \in 1..Len(image)
        BY <2>2, <2>5
  <2>7. IsDamaged(image', image)
        BY <2>2, <2>3, <2>6 DEF IsDamaged
  <2> QED
        BY <1>0, <2>2, <2>4, <2>7 DEF ArtifactInv
<1>5. CASE UNCHANGED artifactVars
      BY <1>5 DEF artifactVars, ArtifactInv
<1> QED
      BY <1>1, <1>2, <1>3, <1>4, <1>5 DEF ArtifactNext

(* What agrees with a host image as far as both go is as it was written.     *)
LEMMA StillWritten ==
  ASSUME NEW p, Packaged(p), NEW host \in Host, NEW whole, SoWritten(whole, host, p),
         whole \in Seq(Int), Len(whole) = WholeAt(host, p),
         NEW im \in Seq(Int), \A i \in 1..Len(im) : i <= Len(whole) => im[i] = whole[i]
  PROVE  SoWritten(im, host, p)
<1> DEFINE d == EncodeSectionPayload(p)
           h == HostHead(host, Len(d))
           w == Len(whole)
           n == Len(im)
           k == Len(h)
           l == Len(d)
<1>1. d \in Seq(Int) /\ l \in Nat
  <2>1. SectionShape(d, p.manifest, ArchiveOf(2, p.files))
        BY SectionShaped
  <2>2. d \in Seq(Int)
        BY <2>1 DEF SectionShape
  <2> HIDE DEF d
  <2> QED
        BY <2>2
<1>2. k = HeadLength(host) /\ k \in Nat
      BY <1>1, HeadCells DEF HeadLength
<1>3. w = k + l
      BY <1>2 DEF WholeAt
<1>4. Carries(whole, h, d)
      BY DEF SoWritten
<1>5. n \in Nat /\ \A i \in 1..n : i <= w => im[i] = whole[i]
      OBVIOUS
<1> HIDE DEF d, h
<1>6. /\ \A i \in 1..k : i <= w => whole[i] = h[i]
      /\ \A j \in 1..l : k + j <= w => whole[k + j] = d[j]
      BY <1>4 DEF Carries
<1>10. w = k + l /\ w \in Nat /\ k \in Nat /\ l \in Nat /\ n \in Nat
  <2> HIDE DEF w, n, k, l
  <2> QED
       BY <1>1, <1>2, <1>3, <1>5
<1> HIDE DEF w, n, k, l
<1>7. \A i \in 1..k : i <= n => im[i] = h[i]
  <2> SUFFICES ASSUME NEW i \in 1..k, i <= n PROVE im[i] = h[i]
      OBVIOUS
  <2>1. i \in 1..n /\ i <= w
        BY <1>10
  <2> QED
        BY <1>5, <1>6, <2>1
<1>8. \A j \in 1..l : k + j <= n => im[k + j] = d[j]
  <2> SUFFICES ASSUME NEW j \in 1..l, k + j <= n PROVE im[k + j] = d[j]
      OBVIOUS
  <2> DEFINE i == k + j
  <2>1. i \in 1..n /\ i <= w
        BY <1>10
  <2>2. whole[i] = d[j]
        BY <1>6, <2>1
  <2> HIDE DEF i
  <2>3. im[i] = d[j]
        BY <1>5, <2>1, <2>2
  <2> QED
        BY <2>3 DEF i
<1>9. Carries(im, h, d)
      BY <1>7, <1>8 DEF Carries, n, k, l
<1> QED
      BY <1>9 DEF SoWritten, h, d

(* A signature is behind what it signs.                                      *)
LEMMA SignedIs ==
  ASSUME NEW whole \in Seq(Int)
  PROVE  /\ Signed(whole) \in Seq(Int) /\ Len(Signed(whole)) = Len(whole) + 2
         /\ \A i \in 1..Len(whole) : Signed(whole)[i] = whole[i]
<1> DEFINE c == <<Code, Code>>
<1>1. c \in Seq(Int) /\ Len(c) = 2
      BY DEF Code
<1> HIDE DEF c
<1>2. /\ whole \o c \in Seq(Int) /\ Len(whole \o c) = Len(whole) + Len(c)
      /\ \A i \in 1..Len(whole) : (whole \o c)[i] = whole[i]
  <2>1. whole \in Seq(Int) /\ c \in Seq(Int)
        BY <1>1
  <2> QED
        BY <2>1, OneAfterOther
<1>3. Signed(whole) = whole \o c
      BY DEF Signed, c
<1> QED
      BY <1>1, <1>2, <1>3

IsRead(im, p) == LaunchedOf(im) = Read(p.files, p.manifest) /\ ExaminedOf(im) = Read(p.files, p.manifest)
IsRefused(im) == LaunchedOf(im) = Refused /\ ExaminedOf(im) = Refused

(* Of an image with a section both readers read all or, when a part of the   *)
(* section is missing, refuse.                                               *)
LEMMA HostAnswers ==
  ASSUME NEW p \in Payload, NEW f \in Host, NEW whole, whole = PackedImage(f, p),
         NEW im \in Seq(Int), \A i \in 1..Len(im) : i <= Len(whole) => im[i] = whole[i]
  PROVE  /\ Len(im) >= Len(whole) => IsRead(im, p)
         /\ Unmistakable(p) /\ Len(im) < Len(whole) => IsRefused(im)
<1>1. f \in Form
      BY DEF Form
<1>2. WordAssumption /\ Packaged(p) /\ Len(whole) < WordSize
      BY <1>1, PayloadIs
<1>3. whole = Embedded(f, EncodeSectionPayload(p))
      BY <1>1, PackedBy
<1>4. SoWritten(whole, f, p) /\ Len(whole) = WholeAt(f, p) /\ whole \in Seq(Int)
      BY <1>2, <1>3, HostWritten
<1>5. SoWritten(im, f, p)
      BY <1>2, <1>4, StillWritten
<1>6. WholeAt(f, p) < WordSize
      BY <1>2, <1>4
<1>7. ASSUME Len(im) >= Len(whole) PROVE IsRead(im, p)
      BY <1>2, <1>4, <1>5, <1>6, <1>7, WholeReads DEF IsRead
<1>8. ASSUME Unmistakable(p), Len(im) < Len(whole) PROVE IsRefused(im)
      BY <1>2, <1>4, <1>5, <1>6, <1>8, CutHostRefused DEF IsRefused
<1> QED
      BY <1>7, <1>8

(* An artifact of the older form is read as it was packed.                   *)
LEMMA TrailerAnswers ==
  ASSUME NEW p \in Payload, NEW f \in Form, f \notin Host,
         f = "trailer-v1" => \A i \in 1..Len(p.files) : p.files[i].exec = 0
  PROVE  IsRead(PackedImage(f, p), p)
<1> DEFINE v == VersionIn(f)
           im == PackedImage(f, p)
<1>1. v \in {1, 2} /\ (v = 1 => \A i \in 1..Len(p.files) : p.files[i].exec = 0)
  <2>1. ~(2 = 1)
        OBVIOUS
  <2> QED
        BY <2>1 DEF VersionIn
<1>2. WordAssumption /\ Packaged(p) /\ Len(im) < WordSize
      BY PayloadIs
<1>3. im = WithTrailer(ArchiveOf(v, p.files), p.manifest)
      BY PackedBy
<1> HIDE DEF v, im
<1>4. IsRead(im, p)
      BY <1>1, <1>2, <1>3, TrailerReads DEF IsRead
<1> QED
      BY <1>4 DEF im

(* What is packed, and what is signed, both readers read.                    *)
LEMMA IntactAnswers ==
  ASSUME ArtifactInv, mishap \in {"none", "signed"}
  PROVE  IsRead(image, packed)
<1> DEFINE whole == PackedImage(form, packed)
<1>1. /\ packed \in Payload /\ form \in Form
      /\ form = "trailer-v1" => \A i \in 1..Len(packed.files) : packed.files[i].exec = 0
      /\ mishap = "none" => image = whole
      /\ mishap = "signed" => form \in Host /\ image = Signed(whole)
      BY DEF ArtifactInv
<1>2. whole \in Seq(Int)
      BY <1>1, PackedIsSeq
<1>3. CASE form \notin Host
  <2>1. image = whole
        BY <1>1, <1>3
  <2> QED
        BY <1>1, <1>3, <2>1, TrailerAnswers
<1>4. CASE form \in Host
  <2> HIDE DEF whole
  <2>1. /\ image \in Seq(Int) /\ Len(image) >= Len(whole)
        /\ \A i \in 1..Len(image) : i <= Len(whole) => image[i] = whole[i]
    <3>1. CASE image = whole
      <4>1. Len(whole) \in Nat
            BY <1>2
      <4> QED
            BY <1>2, <3>1, <4>1
    <3>2. CASE image = Signed(whole)
      <4>1. Len(whole) \in Nat
            BY <1>2
      <4>2. /\ image \in Seq(Int) /\ Len(image) = Len(whole) + 2
            /\ \A i \in 1..Len(whole) : image[i] = whole[i]
            BY <1>2, <3>2, SignedIs
      <4> DEFINE n == Len(image)
                 w == Len(whole)
      <4>3. n = w + 2 /\ w \in Nat
            BY <4>1, <4>2
      <4> HIDE DEF n, w
      <4>4. n >= w /\ \A i \in 1..n : i <= w => i \in 1..w
            BY <4>3
      <4> QED
            BY <4>2, <4>4 DEF n, w
    <3> QED
          BY <1>1, <3>1, <3>2
  <2>2. whole = PackedImage(form, packed)
        BY DEF whole
  <2> QED
        BY <1>1, <1>4, <2>1, <2>2, HostAnswers
<1> QED
      BY <1>3, <1>4

(* Of what was cut off both readers read all or nothing.                     *)
LEMMA CutAnswers ==
  ASSUME ArtifactInv, mishap = "cut", Unmistakable(packed)
  PROVE  IsRead(image, packed) \/ IsRefused(image)
<1> DEFINE whole == PackedImage(form, packed)
<1>1. packed \in Payload /\ form \in Form
      BY DEF ArtifactInv
<1>2. whole \in Seq(Int)
      BY <1>1, PackedIsSeq
<1>3. IsCutOf(image, whole) \/ (form \in Host /\ IsCutOf(image, Signed(whole)))
      BY DEF ArtifactInv
<1>4. CASE form \notin Host
  <2>1. PICK n \in Nat : n < Len(whole) /\ image = SubSeq(whole, 1, n)
        BY <1>3, <1>4 DEF IsCutOf
  <2> DEFINE v == VersionIn(form)
  <2>2. v \in {1, 2}
        BY DEF VersionIn
  <2>3. WordAssumption /\ Packaged(packed) /\ Len(whole) < WordSize
        BY <1>1, PayloadIs
  <2>4. whole = WithTrailer(ArchiveOf(v, packed.files), packed.manifest)
        BY <1>1, <1>4, PackedBy
  <2> HIDE DEF v, whole
  <2>5. IsRefused(image)
        BY <2>1, <2>2, <2>3, <2>4, CutTrailerRefused DEF IsRefused
  <2> QED
        BY <2>5
<1>5. CASE form \in Host
  <2>0. whole = PackedImage(form, packed)
        OBVIOUS
  <2> HIDE DEF whole
  <2>1. Len(whole) \in Nat
        BY <1>2
  <2>2. image \in Seq(Int) /\ \A i \in 1..Len(image) : i <= Len(whole) => image[i] = whole[i]
    <3>1. CASE IsCutOf(image, whole)
      <4>1. PICK n \in Nat : n < Len(whole) /\ image = SubSeq(whole, 1, n)
            BY <3>1 DEF IsCutOf
      <4>2. n <= Len(whole)
            BY <2>1, <4>1
      <4> QED
            BY <1>2, <4>1, <4>2, FrontOf
    <3>2. CASE IsCutOf(image, Signed(whole))
      <4> DEFINE s == Signed(whole)
      <4>1. PICK n \in Nat : n < Len(s) /\ image = SubSeq(s, 1, n)
            BY <3>2 DEF IsCutOf
      <4>2. /\ s \in Seq(Int) /\ Len(s) = Len(whole) + 2
            /\ \A i \in 1..Len(whole) : s[i] = whole[i]
            BY <1>2, SignedIs
      <4> HIDE DEF s
      <4>3. n <= Len(s)
            BY <2>1, <4>1, <4>2
      <4>4. image \in Seq(Int) /\ Len(image) = n /\ \A i \in 1..n : image[i] = s[i]
            BY <4>1, <4>2, <4>3, FrontOf
      <4>5. \A i \in 1..n : i <= Len(whole) => i \in 1..Len(whole)
            BY <2>1
      <4> QED
            BY <4>2, <4>4, <4>5
    <3> QED
          BY <1>3, <3>1, <3>2
  <2>3. /\ Len(image) >= Len(whole) => IsRead(image, packed)
        /\ Unmistakable(packed) /\ Len(image) < Len(whole) => IsRefused(image)
        BY <1>1, <1>5, <2>0, <2>2, HostAnswers
  <2>4. Len(image) >= Len(whole) \/ Len(image) < Len(whole)
    <3>1. Len(image) \in Nat
          BY <2>2
    <3> QED
          BY <2>1, <3>1
  <2> QED
        BY <2>3, <2>4
<1> QED
      BY <1>4, <1>5

(* Of what was damaged both readers say the same.                            *)
LEMMA DamagedAnswers ==
  ASSUME ArtifactInv, mishap = "damaged", Unmistakable(packed)
  PROVE  image \in Seq(Int) /\ LaunchedOf(image) = ExaminedOf(image)
<1> DEFINE whole == PackedImage(form, packed)
<1>1. packed \in Payload /\ form \in Form
      BY DEF ArtifactInv
<1>2. PICK i \in 1..Len(whole), c \in Damages : image = [whole EXCEPT ![i] = c]
      BY DEF ArtifactInv, IsDamaged
<1>3. WordAssumption /\ Packaged(packed)
      BY <1>1, PayloadIs
<1>4. CASE form \notin Host
  <2> DEFINE v == VersionIn(form)
  <2>1. v \in {1, 2}
        BY DEF VersionIn
  <2>2. whole = WithTrailer(ArchiveOf(v, packed.files), packed.manifest)
        BY <1>1, <1>4, PackedBy
  <2> HIDE DEF v, whole
  <2> QED
        BY <1>2, <1>3, <2>1, <2>2, DamagedTrailerAgrees
<1>5. CASE form \in Host
  <2>1. whole = Embedded(form, EncodeSectionPayload(packed))
        BY <1>1, <1>5, PackedBy
  <2> HIDE DEF whole
  <2>2. SoWritten(whole, form, packed) /\ Len(whole) = WholeAt(form, packed)
        BY <1>3, <1>5, <2>1, HostWritten
  <2> QED
        BY <1>2, <1>3, <1>5, <2>2, DamagedHostAgrees
<1> QED
      BY <1>4, <1>5

(* The readers of the model are the readers of its image.                    *)
LEMMA ReadersOf == Launched = LaunchedOf(image) /\ Examined = ExaminedOf(image)
  BY DEF Launched, Examined, LaunchedOf, ExaminedOf

(* Whatever was done to it, an artifact is a sequence of cells.              *)
LEMMA ImageIsSeq ==
  ASSUME ArtifactInv, mishap # "unpacked" PROVE image \in Seq(Int)
<1> DEFINE whole == PackedImage(form, packed)
<1>1. /\ packed \in Payload /\ form \in Form
      /\ mishap \in {"unpacked", "none", "signed", "cut", "damaged"}
      BY DEF ArtifactInv
<1>2. whole \in Seq(Int)
      BY <1>1, PackedIsSeq
<1>3. Signed(whole) \in Seq(Int)
      BY <1>2, SignedIs
<1>4. /\ mishap = "none" => image = whole
      /\ mishap = "signed" => image = Signed(whole)
      /\ mishap = "cut" => IsCutOf(image, whole) \/ IsCutOf(image, Signed(whole))
      /\ mishap = "damaged" => IsDamaged(image, whole)
      BY DEF ArtifactInv
<1> HIDE DEF whole
<1>5. ASSUME NEW s \in Seq(Int), IsCutOf(image, s) PROVE image \in Seq(Int)
  <2>1. PICK n \in Nat : n < Len(s) /\ image = SubSeq(s, 1, n)
        BY <1>5 DEF IsCutOf
  <2>2. n <= Len(s)
    <3>1. Len(s) \in Nat
          OBVIOUS
    <3> QED
          BY <2>1, <3>1
  <2> QED
        BY <2>1, <2>2, FrontOf
<1>6. ASSUME IsDamaged(image, whole) PROVE image \in Seq(Int)
  <2>1. PICK i \in 1..Len(whole), c \in Damages : image = [whole EXCEPT ![i] = c]
        BY <1>6 DEF IsDamaged
  <2>2. c \in Int
    <3>1. WordAssumption
          BY <1>1, PayloadIs
    <3> QED
          BY <3>1, DamageIsPlain
  <2> QED
        BY <1>2, <2>1, <2>2, ExceptSeq
<1> QED
      BY <1>1, <1>2, <1>3, <1>4, <1>5, <1>6

(* An artifact that is intact, or only signed, gives back exactly what was   *)
(* packed, to the launcher and to doctor, in every format and for every      *)
(* payload, also one that contains the formats' own marks; no early end and  *)
(* no damage makes a reader slice out of range; and where a reader never     *)
(* ends, a header of notes asks for more than the least alignment            *)
(* (build.rs:340-390, payload.rs, inka-format lib.rs:169-739).               *)
THEOREM ArtifactsReadBack ==
  ArtifactInit /\ [][ArtifactNext]_artifactVars =>
    [](mishap # "unpacked" =>
         /\ Launched # Crashed /\ Examined # Crashed
         /\ Launched = Endless \/ Examined = Endless => MisalignedNotes(image)
         /\ mishap \in {"none", "signed"} =>
              Launched = Read(packed.files, packed.manifest) /\ Examined = Read(packed.files, packed.manifest))
<1> DEFINE Goal ==
      mishap # "unpacked" =>
         /\ Launched # Crashed /\ Examined # Crashed
         /\ Launched = Endless \/ Examined = Endless => MisalignedNotes(image)
         /\ mishap \in {"none", "signed"} =>
              Launched = Read(packed.files, packed.manifest) /\ Examined = Read(packed.files, packed.manifest)
<1>1. ArtifactInv => Goal
  <2> SUFFICES ASSUME ArtifactInv, mishap # "unpacked" PROVE
         /\ Launched # Crashed /\ Examined # Crashed
         /\ Launched = Endless \/ Examined = Endless => MisalignedNotes(image)
         /\ mishap \in {"none", "signed"} =>
              Launched = Read(packed.files, packed.manifest) /\ Examined = Read(packed.files, packed.manifest)
      OBVIOUS
  <2>1. /\ LaunchedOf(image) # Crashed /\ ExaminedOf(image) # Crashed
        /\ LaunchedOf(image) = Endless => MisalignedNotes(image)
        /\ ExaminedOf(image) = Endless => MisalignedNotes(image)
    <3>1. packed \in Payload
          BY DEF ArtifactInv
    <3>2. WordAssumption
          BY <3>1, PayloadIs
    <3> QED
          BY <3>2, ImageIsSeq, ReadersEnd
  <2>2. mishap \in {"none", "signed"} => IsRead(image, packed)
        BY IntactAnswers
  <2> QED
        BY <2>1, <2>2, ReadersOf DEF IsRead
<1> HIDE DEF Goal
<1>2. ArtifactInit /\ [][ArtifactNext]_artifactVars => []Goal
      BY <1>1, ArtifactInitInv, ArtifactNextInv, PTL
<1> QED
      BY <1>2 DEF Goal

(* When no cell of what is packed can be mistaken for the footer's mark or   *)
(* the section's name, what was cut off is read as all or refused, never as  *)
(* the first few files; doctor calls exactly those artifacts well-formed     *)
(* that launch, in every format and after every damage; and only damage to   *)
(* the alignment of notes can keep both from ending                          *)
(* (inka-format lib.rs:169-739, main.rs:655-694).                            *)
THEOREM ArtifactsRead ==
  ASSUME \A p \in Payload : Unmistakable(p)
  PROVE  ArtifactInit /\ [][ArtifactNext]_artifactVars => []ReadsAsPacked
<1>1. ArtifactInv => ReadsAsPacked
  <2> SUFFICES ASSUME ArtifactInv, mishap # "unpacked" PROVE
         /\ Launched # Crashed /\ Launched = Examined
         /\ mishap \in {"none", "signed"} => Launched = Read(packed.files, packed.manifest)
         /\ mishap = "cut" => Launched \in {Refused, Read(packed.files, packed.manifest)}
         /\ Launched = Endless => MisalignedNotes(image)
      BY DEF ReadsAsPacked
  <2>1. packed \in Payload /\ mishap \in {"unpacked", "none", "signed", "cut", "damaged"}
        BY DEF ArtifactInv
  <2>2. Unmistakable(packed)
        BY <2>1
  <2>3. LaunchedOf(image) # Crashed /\ (LaunchedOf(image) = Endless => MisalignedNotes(image))
    <3>1. WordAssumption
          BY <2>1, PayloadIs
    <3> QED
          BY <3>1, ImageIsSeq, ReadersEnd
  <2>4. mishap \in {"none", "signed"} => IsRead(image, packed)
        BY IntactAnswers
  <2>5. mishap = "cut" => IsRead(image, packed) \/ IsRefused(image)
        BY <2>2, CutAnswers
  <2>6. mishap = "damaged" => LaunchedOf(image) = ExaminedOf(image)
        BY <2>2, DamagedAnswers
  <2> QED
        BY <2>1, <2>3, <2>4, <2>5, <2>6, ReadersOf DEF IsRead, IsRefused
<1> QED
      BY <1>1, ArtifactInitInv, ArtifactNextInv, PTL
=============================================================================
