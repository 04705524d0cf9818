--------------------------- MODULE DevToolsProofs ----------------------------
(***************************************************************************)
(* What a developer works with while an app runs: hot module replacement,   *)
(* and the multiplexer that shows two DevTools targets as one.              *)
(***************************************************************************)
EXTENDS Hmr, CdpMux, SequenceTheorems, TLAPS

-----------------------------------------------------------------------------
(***************************************************************************)
(* No change is lost, for every set of files and number of changes.  The    *)
(* argument follows one content of a file: it waits in the queue, in the    *)
(* batch or in the runner's hands, until it runs or the runner gives up on  *)
(* it; and what the runner holds is the newest content, or a newer one is   *)
(* queued.                                                                  *)
(***************************************************************************)

Event == [file : File, change : {"updated", "removed"}]
Update(f) == [file |-> f, change |-> "updated"]
Removal(f) == [file |-> f, change |-> "removed"]

Queued(f) == \E i \in 1..Len(queue) : queue[i] = Update(f)

(* A file that was removed and is there again has been saved since. *)
SavedSince ==
  \A f \in File : disk[f] # Absent =>
    \A i \in 1..Len(queue) : queue[i] = Removal(f) =>
      \E j \in 1..Len(queue) : j > i /\ queue[j] = Update(f)

(* Only a script that V8 has is handled, and one file at a time. *)
HandlesLoaded ==
  /\ step \notin {"read", "set", "sleep"} => cur = NoFile
  /\ step \in {"read", "set", "sleep"} => cur.file \in File /\ live[cur.file] # Absent

(* What the runner holds is the file's content, unless a change is queued.  *)
HoldsNewest ==
  step \in {"set", "sleep"} =>
    disk[cur.file] \in {Absent, cur.src} \/ Queued(cur.file)

(* A module is compiled once. *)
ReadOnce == \A f \in File : reading[f] # Absent => live[f] = Absent

MainIsLoaded ==
  /\ step # "boot" => live[Main] # Absent
  /\ why[Main].reason # "missed"

(* The change of f that the runner will still look at, by where it is.      *)
Waits(f) ==
  \/ Queued(f) \/ pending[f] = "updated"
  \/ cur.file = f /\ (step = "read" \/ cur.src = disk[f])

(* The content that is not run is still to be handled or was given up on,   *)
(* also while a module that has been read waits for V8.                     *)
Explained(f) == Waits(f) \/ why[f].at = disk[f]
NoneLost ==
  \A f \in File : disk[f] # Absent =>
    /\ live[f] \notin {Absent, disk[f]} => Explained(f)
    /\ reading[f] \notin {Absent, disk[f]} => Explained(f)

(* What the windows are owed is in the batch. *)
OwedInBatch ==
  /\ owed # {} /\ ~dropped => reload \/ handled # {}
  /\ step \in {"boot", "idle", "debounce"} => handled = {} /\ ~reload

IInv ==
  /\ TypeOK
  /\ SavedSince /\ HandlesLoaded /\ HoldsNewest /\ ReadOnce /\ MainIsLoaded
  /\ NoneLost /\ OwedInBatch

(* An app that starts: nothing is loaded yet (hmr.rs:364-380).              *)
LEMMA InitIInv == Init => IInv
<1> SUFFICES ASSUME Init PROVE IInv
  OBVIOUS
<1>1. TypeOK
  <2>1. queue \in Seq([file : File, change : {"updated", "removed"}])
    BY EmptySeq DEF Init
  <2>2. /\ disk \in [File -> Content \cup {Absent}]
        /\ 0 \in 0..MaxSaves
    BY HmrAssumption DEF Init, Content, Kind
  <2>3. why \in [File -> [at : Content \cup {Absent}, reason : Reason]]
    BY DEF Init, Reason
  <2>4. NoFile \in [file : File \cup {Absent}, src : Content \cup {Absent}, tries : 0..3]
    BY DEF NoFile
  <2>5. NoBatch \in [File -> {"none", "updated", "removed"}]
    BY DEF NoBatch
  <2> QED
    BY <2>1, <2>2, <2>3, <2>4, <2>5 DEF Init, TypeOK, Steps
<1>2. SavedSince
  BY DEF Init, SavedSince
<1>3. HandlesLoaded /\ HoldsNewest /\ ReadOnce /\ MainIsLoaded /\ NoneLost /\ OwedInBatch
  BY HmrAssumption DEF Init, HandlesLoaded, HoldsNewest, ReadOnce, MainIsLoaded, NoneLost, OwedInBatch
<1> QED
  BY <1>1, <1>2, <1>3 DEF IInv

(* Every step keeps the types (hmr.rs:364-527).                             *)
LEMMA NextTypeOK == ASSUME TypeOK, HandlesLoaded, [Next]_vars PROVE TypeOK'
<1> USE HmrAssumption, AbsentAssumption DEF TypeOK, code, batch, history, Goto, GiveUp
<1>1. ASSUME NEW f \in File, NEW k \in Kind, Save(f, k) PROVE TypeOK'
  <2>1. [file |-> f, change |-> "updated"] \in Event
    BY DEF Event
  <2>2. queue' \in Seq(Event)
    BY <1>1, <2>1, AppendProperties DEF Save, Event
  <2>3. disk' \in [File -> Content \cup {Absent}] /\ saves' \in 0..MaxSaves
    BY <1>1 DEF Save, Content
  <2> QED
    BY <1>1, <2>2, <2>3 DEF Save, Event
<1>2. ASSUME NEW f \in File, Remove(f) PROVE TypeOK'
  <2>1. [file |-> f, change |-> "removed"] \in Event
    BY DEF Event
  <2>2. queue' \in Seq(Event)
    BY <1>2, <2>1, AppendProperties DEF Remove, Event
  <2> QED
    BY <1>2, <2>2 DEF Remove, Event
<1>3. ASSUME NEW f \in File, LoadModule(f) \/ ScriptParsed(f) PROVE TypeOK'
  BY <1>3 DEF LoadModule, ScriptParsed
<1>4. CASE Boot \/ DebounceEnds \/ Retry
  BY <1>4 DEF Boot, DebounceEnds, Retry, Steps
<1>5. CASE Collect
  <2>1. queue' \in Seq(Event) /\ Head(queue) \in Event
    BY <1>5, HeadTailProperties DEF Collect, Event
  <2> QED
    BY <1>5, <2>1 DEF Collect, Event, Steps
<1>6. CASE ReadSource
  <2>1. cur.file \in File
    BY <1>6 DEF ReadSource, HandlesLoaded
  <2>2. /\ cur' \in [file : File \cup {Absent}, src : Content \cup {Absent}, tries : 0..3]
        /\ step' \in {"set", "sleep"} => cur'.src \in Content
    <3>1. CASE disk[cur.file] # Absent /\ disk[cur.file].kind # "broken"
      <4>1. disk[cur.file] \in Content /\ cur' = [cur EXCEPT !.src = disk[cur.file], !.tries = 1]
        BY <1>6, <2>1, <3>1 DEF ReadSource
      <4>2. cur' = [file |-> cur.file, src |-> disk[cur.file], tries |-> 1]
        BY <4>1
      <4> QED BY <4>1, <4>2, <2>1
    <3>2. CASE ~(disk[cur.file] # Absent /\ disk[cur.file].kind # "broken")
      <4>1. cur' = NoFile /\ step' = "next"
        BY <1>6, <2>1, <3>2 DEF ReadSource
      <4> QED BY <4>1 DEF NoFile
    <3> QED BY <3>1, <3>2
  <2>4. why' \in [File -> [at : Content \cup {Absent}, reason : Reason]]
    BY <1>6, <2>1 DEF ReadSource, Reason
  <2> QED
    BY <1>6, <2>2, <2>4 DEF ReadSource, Steps
<1>7. CASE Replace \/ NeedsTopLevel
  <2>1. cur.file \in File /\ cur.src \in Content
    BY <1>7 DEF Replace, NeedsTopLevel, HandlesLoaded
  <2>2. why' \in [File -> [at : Content \cup {Absent}, reason : Reason]]
    BY <1>7, <2>1 DEF Replace, NeedsTopLevel, Reason
  <2>3. /\ step' = "next" /\ cur' = NoFile /\ reload' \in BOOLEAN
        /\ live' \in [File -> Content \cup {Absent}]
        /\ handled' \subseteq File /\ owed' \subseteq File
    BY <1>7, <2>1 DEF Replace, NeedsTopLevel
  <2> QED
    BY <1>7, <2>2, <2>3 DEF Replace, NeedsTopLevel, Steps, NoFile
<1>8. CASE Blocked
  <2>1. cur.file \in File /\ cur.src \in Content /\ cur.tries \in 0..3
    BY <1>8 DEF Blocked, HandlesLoaded
  <2>2. CASE cur.tries <= 2
    <3>1. step' = "sleep" /\ cur' = [cur EXCEPT !.tries = cur.tries + 1] /\ why' = why /\ stuck' = stuck
      BY <1>8, <2>1, <2>2 DEF Blocked
    <3>2. cur' = [file |-> cur.file, src |-> cur.src, tries |-> cur.tries + 1]
      BY <3>1
    <3>3. cur' \in [file : File \cup {Absent}, src : Content \cup {Absent}, tries : 0..3] /\ cur'.src \in Content
      BY <3>2, <2>1, <2>2
    <3> QED
      BY <1>8, <3>1, <3>3 DEF Blocked, Steps
  <2>3. CASE ~(cur.tries <= 2)
    <3>1. /\ step' = "next" /\ cur' = NoFile /\ stuck' = stuck \cup {cur.file}
          /\ why' = [why EXCEPT ![cur.file] = [at |-> cur.src, reason |-> "blocked"]]
      BY <1>8, <2>1, <2>3 DEF Blocked
    <3>2. [at |-> cur.src, reason |-> "blocked"] \in [at : Content \cup {Absent}, reason : Reason]
      BY <2>1 DEF Reason
    <3> QED
      BY <1>8, <2>1, <3>1, <3>2 DEF Blocked, Steps, NoFile
  <2> QED
    BY <2>2, <2>3
<1>9. CASE Finish
  BY <1>9 DEF Finish, Steps
<1>10. ASSUME NEW f \in File, HandleRemoved(f) PROVE TypeOK'
  BY <1>10 DEF HandleRemoved, Steps
<1>11. ASSUME NEW f \in File, HandleUpdated(f) PROVE TypeOK'
  <2>1. why' \in [File -> [at : Content \cup {Absent}, reason : Reason]]
    BY <1>11 DEF HandleUpdated, Reason
  <2>2. cur' \in [file : File \cup {Absent}, src : Content \cup {Absent}, tries : 0..3]
    BY <1>11 DEF HandleUpdated
  <2> QED
    BY <1>11, <2>1, <2>2 DEF HandleUpdated, Steps
<1>13. CASE EventLoopDry
  <2>1. why' \in [File -> [at : Content \cup {Absent}, reason : Reason]]
    BY <1>13 DEF EventLoopDry, Reason
  <2>2. NoFile \in [file : File \cup {Absent}, src : Content \cup {Absent}, tries : 0..3]
    BY DEF NoFile
  <2>3. NoBatch \in [File -> {"none", "updated", "removed"}]
    BY DEF NoBatch
  <2> QED
    BY <1>13, <2>1, <2>2, <2>3 DEF EventLoopDry, Steps
<1>12. CASE UNCHANGED vars
  BY <1>12 DEF vars
<1> QED
  BY <1>1, <1>2, <1>3, <1>4, <1>5, <1>6, <1>7, <1>8, <1>9, <1>10, <1>11, <1>12, <1>13 DEF Next, Runner

(* Both name the same changes (hmr.rs:364-398).                             *)
LEMMA AwaitedIsWaits == ASSUME TypeOK PROVE \A f : Awaited(f) <=> Waits(f)
<1>1. DOMAIN queue = 1..Len(queue)
  BY LenProperties DEF TypeOK
<1> QED
  BY <1>1 DEF Awaited, Waits, Queued, Update

(* Any step that leaves the queue alone.                                    *)
LEMMA SameQueue ==
  ASSUME queue' = queue
  PROVE  /\ \A f : Queued(f)' <=> Queued(f)
         /\ SavedSince /\ disk' = disk => SavedSince'
  BY DEF Queued, SavedSince, Update, Removal

(* A watcher event joins the queue (hmr.rs:300-362).                        *)
LEMMA Watched ==
  ASSUME NEW f \in File, NEW c \in {"updated", "removed"}, TypeOK,
         queue' = Append(queue, [file |-> f, change |-> c])
  PROVE  /\ \A g : Queued(g) => Queued(g)'
         /\ c = "updated" => Queued(f)'
         /\ SavedSince /\ (\A g \in File : disk'[g] # Absent => disk[g] # Absent \/ g = f)
              /\ (c = "removed" => disk'[f] = Absent) => SavedSince'
<1> DEFINE e == [file |-> f, change |-> c]
<1>1. e \in Event /\ queue \in Seq(Event)
  BY DEF Event, TypeOK
<1>2. /\ Len(queue) \in Nat /\ Len(queue') = Len(queue) + 1
      /\ \A i \in 1..Len(queue) : queue'[i] = queue[i]
      /\ queue'[Len(queue) + 1] = e
  BY <1>1, AppendProperties, LenProperties
<1> HIDE DEF e
<1>3. 1..Len(queue') = 1..Len(queue) \cup {Len(queue) + 1}
  BY <1>2
<1>4. \A g : Queued(g) => Queued(g)'
  BY <1>2, <1>3 DEF Queued, Update
<1>5. c = "updated" => Queued(f)'
  BY <1>2, <1>3 DEF Queued, Update, e
<1>6. ASSUME SavedSince, \A g \in File : disk'[g] # Absent => disk[g] # Absent \/ g = f,
             c = "removed" => disk'[f] = Absent
      PROVE  SavedSince'
  <2> SUFFICES ASSUME NEW g \in File, disk'[g] # Absent,
                      NEW i \in 1..Len(queue'), queue'[i] = Removal(g)
               PROVE  \E j \in 1..Len(queue') : j > i /\ queue'[j] = Update(g)
    BY DEF SavedSince, Update, Removal
  <2>1. CASE i = Len(queue) + 1
    <3>1. e = Removal(g)
      BY <1>2, <2>1
    <3>2. f = g /\ c = "removed"
      BY <3>1 DEF e, Removal
    <3> QED BY <3>2, <1>6
  <2>2. CASE i \in 1..Len(queue) /\ g = f /\ c = "updated"
    <3>1. queue'[Len(queue) + 1] = Update(g) /\ Len(queue) + 1 > i
      BY <1>2, <2>2 DEF e, Update
    <3> QED BY <3>1, <1>3
  <2>3. CASE i \in 1..Len(queue) /\ disk[g] # Absent
    <3>1. PICK j \in 1..Len(queue) : j > i /\ queue[j] = Update(g)
      BY <1>2, <1>6, <2>3 DEF SavedSince
    <3> QED BY <3>1, <1>2, <1>3
  <2> QED
    BY <1>3, <1>6, <2>1, <2>2, <2>3
<1> QED
  BY <1>4, <1>5, <1>6

(* The runner takes the oldest event; if that is a removal and the file is  *)
(* there, its save is still queued (hmr.rs:364-398).                        *)
LEMMA Collected ==
  ASSUME TypeOK, SavedSince, queue # <<>>, queue' = Tail(queue), disk' = disk
  PROVE  /\ Head(queue) \in Event
         /\ \A g \in File : Queued(g) => Queued(g)' \/ Head(queue) = Update(g)
         /\ \A g \in File : Head(queue) = Removal(g) /\ disk[g] # Absent => Queued(g)'
         /\ SavedSince'
<1>1. queue \in Seq(Event)
  BY DEF Event, TypeOK
<1>2. /\ Len(queue) \in Nat \ {0} /\ Len(queue') = Len(queue) - 1
      /\ \A i \in 1..Len(queue') : queue'[i] = queue[i + 1]
      /\ Head(queue) = queue[1] /\ Head(queue) \in Event
  BY <1>1, HeadTailProperties, LenProperties, EmptySeq
<1>3. \A i \in 1..Len(queue) : i = 1 \/ (i - 1 \in 1..Len(queue') /\ queue'[i - 1] = queue[i])
  BY <1>2
<1>4. \A g \in File : Queued(g) => Queued(g)' \/ Head(queue) = Update(g)
  BY <1>2, <1>3 DEF Queued, Update
<1>5. ASSUME NEW g \in File, Head(queue) = Removal(g), disk[g] # Absent PROVE Queued(g)'
  <2>1. PICK j \in 1..Len(queue) : j > 1 /\ queue[j] = Update(g)
    BY <1>2, <1>5 DEF SavedSince
  <2> QED
    BY <1>3, <2>1 DEF Queued, Update
<1>6. SavedSince'
  <2> SUFFICES ASSUME NEW g \in File, disk[g] # Absent,
                      NEW i \in 1..Len(queue'), queue'[i] = Removal(g)
               PROVE  \E j \in 1..Len(queue') : j > i /\ queue'[j] = Update(g)
    BY DEF SavedSince, Update, Removal
  <2>1. i + 1 \in 1..Len(queue) /\ queue[i + 1] = Removal(g)
    BY <1>2
  <2>2. PICK j \in 1..Len(queue) : j > i + 1 /\ queue[j] = Update(g)
    BY <2>1 DEF SavedSince
  <2>3. j - 1 \in 1..Len(queue') /\ j - 1 > i /\ queue'[j - 1] = Update(g)
    BY <1>2, <1>3, <2>2
  <2> QED
    BY <2>3
<1> QED
  BY <1>2, <1>4, <1>5, <1>6

(* Every step keeps the invariant (hmr.rs:300-527, lib.rs:740-790).         *)
LEMMA NextIInv == ASSUME IInv, [Next]_vars PROVE IInv'
<1> USE HmrAssumption, AbsentAssumption DEF IInv, code, batch, history, Goto, GiveUp
<1>0. TypeOK'
  BY NextTypeOK
<1>1. ASSUME NEW f \in File, NEW k \in Kind, Save(f, k) PROVE IInv'
  <2>1. /\ \A g : Queued(g) => Queued(g)'
        /\ Queued(f)' /\ SavedSince'
    BY <1>1, Watched DEF Save, TypeOK
  <2>2. HandlesLoaded' /\ ReadOnce' /\ MainIsLoaded' /\ OwedInBatch'
    BY <1>1 DEF Save, HandlesLoaded, ReadOnce, MainIsLoaded, OwedInBatch
  <2>3. \A g \in File : disk'[g] = disk[g] \/ g = f
    BY <1>1 DEF Save, TypeOK
  <2>4. HoldsNewest'
    BY <1>1, <2>1, <2>3 DEF Save, HoldsNewest, HandlesLoaded
  <2>5. NoneLost'
    BY <1>1, <2>1, <2>3 DEF Save, NoneLost, Explained, Waits
  <2> QED
    BY <1>0, <2>1, <2>2, <2>4, <2>5
<1>2. ASSUME NEW f \in File, Remove(f) PROVE IInv'
  <2>0. \A g \in File : disk'[g] = (IF g = f THEN Absent ELSE disk[g])
    BY <1>2 DEF Remove, TypeOK
  <2>1. (\A g : Queued(g) => Queued(g)') /\ SavedSince'
    BY <1>2, <2>0, Watched DEF Remove
  <2>2. HandlesLoaded' /\ ReadOnce' /\ MainIsLoaded' /\ OwedInBatch'
    BY <1>2 DEF Remove, HandlesLoaded, ReadOnce, MainIsLoaded, OwedInBatch
  <2>4. HoldsNewest'
    BY <1>2, <2>0, <2>1 DEF Remove, HoldsNewest, HandlesLoaded
  <2>5. NoneLost'
    BY <1>2, <2>0, <2>1 DEF Remove, NoneLost, Explained, Waits
  <2> QED
    BY <1>0, <2>1, <2>2, <2>4, <2>5
<1>3. CASE Collect
  <2>1. /\ Head(queue) \in Event
        /\ \A g \in File : Queued(g) => Queued(g)' \/ Head(queue) = Update(g)
        /\ \A g \in File : Head(queue) = Removal(g) /\ disk[g] # Absent => Queued(g)'
        /\ SavedSince'
    BY <1>3, Collected DEF Collect
  <2>2. HandlesLoaded' /\ HoldsNewest' /\ ReadOnce' /\ MainIsLoaded' /\ OwedInBatch'
    BY <1>3 DEF Collect, HandlesLoaded, HoldsNewest, ReadOnce, MainIsLoaded, OwedInBatch
  <2>3. ASSUME NEW g \in File, disk[g] # Absent, Explained(g) PROVE Explained(g)'
    <3>1. CASE Head(queue).file # g
      BY <1>3, <2>1, <2>3, <3>1 DEF Collect, Explained, Waits, Update, Event, TypeOK
    <3>2. CASE Head(queue) = Update(g)
      <4>1. pending'[g] = "updated"
        BY <1>3, <3>2 DEF Collect, Update, TypeOK
      <4> QED BY <4>1 DEF Explained, Waits
    <3>3. CASE Head(queue) = Removal(g)
      BY <2>1, <2>3, <3>3 DEF Explained, Waits
    <3> QED
      BY <2>1, <3>1, <3>2, <3>3 DEF Event, Update, Removal
  <2>4. NoneLost'
    BY <1>3, <2>3 DEF Collect, NoneLost
  <2> QED
    BY <1>0, <2>1, <2>2, <2>4
<1> USE DEF HandlesLoaded, HoldsNewest, ReadOnce, MainIsLoaded, OwedInBatch, NoneLost, Explained,
        Waits, TypeOK
<1>4. ASSUME NEW f \in File, LoadModule(f) PROVE IInv'
  BY <1>0, <1>4, SameQueue DEF LoadModule
<1>5. ASSUME NEW f \in File, ScriptParsed(f) PROVE IInv'
  BY <1>0, <1>5, SameQueue DEF ScriptParsed
<1>6. CASE Boot
  BY <1>0, <1>6, SameQueue DEF Boot
<1>7. CASE DebounceEnds
  BY <1>0, <1>7, SameQueue DEF DebounceEnds
<1>8. CASE Retry
  BY <1>0, <1>8, SameQueue DEF Retry
<1>9. CASE ReadSource
  <2>1. cur.file \in File /\ live[cur.file] # Absent /\ step = "read"
    BY <1>9 DEF ReadSource
  <2>2. CASE disk[cur.file] # Absent /\ disk[cur.file].kind # "broken"
    <3>1. /\ cur'.file = cur.file /\ cur'.src = disk[cur.file]
          /\ step' = "set" /\ why' = why
      BY <1>9, <2>1, <2>2 DEF ReadSource
    <3> QED BY <1>0, <1>9, <2>1, <3>1, SameQueue DEF ReadSource
  <2>3. CASE ~(disk[cur.file] # Absent /\ disk[cur.file].kind # "broken")
    <3>1. /\ cur' = NoFile /\ step' = "next"
          /\ why' = [why EXCEPT ![cur.file] = [at |-> disk[cur.file], reason |-> "broken"]]
      BY <1>9, <2>1, <2>3 DEF ReadSource
    <3> QED BY <1>0, <1>9, <2>1, <3>1, SameQueue DEF ReadSource, NoFile
  <2> QED
    BY <2>2, <2>3
<1>10. CASE Replace
  BY <1>0, <1>10, SameQueue DEF Replace, NoFile
<1>11. CASE NeedsTopLevel
  BY <1>0, <1>11, SameQueue DEF NeedsTopLevel, NoFile
<1>12. CASE Blocked
  <2>1. cur.file \in File /\ live[cur.file] # Absent /\ step = "set"
    BY <1>12 DEF Blocked
  <2>2. CASE cur.tries <= 2
    <3>1. /\ cur'.file = cur.file /\ cur'.src = cur.src
          /\ step' = "sleep" /\ why' = why
      BY <1>12, <2>1, <2>2 DEF Blocked
    <3> QED BY <1>0, <1>12, <2>1, <3>1, SameQueue DEF Blocked
  <2>3. CASE ~(cur.tries <= 2)
    <3>1. /\ cur' = NoFile /\ step' = "next"
          /\ why' = [why EXCEPT ![cur.file] = [at |-> cur.src, reason |-> "blocked"]]
      BY <1>12, <2>1, <2>3 DEF Blocked
    <3> QED BY <1>0, <1>12, <2>1, <3>1, SameQueue DEF Blocked, NoFile
  <2> QED
    BY <2>2, <2>3
<1>13. CASE Finish
  BY <1>0, <1>13, SameQueue DEF Finish
<1>14. CASE EventLoopDry
  BY <1>0, <1>14, SameQueue DEF EventLoopDry, NoFile, NoBatch
<1>15. ASSUME NEW f \in File, HandleRemoved(f) PROVE IInv'
  <2>1. HandlesLoaded' /\ HoldsNewest' /\ ReadOnce' /\ MainIsLoaded' /\ NoneLost' /\ SavedSince'
    BY <1>15, SameQueue DEF HandleRemoved
  <2>2. CASE live[f] # Absent
    <3>1. reload' = TRUE /\ step' = "next"
      BY <1>15, <2>2 DEF HandleRemoved
    <3> QED BY <1>0, <2>1, <3>1
  <2>3. CASE live[f] = Absent
    <3>1. reload' = reload /\ owed' = owed /\ handled' = handled /\ dropped' = dropped /\ step' = "next"
      BY <1>15, <2>3 DEF HandleRemoved
    <3>2. OwedInBatch'
      BY <3>1
    <3> QED BY <1>0, <2>1, <3>2
  <2> QED
    BY <2>2, <2>3
<1>16. ASSUME NEW f \in File, HandleUpdated(f) PROVE IInv'
  BY <1>0, <1>16, SameQueue DEF HandleUpdated, NoFile
<1>17. CASE UNCHANGED vars
  BY <1>0, <1>17, SameQueue DEF vars
<1> QED
  BY <1>1, <1>2, <1>3, <1>4, <1>5, <1>6, <1>7, <1>8, <1>9, <1>10, <1>11, <1>12, <1>13, <1>14,
     <1>15, <1>16, <1>17 DEF Next, Runner

(* The inductive invariant of hot module replacement: a content waits, runs *)
(* or was given up on (hmr.rs:364-527).                                     *)
THEOREM Invariance == Spec => []IInv
<1>1. IInv /\ [Next]_vars => IInv'
  BY NextIInv
<1> QED
  BY <1>1, InitIInv, PTL DEF Spec

(* Type correctness (hmr.rs:300-527).                                       *)
THEOREM TypeCorrect == Spec => []TypeOK
<1>1. IInv => TypeOK
  BY DEF IInv
<1> QED
  BY <1>1, Invariance, PTL

(* No change is lost between the watcher, the debounce and the read of the  *)
(* file, for any number of files and changes; the main module is never      *)
(* missed, and the windows follow (hmr.rs:364-427, 442-470).                *)
THEOREM NothingLost == Spec => []StaleExplained
<1>1. ASSUME IInv PROVE StaleExplained
  <2>1. WindowsFollow
    BY <1>1 DEF IInv, OwedInBatch, WindowsFollow, TypeOK
  <2>2. ASSUME NEW f \in File, live[f] # Absent, disk[f] \notin {Absent, live[f]}
        PROVE  Awaited(f) \/ (why[f].at = disk[f] /\ (why[f].reason = "missed" => f # Main))
    <3>1. Waits(f) \/ why[f].at = disk[f]
      BY <1>1, <2>2 DEF IInv, NoneLost, Explained
    <3>2. why[f].reason = "missed" => f # Main
      BY <1>1 DEF IInv, MainIsLoaded
    <3> QED
      BY <1>1, <3>1, <3>2, AwaitedIsWaits DEF IInv
  <2> QED
    BY <2>1, <2>2 DEF StaleExplained
<1> QED
  BY <1>1, Invariance, PTL

-----------------------------------------------------------------------------
(***************************************************************************)
(* The multiplexer, for any number of requests, events and clients.  A frame *)
(* is followed on its way: a request of the client is in one place at a time *)
(* (OnePlace), every channel holds frames of the kind that belongs there    *)
(* (FrameInv), and the client hears of the second target before it is told  *)
(* that this was all (AnnounceInv).                                         *)
(***************************************************************************)

(* ---- channels ------------------------------------------------------------- *)

Elems(q) == {q[i] : i \in DOMAIN q}
Carries(f) == f.t \in {"request", "reply"}
Ids(q) == {f.id : f \in {g \in Elems(q) : Carries(g)}}
Distinct(q) == \A i, j \in DOMAIN q : Carries(q[i]) /\ Carries(q[j]) /\ q[i].id = q[j].id => i = j

(* What is in a channel stands somewhere in it. *)
LEMMA ElemsFacts ==
  ASSUME NEW q \in Seq(Frame)
  PROVE  /\ \A i \in 1..Len(q) : q[i] \in Elems(q)
         /\ \A f \in Elems(q) : \E i \in 1..Len(q) : f = q[i]
  BY DEF Elems

(* Reading the first frame of a channel. *)
LEMMA TailFacts ==
  ASSUME NEW q \in Seq(Frame), q # <<>>
  PROVE  /\ Head(q) \in Frame /\ Tail(q) \in Seq(Frame)
         /\ Head(q) \in Elems(q) /\ Elems(Tail(q)) \subseteq Elems(q)
         /\ Elems(q) = Elems(Tail(q)) \cup {Head(q)}
         /\ Distinct(q) => Distinct(Tail(q))
         /\ Distinct(q) /\ Carries(Head(q)) => Head(q).id \notin Ids(Tail(q))
<1>1. /\ Head(q) = q[1] /\ 1 \in DOMAIN q /\ Tail(q) \in Seq(Frame)
      /\ Len(Tail(q)) = Len(q) - 1 /\ \A i \in 1..(Len(q) - 1) : Tail(q)[i] = q[i + 1]
  OBVIOUS
<1>2. Elems(q) = Elems(Tail(q)) \cup {Head(q)}
  <2>1. ASSUME NEW i \in 1..Len(q), i # 1 PROVE q[i] \in Elems(Tail(q))
    <3>1. i - 1 \in 1..(Len(q) - 1) /\ q[i] = Tail(q)[i - 1]
      BY <1>1, <2>1
    <3> QED BY <1>1, <3>1, ElemsFacts
  <2>2. ASSUME NEW i \in 1..Len(Tail(q)) PROVE Tail(q)[i] \in Elems(q)
    <3>1. i + 1 \in 1..Len(q) /\ Tail(q)[i] = q[i + 1]
      BY <1>1
    <3> QED BY <3>1 DEF Elems
  <2> QED BY <1>1, <2>1, <2>2 DEF Elems
<1>3. Distinct(q) => Distinct(Tail(q))
  BY <1>1 DEF Distinct
<1>4. Distinct(q) /\ Carries(Head(q)) => Head(q).id \notin Ids(Tail(q))
  BY <1>1 DEF Distinct, Ids, Elems
<1> QED BY <1>1, <1>2, <1>3, <1>4 DEF Elems

(* Adding a frame at the end of a channel. *)
LEMMA AppendFacts ==
  ASSUME NEW q \in Seq(Frame), NEW f \in Frame
  PROVE  /\ Append(q, f) \in Seq(Frame)
         /\ Elems(Append(q, f)) = Elems(q) \cup {f}
         /\ Ids(Append(q, f)) = Ids(q) \cup (IF Carries(f) THEN {f.id} ELSE {})
         /\ Distinct(q) /\ (Carries(f) => f.id \notin Ids(q)) => Distinct(Append(q, f))
<1>1. /\ Append(q, f) \in Seq(Frame) /\ Len(Append(q, f)) = Len(q) + 1
      /\ Append(q, f)[Len(q) + 1] = f /\ \A i \in 1..Len(q) : Append(q, f)[i] = q[i]
  OBVIOUS
<1>2. Elems(Append(q, f)) = Elems(q) \cup {f}
  BY <1>1 DEF Elems
<1>3. Ids(Append(q, f)) = Ids(q) \cup (IF Carries(f) THEN {f.id} ELSE {})
  BY <1>2 DEF Ids
<1>4. Distinct(q) /\ (Carries(f) => f.id \notin Ids(q)) => Distinct(Append(q, f))
  <2> SUFFICES ASSUME Distinct(q), Carries(f) => f.id \notin Ids(q),
                      NEW i \in 1..(Len(q) + 1), NEW j \in 1..(Len(q) + 1),
                      Carries(Append(q, f)[i]), Carries(Append(q, f)[j]),
                      Append(q, f)[i].id = Append(q, f)[j].id
               PROVE  i = j
    BY <1>1 DEF Distinct
  <2>1. \A k \in 1..Len(q) : Carries(q[k]) => q[k].id \in Ids(q)
    BY DEF Ids, Elems
  <2> QED BY <1>1, <2>1 DEF Distinct
<1> QED BY <1>1, <1>2, <1>3, <1>4

(* Two channels, one after the other. *)
LEMMA ConcatFacts ==
  ASSUME NEW q \in Seq(Frame), NEW r \in Seq(Frame)
  PROVE  /\ q \o r \in Seq(Frame)
         /\ Elems(q \o r) = Elems(q) \cup Elems(r) /\ Ids(q \o r) = Ids(q) \cup Ids(r)
<1>1. /\ q \o r \in Seq(Frame) /\ Len(q \o r) = Len(q) + Len(r)
      /\ \A i \in 1..Len(q) : (q \o r)[i] = q[i]
      /\ \A i \in 1..Len(r) : (q \o r)[Len(q) + i] = r[i]
  OBVIOUS
<1>2. Elems(q \o r) = Elems(q) \cup Elems(r)
  <2>1. ASSUME NEW i \in 1..Len(r) PROVE r[i] \in Elems(q \o r)
    <3>1. Len(q) + i \in 1..Len(q \o r) /\ (q \o r)[Len(q) + i] = r[i]
      BY <1>1
    <3> QED BY <1>1, <3>1, ElemsFacts
  <2>2. ASSUME NEW i \in 1..Len(q) PROVE q[i] \in Elems(q \o r)
    BY <1>1 DEF Elems
  <2>3. ASSUME NEW i \in 1..Len(q \o r) PROVE (q \o r)[i] \in Elems(q) \cup Elems(r)
    <3>1. CASE i \in 1..Len(q)
      BY <1>1, <3>1 DEF Elems
    <3>2. CASE i - Len(q) \in 1..Len(r)
      BY <1>1, <3>2 DEF Elems
    <3> QED BY <1>1, <3>1, <3>2
  <2>4. ASSUME NEW f \in Elems(q \o r) PROVE f \in Elems(q) \cup Elems(r)
    <3>1. PICK i \in 1..Len(q \o r) : f = (q \o r)[i]
      BY <1>1, ElemsFacts
    <3> QED BY <2>3, <3>1
  <2>5. Elems(q) \subseteq Elems(q \o r) /\ Elems(r) \subseteq Elems(q \o r)
    BY <2>1, <2>2, ElemsFacts
  <2> QED BY <2>4, <2>5
<1>3. Ids(q \o r) = Ids(q) \cup Ids(r)
  BY <1>2 DEF Ids
<1> QED BY <1>1, <1>2, <1>3

(* A frame that is handed on is still in front of those behind it. *)
LEMMA HandOn ==
  ASSUME NEW q \in Seq(Frame), NEW r \in Seq(Frame), r # <<>>
  PROVE  Append(q, Head(r)) \o Tail(r) = q \o r
  OBVIOUS

(* Adding to the second of two channels. *)
LEMMA AddBehind ==
  ASSUME NEW q \in Seq(Frame), NEW r \in Seq(Frame), NEW s \in Seq(Frame)
  PROVE  q \o (r \o s) = (q \o r) \o s
  OBVIOUS

(* ---- types and the gate ----------------------------------------------------- *)

(* Frames of the two upstreams, of the client and of the mux.               *)
LEMMA FramesTyped ==
  /\ Enable \in Frame /\ Pause \in Frame /\ Ping \in Frame /\ Close \in Frame
  /\ F("event", 0, "main realm", "none") \in Frame
  /\ \A f \in Frame : F("reply", f.id, f.m, "none") \in Frame
  /\ \A f \in Frame : Announcement(f) \in Seq(Frame) /\ LocalAnswer(f) \in Seq(Frame)
  /\ \A f \in Frame, u \in Upstream : FromUpstream(u, f) \in Frame
<1>1. /\ Enable \in Frame /\ Pause \in Frame /\ Ping \in Frame /\ Close \in Frame
      /\ F("event", 0, "main realm", "none") \in Frame
  BY MuxAssumption DEF Enable, Pause, Ping, Close, F, Frame, Methods
<1>2. ASSUME NEW f \in Frame PROVE F("reply", f.id, f.m, "none") \in Frame
  BY DEF F, Frame, Methods
<1>3. ASSUME NEW f \in Frame PROVE Announcement(f) \in Seq(Frame) /\ LocalAnswer(f) \in Seq(Frame)
  <2>0. 0 \in 0..(MaxAsked + 2)
    BY MuxAssumption
  <2>1. F("event", 0, "attached", "none") \in Frame
    BY <2>0 DEF F, Frame
  <2>2. F("event", 0, "detached", "none") \in Frame
    BY <2>0 DEF F, Frame
  <2>3. Announcement(f) \in Seq(Frame)
    BY <2>1 DEF Announcement
  <2>4. LocalAnswer(f) \in Seq(Frame)
    <3>1. CASE f.m = "attachDeno"
      BY <1>2, <3>1 DEF LocalAnswer
    <3>2. CASE f.m = "detachDeno"
      BY <1>2, <2>2, <3>2 DEF LocalAnswer
    <3>3. CASE f.m \notin {"attachDeno", "detachDeno"}
      BY <3>3 DEF LocalAnswer
    <3> QED BY <3>1, <3>2, <3>3
  <2> QED BY <2>3, <2>4
<1>4. ASSUME NEW f \in Frame, NEW u \in Upstream PROVE FromUpstream(u, f) \in Frame
  BY DEF FromUpstream, Frame, Methods, Upstream
<1> QED BY <1>1, <1>2, <1>3, <1>4

(***************************************************************************)
(* Why the gate opens only after the pause: its id is above those of the    *)
(* client, so a reply with it is that of the renderer to the injected       *)
(* request, which executes it.                                              *)
(***************************************************************************)
GateInv ==
  /\ kind = "deno" => attached
  /\ Pause.id \in acks => paused
  /\ \A f \in Elems(inbox["cef"]) : f.id = Pause.id => paused
  /\ \A u \in Upstream : \A f \in todo[u] : f.id = Pause.id => f = Pause
  /\ \A f \in Elems(inbox["client"]) \cup Elems(outgoing["cef"]) \cup Elems(outgoing["deno"]) :
       f.id <= MaxAsked

(***************************************************************************)
(* Sessions do not overlap: between two of them nothing is connected and    *)
(* nothing is under way, and only those who take part are read from.        *)
(***************************************************************************)
IdleInv ==
  /\ phase \in {"none", "over"} =>
       \A p \in Peer : ~conn[p] /\ inbox[p] = <<>> /\ outgoing[p] = <<>>
  /\ phase = "connect" =>
       /\ \A p \in Peer : outgoing[p] = <<>>
       /\ \A u \in Upstream : ~conn[u] /\ inbox[u] = <<>> /\ todo[u] = {}
       /\ ~announced /\ got = <<>> /\ acks = {}
  /\ phase = "inject" => (\A p \in Peer : outgoing[p] = <<>>) /\ ~announced /\ got = <<>>
  /\ phase \in {"none", "over", "connect"} => \A p \in Peer : ~reader[p] /\ ~writer[p]
  /\ \A p \in Peer : reader[p] => p \in Peers

(* Nothing is connected yet (desktop_devtools.rs:204-244, 304-315).         *)
LEMMA MuxStarts == MuxInit => MuxTypeOK /\ IdleInv /\ GateInv
<1> SUFFICES ASSUME MuxInit PROVE MuxTypeOK /\ IdleInv /\ GateInv
  OBVIOUS
<1>1. \A q \in {<<>>} : q \in Seq(Frame) /\ Elems(q) = {}
  BY DEF Elems
<1>2. MuxTypeOK
  <2>1. inbox \in [Peer -> Seq(Frame)] /\ outgoing \in [Peer -> Seq(Frame)]
    BY <1>1 DEF MuxInit
  <2>2. todo \in [Upstream -> SUBSET Frame]
    BY DEF MuxInit
  <2>3. {brk, attached, released, paused, announced} \subseteq BOOLEAN
    BY DEF MuxInit
  <2>4. /\ conn \in [Peer -> BOOLEAN] /\ reader \in [Peer -> BOOLEAN] /\ writer \in [Peer -> BOOLEAN]
    BY DEF MuxInit
  <2> QED BY <1>1, <2>1, <2>2, <2>3, <2>4, MuxAssumption DEF MuxInit, MuxTypeOK, Phases
<1>3. GateInv
  BY <1>1 DEF MuxInit, GateInv, Peer, Upstream
<1>4. IdleInv
  BY DEF MuxInit, IdleInv
<1> QED BY <1>2, <1>3, <1>4

(* What Send leaves in a channel. *)
LEMMA SendTyped ==
  ASSUME NEW q \in [Peer -> Seq(Frame)], NEW p \in Peer, NEW fs \in Seq(Frame)
  PROVE  /\ Send(q, p, fs) \in [Peer -> Seq(Frame)]
         /\ \A r \in Peer \ {p} : Send(q, p, fs)[r] = q[r]
         /\ Send(q, p, fs)[p] = IF writer[p] THEN q[p] \o fs ELSE q[p]
  BY DEF Send

(* A send adds to one channel only. *)
LEMMA SendElems ==
  ASSUME NEW q \in [Peer -> Seq(Frame)], NEW p \in Peer, NEW fs \in Seq(Frame), NEW r \in Peer
  PROVE  /\ Elems(Send(q, p, fs)[r]) \subseteq Elems(q[r]) \cup Elems(fs)
         /\ r # p => Send(q, p, fs)[r] = q[r]
<1>1. r # p => Send(q, p, fs)[r] = q[r]
  BY SendTyped
<1>2. Send(q, p, fs)[p] = q[p] \o fs \/ Send(q, p, fs)[p] = q[p]
  BY SendTyped
<1>3. Elems(q[p] \o fs) = Elems(q[p]) \cup Elems(fs)
  BY ConcatFacts
<1> QED BY <1>1, <1>2, <1>3

(* A channel of one frame. *)
LEMMA OneFrame ==
  ASSUME NEW f \in Frame
  PROVE  <<f>> \in Seq(Frame) /\ Elems(<<f>>) = {f}
<1> DEFINE q == <<f>>
<1>1. q \in Seq(Frame) /\ Len(q) = 1 /\ q[1] = f
  OBVIOUS
<1> HIDE DEF q
<1>2. Elems(q) = {f}
  BY <1>1, ElemsFacts
<1> QED BY <1>1, <1>2 DEF q

(* A flag that is set becomes true for a reason. *)
LEMMA SetsFlag ==
  ASSUME NEW a \in BOOLEAN, NEW b, NEW d, b = (a \/ d), b # a
  PROVE  d
  OBVIOUS

(* Every handler of the mux, of its client and of its upstreams keeps to    *)
(* the types (desktop_devtools.rs:626-899, 960-1219).                       *)
LEMMA MuxTyped == MuxTypeOK /\ [MuxNext]_muxVars => MuxTypeOK'
<1> SUFFICES ASSUME MuxTypeOK, [MuxNext]_muxVars PROVE MuxTypeOK'
  OBVIOUS
<1> USE MuxAssumption DEF MuxTypeOK
<1>p. "client" \in Peer /\ "cef" \in Peer /\ "deno" \in Peer
  BY DEF Peer, Upstream
<1>q. outgoing \in [Peer -> Seq(Frame)] /\ inbox \in [Peer -> Seq(Frame)]
  OBVIOUS
<1>0. \A p \in Peer : inbox[p] # <<>> => Head(inbox[p]) \in Frame /\ Tail(inbox[p]) \in Seq(Frame)
  OBVIOUS
<1>a. ASSUME NEW p \in Peer, NEW f \in Frame, Deliver(p, f)
      PROVE  got' \in Seq(Frame) /\ todo' \in [Upstream -> SUBSET Frame] /\ asked' \in Seq(Frame)
  BY <1>a DEF Deliver
<1>b. ASSUME Over PROVE
        /\ phase' \in Phases /\ conn' \in [Peer -> BOOLEAN]
        /\ inbox' \in [Peer -> Seq(Frame)] /\ outgoing' \in [Peer -> Seq(Frame)]
        /\ reader' \in [Peer -> BOOLEAN] /\ writer' \in [Peer -> BOOLEAN]
  BY <1>b DEF Over, Phases
<1>1. ASSUME NEW r \in Requests, Upgrade(r) PROVE MuxTypeOK'
  <2>1. attached' \in BOOLEAN
    BY <1>1 DEF Upgrade
  <2>2. todo' \in [Upstream -> SUBSET Frame]
    BY <1>1 DEF Upgrade
  <2>3. conn' \in [Peer -> BOOLEAN]
    BY <1>1 DEF Upgrade
  <2>4. clients' \in 0..MaxClients
    BY <1>1 DEF Upgrade
  <2>5. kind' \in MuxKind /\ phase' \in Phases /\ acks' = {} /\ asked' = <<>> /\ got' = <<>>
    BY <1>1 DEF Upgrade, Phases
  <2>6. <<>> \in Seq(Frame)
    OBVIOUS
  <2> QED BY <1>1, <2>1, <2>2, <2>3, <2>4, <2>5, <2>6 DEF Upgrade
<1>2. ASSUME NEW r \in Requests, Poll(r) PROVE MuxTypeOK'
  BY <1>2 DEF Poll, wires, talk
<1>3. CASE Connected
  <2>1. attached' \in BOOLEAN
    BY <1>3 DEF Connected
  <2>4. \A p \in Peer : (p \in Peers) \in BOOLEAN /\ (kind = "unified") \in BOOLEAN
    OBVIOUS
  <2>5. conn' \in [Peer -> BOOLEAN]
    BY <1>3, <2>4 DEF Connected
  <2>6. reader' \in [Peer -> BOOLEAN]
    BY <1>3, <2>4 DEF Connected
  <2>2. reader' \in [Peer -> BOOLEAN] /\ conn' \in [Peer -> BOOLEAN] /\ writer' \in [Peer -> BOOLEAN]
    BY <1>3, <2>4, <2>5, <2>6 DEF Connected
  <2>3. todo' \in [Upstream -> SUBSET Frame]
    BY <1>3, FramesTyped DEF Connected
  <2> QED BY <1>3, <2>1, <2>2, <2>3 DEF Connected, Phases
<1>4. CASE ConnectFails \/ Teardown \/ ProxyDone
  BY <1>4, <1>b DEF ConnectFails, Teardown, ProxyDone, gate, talk
<1>5. CASE InjectRead
  <2>1. attached' \in BOOLEAN
    BY <1>5 DEF InjectRead
  <2>2. inbox' \in [Peer -> Seq(Frame)]
    BY <1>0, <1>5 DEF InjectRead, Peer, Upstream
  <2> QED BY <1>5, <2>1, <2>2 DEF InjectRead, Phases, talk
<1>6. CASE InjectFails
  <2>1. CASE Over /\ UNCHANGED attached
    BY <1>6, <2>1, <1>b DEF InjectFails, talk
  <2>2. CASE phase' = "open" /\ attached' = TRUE /\ UNCHANGED wires
    BY <1>6, <2>2 DEF InjectFails, talk, wires, Phases
  <2> QED BY <1>6, <2>1, <2>2 DEF InjectFails
<1>7. CASE ReadClient
  <2> DEFINE f == Head(inbox["client"])
  <2>1. f \in Frame /\ inbox' \in [Peer -> Seq(Frame)]
    BY <1>0, <1>7 DEF ReadClient, ReadFrom, Peer
  <2>2. reader' \in [Peer -> BOOLEAN]
    BY <1>7 DEF ReadClient
  <2>3. outgoing' \in [Peer -> Seq(Frame)] /\ announced' \in BOOLEAN
    <3> HIDE DEF f
    <3>0. [f EXCEPT !.s = "none"] \in Frame /\ <<f>> \in Seq(Frame)
          /\ <<[f EXCEPT !.s = "none"]>> \in Seq(Frame) /\ <<>> \in Seq(Frame)
          /\ Announcement(f) \in Seq(Frame) /\ LocalAnswer(f) \in Seq(Frame)
          /\ Announcement(f) \o LocalAnswer(f) \in Seq(Frame)
      <4>1. [f EXCEPT !.s = "none"] \in Frame
        BY <2>1 DEF Frame
      <4>2. Announcement(f) \in Seq(Frame) /\ LocalAnswer(f) \in Seq(Frame)
        BY <2>1, FramesTyped
      <4> QED BY <2>1, <4>1, <4>2
    <3>1. CASE Route(f)
      <4>1. CASE f.s = "deno"
        <5>1. Send(outgoing, "deno", <<[f EXCEPT !.s = "none"]>>) \in [Peer -> Seq(Frame)]
          BY <1>p, <1>q, <3>0, SendTyped
        <5> QED BY <3>1, <4>1, <5>1 DEF Route
      <4>2. CASE f.s # "deno"
        <5>1. Send(outgoing, "client", Announcement(f) \o LocalAnswer(f)) \in [Peer -> Seq(Frame)]
          BY <3>0, SendTyped, <1>p
        <5>2. outgoing' \in [Peer -> Seq(Frame)]
          <6> DEFINE q == Send(outgoing, "client", Announcement(f) \o LocalAnswer(f))
                     fs == IF LocalAnswer(f) = <<>> THEN <<f>> ELSE <<>>
          <6>1. outgoing' = Send(q, "cef", fs)
            BY <3>1, <4>2 DEF Route
          <6>2. q \in [Peer -> Seq(Frame)] /\ fs \in Seq(Frame)
            BY <3>0, <5>1
          <6> HIDE DEF q, fs
          <6>3. Send(q, "cef", fs) \in [Peer -> Seq(Frame)]
            BY <1>p, <6>2, SendTyped
          <6> QED BY <6>1, <6>3
        <5>3. announced' \in BOOLEAN
          BY <3>1, <4>2 DEF Route
        <5> QED BY <5>2, <5>3
      <4> QED BY <4>1, <4>2
    <3>2. CASE outgoing' = Send(Send(outgoing, "cef", <<f>>), "deno", <<f>>) /\ UNCHANGED announced
      <4>1. Send(outgoing, "cef", <<f>>) \in [Peer -> Seq(Frame)]
        BY <3>0, SendTyped, <1>p
      <4> QED BY <3>0, <3>2, <4>1, SendTyped, <1>p
    <3>3. CASE outgoing' = Send(outgoing, "cef", <<f>>) /\ UNCHANGED announced
      BY <3>0, <3>3, SendTyped, <1>p
    <3> QED BY <1>7, <3>1, <3>2, <3>3 DEF ReadClient, f
  <2> QED BY <1>7, <2>1, <2>2, <2>3 DEF ReadClient, gate, talk
<1>8. ASSUME NEW u \in Upstream, ReadUpstream(u) PROVE MuxTypeOK'
  <2>0. u \in Peer /\ "client" \in Peer
    BY DEF Peer
  <2>1. /\ inbox' \in [Peer -> Seq(Frame)] /\ Head(inbox[u]) \in Frame
        /\ FromUpstream(u, Head(inbox[u])) \in Frame
    BY <1>0, <1>8, <2>0, FramesTyped DEF ReadUpstream, ReadFrom
  <2>2. outgoing' \in [Peer -> Seq(Frame)]
    <3>1. <<FromUpstream(u, Head(inbox[u]))>> \in Seq(Frame)
      BY <2>1
    <3> HIDE DEF MuxTypeOK
    <3> QED BY <1>8, <2>0, <3>1, SendTyped DEF ReadUpstream, MuxTypeOK
  <2>3. reader' \in [Peer -> BOOLEAN]
    BY <1>8, <2>0 DEF ReadUpstream
  <2> QED BY <1>8, <2>1, <2>2, <2>3 DEF ReadUpstream, gate, talk
<1>9. ASSUME NEW p \in Peer, Write(p) PROVE MuxTypeOK'
  <2>1. CASE ~conn[p]
    <3>1. /\ outgoing' = [outgoing EXCEPT ![p] = <<>>] /\ writer' = [writer EXCEPT ![p] = FALSE]
          /\ UNCHANGED <<gate, kind, phase, conn, inbox, reader, announced, acks, talk, events, clients>>
      BY <1>9, <2>1 DEF Write, talk
    <3>2. outgoing' \in [Peer -> Seq(Frame)] /\ writer' \in [Peer -> BOOLEAN]
      BY <3>1
    <3> QED BY <3>1, <3>2 DEF gate, talk
  <2>2. CASE conn[p]
    <3>1. Head(outgoing[p]) \in Frame /\ Tail(outgoing[p]) \in Seq(Frame)
      BY <1>9 DEF Write
    <3>2. Deliver(p, Head(outgoing[p]))
      BY <1>9, <2>2 DEF Write
    <3>3. outgoing' \in [Peer -> Seq(Frame)] /\ writer' \in [Peer -> BOOLEAN]
      <4>1. <<>> \in Seq(Frame)
        OBVIOUS
      <4>2. \E q \in Seq(Frame) : outgoing' = [outgoing EXCEPT ![p] = q]
        BY <1>9, <2>2, <3>1, <4>1 DEF Write
      <4>3. \E b \in BOOLEAN : writer' = [writer EXCEPT ![p] = b]
        BY <1>9, <2>2 DEF Write
      <4> QED BY <4>2, <4>3
    <3> QED BY <1>9, <1>a, <3>1, <3>2, <3>3 DEF Write, gate
  <2> QED BY <2>1, <2>2
<1>10. ASSUME NEW p \in Peer, ReadFails(p) PROVE MuxTypeOK'
  BY <1>10 DEF ReadFails, gate, talk
<1>11. ASSUME NEW p \in Peer, Pump(p) PROVE MuxTypeOK'
  <2>1. /\ inbox' \in [Peer -> Seq(Frame)] /\ Head(inbox[p]) \in Frame
    BY <1>0, <1>11 DEF Pump, ReadFrom
  <2> DEFINE to == CHOOSE q \in Peers : q # p
  <2>2. to \in Peer
    BY <1>11 DEF Peers, Peer, Upstream, Pump, Proxied
  <2>3. CASE ~conn[to]
    BY <1>11, <2>1, <2>3 DEF Pump, gate, talk
  <2>4. CASE conn[to]
    <3>1. Deliver(to, Head(inbox[p]))
      BY <1>11, <2>4 DEF Pump
    <3>2. reader' \in [Peer -> BOOLEAN]
      BY <1>11, <2>4 DEF Pump
    <3> QED BY <1>11, <1>a, <2>1, <2>2, <3>1, <3>2 DEF Pump, gate
  <2> QED BY <2>3, <2>4
<1>12. ASSUME NEW p \in Peer, NEW f \in Frame, Utter(p, f) PROVE inbox' \in [Peer -> Seq(Frame)]
  BY <1>12 DEF Utter
<1>13. ASSUME NEW m \in Methods, NEW s \in SessionsOf(m), Ask(m, s) PROVE MuxTypeOK'
  <2>1. F("request", Len(asked) + 1, m, s) \in Frame
    <3>1. Len(asked) + 1 \in 0..(MaxAsked + 2)
      BY <1>13 DEF Ask
    <3>2. s \in {"none", "deno"}
      BY DEF SessionsOf
    <3> HIDE DEF MuxTypeOK
    <3> QED BY <3>1, <3>2 DEF F, Frame
  <2>2. inbox' \in [Peer -> Seq(Frame)] /\ asked' \in Seq(Frame)
    BY <1>p, <1>12, <1>13, <2>1 DEF Ask
  <2> QED BY <1>13, <2>2 DEF Ask, gate
<1>14. ASSUME NEW u \in Upstream, NEW f \in todo[u], Answer(u, f) PROVE MuxTypeOK'
  <2>1. f \in Frame /\ F("reply", f.id, f.m, "none") \in Frame /\ u \in Peer
    BY FramesTyped DEF Peer
  <2>2. inbox' \in [Peer -> Seq(Frame)]
    BY <1>12, <1>14, <2>1 DEF Answer
  <2>3. paused' \in BOOLEAN
    BY <1>14 DEF Answer
  <2>4. todo' \in [Upstream -> SUBSET Frame]
    BY <1>14 DEF Answer
  <2> QED BY <1>14, <2>2, <2>3, <2>4 DEF Answer
<1>15. ASSUME NEW p \in Peer, MuxEvent(p) PROVE MuxTypeOK'
  <2>1. inbox' \in [Peer -> Seq(Frame)]
    BY <1>12, <1>15, FramesTyped DEF MuxEvent
  <2>2. events' \in 0..MaxEvents
    <3>1. events \in 0..MaxEvents /\ events < MaxEvents /\ events' = events + 1
      BY <1>15 DEF MuxEvent
    <3> HIDE DEF MuxTypeOK
    <3> QED BY <3>1
  <2> QED BY <1>15, <2>1, <2>2 DEF MuxEvent, gate, talk
<1>16. ASSUME NEW p \in Peer, Leave(p) PROVE MuxTypeOK'
  <2>1. inbox' \in [Peer -> Seq(Frame)]
    <3>0. Close \in Frame
      BY FramesTyped
    <3>1. Append(inbox[p], Close) \in Seq(Frame) /\ inbox[p] \in Seq(Frame)
      BY <1>q, <3>0
    <3>2. \E q \in Seq(Frame) : inbox' = [inbox EXCEPT ![p] = q]
      BY <1>16, <3>1 DEF Leave
    <3> QED BY <3>2
  <2> QED BY <1>16, <2>1 DEF Leave, gate, talk
<1>17. CASE UNCHANGED muxVars
  BY <1>17 DEF muxVars, gate, wires, talk
<1> QED
  BY <1>1, <1>2, <1>3, <1>4, <1>5, <1>6, <1>7, <1>8, <1>9, <1>10, <1>11, <1>13, <1>14, <1>15,
     <1>16, <1>17
  DEF MuxNext, Mux, Environment

(* What a frame that is handed on leaves behind.                            *)
LEMMA DeliverTodo ==
  ASSUME MuxTypeOK, NEW p \in Peer, NEW f, Deliver(p, f)
  PROVE  \A u \in Upstream : \A g \in todo'[u] : g \in todo[u] \/ (g = f /\ u = p /\ f.t = "request")
  BY DEF Deliver

(* Every step keeps the ids of the mux and of the client apart, and opens   *)
(* the gate only after the pause (desktop_devtools.rs:656-686, 956-1000,    *)
(* 1026-1035).                                                              *)
LEMMA GateKept ==
  MuxTypeOK /\ IdleInv /\ GateInv /\ [MuxNext]_muxVars =>
    /\ GateInv'
    /\ attached' # attached /\ brk =>
         paused \/ (kind' = "deno" /\ phase' = "connect") \/ (kind = "cef" /\ ~conn["cef"])
<1> SUFFICES ASSUME MuxTypeOK, IdleInv, GateInv, [MuxNext]_muxVars
             PROVE  /\ GateInv'
                    /\ attached' # attached /\ brk =>
                         \/ paused
                         \/ kind' = "deno" /\ phase' = "connect"
                         \/ kind = "cef" /\ ~conn["cef"]
  OBVIOUS
<1> USE MuxAssumption
<1>p. "client" \in Peer /\ "cef" \in Peer /\ "deno" \in Peer /\ Upstream \subseteq Peer
      /\ Upstream = {"cef", "deno"}
  BY DEF Peer, Upstream
<1>q. outgoing \in [Peer -> Seq(Frame)] /\ inbox \in [Peer -> Seq(Frame)]
  BY DEF MuxTypeOK
<1>e. Elems(<<>>) = {}
  BY DEF Elems
<1>i. Pause.id = MaxAsked + 2 /\ Enable.id = MaxAsked + 1 /\ Ping.id = 0 /\ Close.id = 0
  BY DEF Pause, Enable, Ping, Close, F
<1>b. attached \in BOOLEAN /\ attached' \in BOOLEAN
  BY MuxTyped DEF MuxTypeOK
<1>o. ASSUME Over, UNCHANGED <<kind, acks, todo, paused, attached>> PROVE GateInv'
  <2>1. \A p \in Peer : Elems(inbox'[p]) = {} /\ Elems(outgoing'[p]) = {}
    BY <1>o, <1>e DEF Over
  <2> QED BY <1>o, <1>p, <2>1 DEF GateInv
<1>n. ASSUME NEW p \in Peer, NEW f \in Frame, Utter(p, f),
             \/ p = "client" /\ f.id <= MaxAsked
             \/ p = "deno"
             \/ p = "cef" /\ (f.id = Pause.id => paused'),
             UNCHANGED <<kind, acks, attached, outgoing>>, paused => paused',
             \A u \in Upstream : todo'[u] \subseteq todo[u]
      PROVE  GateInv'
  <2>1. \A q \in Peer : inbox'[q] = IF q = p THEN Append(inbox[q], f) ELSE inbox[q]
    BY <1>n, <1>q DEF Utter
  <2>2. \A q \in Peer : Elems(inbox'[q]) = IF q = p THEN Elems(inbox[q]) \cup {f} ELSE Elems(inbox[q])
    BY <2>1, <1>q, AppendFacts
  <2> QED BY <1>n, <1>p, <2>2 DEF GateInv
<1>r. ASSUME NEW p \in Peer, inbox[p] # <<>>, inbox' = [inbox EXCEPT ![p] = Tail(@)]
      PROVE  /\ Head(inbox[p]) \in Elems(inbox[p])
             /\ \A q \in Peer : Elems(inbox'[q]) \subseteq Elems(inbox[q])
  BY <1>q, <1>r, TailFacts
<1>1. ASSUME NEW r \in Requests, Upgrade(r) PROVE
        /\ GateInv'
        /\ attached' # attached => kind' = "deno" /\ phase' = "connect"
  <2>1. GateInv'
    BY <1>1, <1>p DEF Upgrade, GateInv
  <2>2. attached' # attached => r.path = "deno"
    <3>1. attached' = (attached \/ r.path = "deno")
      BY <1>1 DEF Upgrade
    <3> QED BY <1>b, <3>1, SetsFlag
  <2> QED BY <1>1, <2>1, <2>2 DEF Upgrade
<1>2. ASSUME NEW r \in Requests, Poll(r) PROVE GateInv' /\ attached' = attached
  BY <1>2 DEF Poll, wires, talk, GateInv
<1>3. CASE Connected
  <2>1. attached' # attached => ~brk
    BY <1>3 DEF Connected, Injects, GateInv, MuxTypeOK
  <2>2. GateInv'
    <3>1. \A u \in Upstream : \A f \in todo'[u] : f \in todo[u] \cup {Enable, Pause}
      BY <1>3, <1>p DEF Connected, MuxTypeOK
    <3>2. kind = "deno" => attached'
      BY <1>3 DEF Connected, GateInv
    <3> QED BY <1>3, <1>i, <3>1, <3>2 DEF Connected, GateInv
  <2> QED BY <2>1, <2>2
<1>4. CASE ConnectFails \/ Teardown \/ ProxyDone
  BY <1>4, <1>o DEF ConnectFails, Teardown, ProxyDone, gate, talk
<1>5. CASE InjectRead
  <2>1. /\ Head(inbox["cef"]) \in Elems(inbox["cef"])
        /\ \A q \in Peer : Elems(inbox'[q]) \subseteq Elems(inbox[q])
    BY <1>5, <1>p, <1>r DEF InjectRead
  <2>2. Pause.id \in acks' => paused
    BY <1>5, <2>1 DEF InjectRead, GateInv
  <2>3. attached' # attached => Pause.id \in acks'
    <3>1. attached' = (attached \/ acks' = {Enable.id, Pause.id})
      BY <1>5 DEF InjectRead
    <3>2. attached' # attached => acks' = {Enable.id, Pause.id}
      BY <1>b, <3>1, SetsFlag
    <3> QED BY <3>2
  <2>4. GateInv'
    BY <1>5, <1>p, <2>1, <2>2 DEF InjectRead, GateInv, talk
  <2> QED BY <2>2, <2>3, <2>4
<1>6. CASE InjectFails
  <2>1. CASE Over /\ UNCHANGED attached
    BY <1>6, <2>1, <1>o DEF InjectFails, talk
  <2>2. CASE kind = "cef" /\ attached' = TRUE /\ UNCHANGED wires
    BY <1>6, <2>2 DEF InjectFails, talk, wires, GateInv
  <2> QED BY <1>6, <2>1, <2>2 DEF InjectFails
<1>7. CASE ReadClient
  <2> DEFINE f == Head(inbox["client"])
             g == [f EXCEPT !.s = "none"]
  <2>1. /\ f \in Elems(inbox["client"]) /\ f \in Frame
        /\ \A q \in Peer : Elems(inbox'[q]) \subseteq Elems(inbox[q])
    BY <1>7, <1>p, <1>q, <1>r, TailFacts DEF ReadClient, ReadFrom
  <2>2. f.id <= MaxAsked /\ g.id <= MaxAsked /\ g \in Frame
    BY <2>1 DEF GateInv, Frame
  <2> HIDE DEF f, g
  <2>3. /\ <<f>> \in Seq(Frame) /\ Elems(<<f>>) = {f} /\ <<>> \in Seq(Frame)
        /\ <<g>> \in Seq(Frame) /\ Elems(<<g>>) = {g}
        /\ Announcement(f) \o LocalAnswer(f) \in Seq(Frame)
    <3>1. Announcement(f) \in Seq(Frame) /\ LocalAnswer(f) \in Seq(Frame)
      BY <2>1, FramesTyped
    <3>2. Announcement(f) \o LocalAnswer(f) \in Seq(Frame)
      BY <3>1
    <3>3. <<f>> \in Seq(Frame) /\ Elems(<<f>>) = {f} /\ <<g>> \in Seq(Frame) /\ Elems(<<g>>) = {g}
      BY <2>1, <2>2, OneFrame
    <3> QED BY <3>2, <3>3
  <2>4. \A x \in Elems(outgoing'["cef"]) \cup Elems(outgoing'["deno"]) :
          x \in Elems(outgoing["cef"]) \cup Elems(outgoing["deno"]) \cup {f, g}
    <3>1. CASE Route(f) /\ f.s = "deno"
      <4>1. outgoing' = Send(outgoing, "deno", <<g>>)
        BY <3>1 DEF Route, g
      <4>2. \A r \in Peer : Elems(Send(outgoing, "deno", <<g>>)[r]) \subseteq Elems(outgoing[r]) \cup {g}
        BY <1>p, <1>q, <2>3, SendElems
      <4> QED BY <4>1, <4>2, <1>p
    <3>2. CASE Route(f) /\ f.s # "deno"
      <4> DEFINE a == Announcement(f) \o LocalAnswer(f)
                 q == Send(outgoing, "client", a)
                 fs == IF LocalAnswer(f) = <<>> THEN <<f>> ELSE <<>>
      <4>1. outgoing' = Send(q, "cef", fs)
        BY <3>2 DEF Route
      <4>2. q \in [Peer -> Seq(Frame)] /\ q["cef"] = outgoing["cef"] /\ q["deno"] = outgoing["deno"]
        <5>1. a \in Seq(Frame)
          BY <2>3
        <5> HIDE DEF a
        <5>2. "client" \in Peer /\ "cef" \in Peer \ {"client"} /\ "deno" \in Peer \ {"client"}
          BY <1>p
        <5>3. q \in [Peer -> Seq(Frame)]
          BY <1>q, <5>1, <5>2, SendTyped
        <5>4. \A r \in Peer \ {"client"} : q[r] = outgoing[r]
          BY <1>q, <5>1, <5>2, SendTyped
        <5> QED BY <5>2, <5>3, <5>4
      <4>3. fs \in Seq(Frame) /\ Elems(fs) \subseteq {f}
        BY <1>e, <2>3
      <4> HIDE DEF q, fs
      <4>4. \A r \in Peer : Elems(Send(q, "cef", fs)[r]) \subseteq Elems(q[r]) \cup Elems(fs)
        BY <1>p, <4>2, <4>3, SendElems
      <4> QED BY <4>1, <4>2, <4>3, <4>4, <1>p
    <3>3. CASE outgoing' = Send(Send(outgoing, "cef", <<f>>), "deno", <<f>>)
      <4> DEFINE q == Send(outgoing, "cef", <<f>>)
      <4>1. q \in [Peer -> Seq(Frame)]
        BY <1>p, <1>q, <2>3, SendTyped
      <4>2. \A r \in Peer : Elems(q[r]) \subseteq Elems(outgoing[r]) \cup {f}
        BY <1>p, <1>q, <2>3, SendElems
      <4> HIDE DEF q
      <4>3. \A r \in Peer : Elems(Send(q, "deno", <<f>>)[r]) \subseteq Elems(q[r]) \cup {f}
        BY <1>p, <2>3, <4>1, SendElems
      <4>4. outgoing' = Send(q, "deno", <<f>>)
        BY <3>3 DEF q
      <4> QED BY <4>2, <4>3, <4>4, <1>p
    <3>4. CASE outgoing' = Send(outgoing, "cef", <<f>>)
      <4>1. \A r \in Peer : Elems(Send(outgoing, "cef", <<f>>)[r]) \subseteq Elems(outgoing[r]) \cup {f}
        BY <1>p, <1>q, <2>3, SendElems
      <4> QED BY <3>4, <4>1, <1>p
    <3> QED BY <1>7, <3>1, <3>2, <3>3, <3>4 DEF ReadClient, f
  <2> QED BY <1>7, <1>p, <2>1, <2>2, <2>4 DEF ReadClient, GateInv, gate, talk
<1>8. ASSUME NEW u \in Upstream, ReadUpstream(u) PROVE GateInv' /\ attached' = attached
  <2>1. \A q \in Peer : Elems(inbox'[q]) \subseteq Elems(inbox[q])
    BY <1>8, <1>p, <1>r DEF ReadUpstream, ReadFrom
  <2>2. outgoing'["cef"] = outgoing["cef"] /\ outgoing'["deno"] = outgoing["deno"]
    BY <1>8, <1>p, <1>q DEF ReadUpstream, Send
  <2> QED BY <1>8, <1>p, <2>1, <2>2 DEF ReadUpstream, GateInv, gate, talk
<1>9. ASSUME NEW p \in Peer, Write(p) PROVE GateInv' /\ attached' = attached
  <2>1. /\ Head(outgoing[p]) \in Elems(outgoing[p])
        /\ \A r \in Peer : Elems(outgoing'[r]) \subseteq Elems(outgoing[r])
    <3>1. /\ Head(outgoing[p]) \in Elems(outgoing[p]) /\ Elems(Tail(outgoing[p])) \subseteq Elems(outgoing[p])
      BY <1>9, <1>q, TailFacts DEF Write
    <3>2. \E q \in {<<>>, Tail(outgoing[p])} : outgoing' = [outgoing EXCEPT ![p] = q]
      BY <1>9 DEF Write
    <3> QED BY <1>e, <1>q, <3>1, <3>2
  <2>2. \A u \in Upstream : \A g \in todo'[u] : g \in todo[u] \/ (u = p /\ g = Head(outgoing[p]))
    <3>1. CASE conn[p]
      <4>1. Deliver(p, Head(outgoing[p]))
        BY <1>9, <3>1 DEF Write
      <4> QED BY <4>1, DeliverTodo
    <3>2. CASE ~conn[p]
      BY <1>9, <3>2 DEF Write, talk
    <3> QED BY <3>1, <3>2
  <2>3. \A u \in Upstream : \A g \in todo'[u] : g.id = Pause.id => g = Pause
    BY <1>i, <1>p, <2>1, <2>2 DEF GateInv
  <2> QED BY <1>9, <1>p, <2>1, <2>3 DEF Write, GateInv, gate
<1>10. ASSUME NEW p \in Peer, ReadFails(p) PROVE GateInv' /\ attached' = attached
  BY <1>10 DEF ReadFails, GateInv, gate, talk
<1>11. ASSUME NEW p \in Peer, Pump(p) PROVE GateInv' /\ attached' = attached
  <2>1. /\ Head(inbox[p]) \in Elems(inbox[p])
        /\ \A q \in Peer : Elems(inbox'[q]) \subseteq Elems(inbox[q])
    BY <1>11, <1>r DEF Pump, ReadFrom
  <2> DEFINE to == CHOOSE q \in Peers : q # p
  <2>2. to \in Peer /\ (to \in Upstream => p = "client")
    <3>1. Peers = {"client", kind} /\ kind \in Upstream
      BY <1>11 DEF Pump, Proxied, Peers, Upstream
    <3>2. p \in {"client", kind}
      BY <1>11, <3>1 DEF IdleInv, Pump, ReadFrom
    <3>3. kind # "client" /\ to \in {"client", kind} /\ to # p
      BY <3>1, <3>2 DEF Upstream
    <3> QED BY <3>1, <3>2, <3>3, <1>p DEF Upstream
  <2>3. \A u \in Upstream : \A g \in todo'[u] : g \in todo[u] \/ (u = to /\ g = Head(inbox[p]))
    <3>1. CASE conn[to]
      <4>1. Deliver(to, Head(inbox[p]))
        BY <1>11, <3>1 DEF Pump
      <4> QED BY <2>2, <4>1, DeliverTodo
    <3>2. CASE ~conn[to]
      BY <1>11, <3>2 DEF Pump, talk
    <3> QED BY <3>1, <3>2
  <2>4. \A u \in Upstream : \A g \in todo'[u] : g.id = Pause.id => g = Pause
    BY <1>i, <1>p, <2>1, <2>2, <2>3 DEF GateInv
  <2> QED BY <1>11, <1>p, <2>1, <2>4 DEF Pump, GateInv, gate
<1>12. ASSUME NEW m \in Methods, NEW s \in SessionsOf(m), Ask(m, s) PROVE GateInv' /\ attached' = attached
  <2> DEFINE f == F("request", Len(asked) + 1, m, s)
  <2>1. f \in Frame /\ f.id <= MaxAsked
    <3>1. Len(asked) + 1 \in 0..(MaxAsked + 2) /\ Len(asked) + 1 <= MaxAsked
      BY <1>12 DEF Ask, MuxTypeOK
    <3>2. s \in {"none", "deno"}
      BY DEF SessionsOf
    <3> QED BY <3>1, <3>2 DEF F, Frame
  <2>2. Utter("client", f)
    BY <1>12 DEF Ask
  <2> HIDE DEF f
  <2> QED BY <1>12, <1>n, <1>p, <2>1, <2>2 DEF Ask, gate
<1>13. ASSUME NEW u \in Upstream, NEW f \in todo[u], Answer(u, f) PROVE GateInv' /\ attached' = attached
  <2> DEFINE g == F("reply", f.id, f.m, "none")
  <2>1. g \in Frame /\ g.id = f.id /\ f \in Frame
    BY FramesTyped DEF MuxTypeOK, F
  <2>2. Utter(u, g)
    BY <1>13 DEF Answer
  <2>3. f.id = Pause.id => paused'
    BY <1>13 DEF Answer, GateInv
  <2>4. (\A x \in Upstream : todo'[x] \subseteq todo[x]) /\ (paused => paused')
    BY <1>13 DEF Answer, MuxTypeOK
  <2>5. UNCHANGED <<kind, acks, attached, outgoing>>
    BY <1>13 DEF Answer
  <2> HIDE DEF g
  <2> QED BY <1>n, <1>p, <2>1, <2>2, <2>3, <2>4, <2>5
<1>14. ASSUME NEW p \in Peer, MuxEvent(p) PROVE GateInv' /\ attached' = attached
  <2> DEFINE f == IF p = "client" THEN Ping ELSE F("event", 0, "main realm", "none")
  <2>1. f \in Frame /\ f.id = 0
    BY <1>i, FramesTyped DEF F
  <2>2. Utter(p, f)
    BY <1>14 DEF MuxEvent
  <2>3. p \in {"client", "cef", "deno"}
    BY DEF Peer, Upstream
  <2>4. UNCHANGED <<kind, acks, attached, outgoing, paused, todo>>
    BY <1>14 DEF MuxEvent, gate, talk
  <2> HIDE DEF f
  <2> QED BY <1>i, <1>n, <2>1, <2>2, <2>3, <2>4
<1>15. ASSUME NEW p \in Peer, Leave(p) PROVE GateInv' /\ attached' = attached
  <2>1. UNCHANGED <<kind, acks, attached, outgoing, paused, todo>>
    BY <1>15 DEF Leave, gate, talk
  <2>2. CASE inbox' = [inbox EXCEPT ![p] = Append(@, Close)]
    <3>1. Utter(p, Close)
      BY <1>15, <2>2 DEF Leave, Utter
    <3>2. p \in {"client", "cef", "deno"} /\ Close \in Frame
      BY FramesTyped DEF Peer, Upstream
    <3> QED BY <1>i, <1>n, <2>1, <3>1, <3>2
  <2>3. CASE inbox' = inbox
    BY <2>1, <2>3 DEF GateInv
  <2> QED BY <1>15, <1>q, <2>2, <2>3 DEF Leave
<1>16. CASE UNCHANGED muxVars
  BY <1>16 DEF muxVars, gate, wires, talk, GateInv
<1> QED
  BY <1>1, <1>2, <1>3, <1>4, <1>5, <1>6, <1>7, <1>8, <1>9, <1>10, <1>11, <1>12, <1>13, <1>14,
     <1>15, <1>16
  DEF MuxNext, Mux, Environment

(* A session that ends leaves no reader and no writer behind                *)
(* (desktop_devtools.rs:1206-1219, 853-899), so the next one starts on      *)
(* empty channels.                                                          *)
LEMMA IdleKept == MuxTypeOK /\ IdleInv /\ [MuxNext]_muxVars => IdleInv'
<1> SUFFICES ASSUME MuxTypeOK, IdleInv, [MuxNext]_muxVars PROVE IdleInv'
  OBVIOUS
<1> USE DEF MuxTypeOK, IdleInv, Peers
<1>p. "client" \in Peer /\ "cef" \in Peer /\ "deno" \in Peer /\ Upstream \subseteq Peer
  BY DEF Peer, Upstream
<1>1. ASSUME NEW r \in Requests, Upgrade(r) PROVE IdleInv'
  BY <1>1 DEF Upgrade, Peer, Upstream
<1>2. ASSUME NEW r \in Requests, Poll(r) PROVE IdleInv'
  BY <1>2 DEF Poll, wires, talk
<1>3. CASE Connected
  BY <1>3 DEF Connected
<1>4. ASSUME Over PROVE IdleInv'
  BY <1>4 DEF Over
<1>5. CASE ConnectFails \/ Teardown \/ ProxyDone
  BY <1>4, <1>5 DEF ConnectFails, Teardown, ProxyDone
<1>6. CASE InjectRead
  BY <1>6, <1>p DEF InjectRead, talk
<1>7. CASE InjectFails
  BY <1>4, <1>7 DEF InjectFails, wires
<1>8. ASSUME phase = "open", phase' = phase, kind' = kind, \A p \in Peer : reader'[p] => reader[p]
      PROVE  IdleInv'
  BY <1>8
<1>9. CASE ReadClient
  BY <1>8, <1>9 DEF ReadClient, Unified
<1>10. ASSUME NEW u \in Upstream, ReadUpstream(u) PROVE IdleInv'
  BY <1>8, <1>10, <1>p DEF ReadUpstream, ReadFrom, Unified
<1>11. ASSUME NEW p \in Peer, Write(p) \/ ReadFails(p) \/ Pump(p) PROVE IdleInv'
  BY <1>8, <1>11 DEF Write, ReadFails, Pump, ReadFrom, Unified, Proxied
<1>12. ASSUME NEW p \in Peer, NEW f, Utter(p, f), conn' = conn \/ conn' = [conn EXCEPT ![p] = FALSE],
              UNCHANGED <<kind, phase, outgoing, reader, writer, announced, acks, got>>,
              \A u \in Upstream : todo'[u] \subseteq todo[u]
       PROVE  IdleInv'
  <2>0. conn \in [Peer -> BOOLEAN] /\ inbox \in [Peer -> Seq(Frame)]
    OBVIOUS
  <2> HIDE DEF MuxTypeOK, IdleInv
  <2>1. \A u \in Upstream : todo[u] = {} => todo'[u] = {}
    BY <1>12
  <2>2. conn[p] /\ \A q \in Peer \ {p} : inbox'[q] = inbox[q]
    BY <1>12, <2>0 DEF Utter
  <2>3. \A q \in Peer : conn'[q] => conn[q]
    BY <1>12, <2>0
  <2>4. phase \notin {"none", "over"} /\ (phase = "connect" => p \notin Upstream)
    BY <2>2 DEF IdleInv
  <2>5. UNCHANGED <<kind, phase, outgoing, reader, writer, announced, acks, got>>
    BY <1>12
  <2> QED BY <1>p, <2>1, <2>2, <2>3, <2>4, <2>5 DEF IdleInv, Peers
<1>13. ASSUME NEW m \in Methods, NEW s \in SessionsOf(m), Ask(m, s) PROVE IdleInv'
  BY <1>12, <1>13, <1>p DEF Ask
<1>14. ASSUME NEW u \in Upstream, NEW f \in todo[u], Answer(u, f) PROVE IdleInv'
  BY <1>12, <1>14, <1>p DEF Answer
<1>15. ASSUME NEW p \in Peer, MuxEvent(p) PROVE IdleInv'
  BY <1>12, <1>15 DEF MuxEvent, talk
<1>16. ASSUME NEW p \in Peer, Leave(p) PROVE IdleInv'
  BY <1>16 DEF Leave, talk
<1>17. CASE UNCHANGED muxVars
  BY <1>17 DEF muxVars, gate, wires, talk
<1> QED
  BY <1>1, <1>2, <1>3, <1>5, <1>6, <1>7, <1>9, <1>10, <1>11, <1>13, <1>14, <1>15, <1>16, <1>17
  DEF MuxNext, Mux, Environment

(* GateOpensAfterPause: under --inspect-brk the app is let go only once the *)
(* renderer has paused (desktop_devtools.rs:956-1000, 1026-1035), for any   *)
(* number of requests, events and clients.                                  *)
THEOREM GateWaits == MuxSpec => GateOpensAfterPause
<1> DEFINE I == MuxTypeOK /\ IdleInv /\ GateInv
<1>1. MuxInit => I
  BY MuxStarts
<1>2. I /\ [MuxNext]_muxVars => I'
  BY MuxTyped, IdleKept, GateKept
<1>3. I /\ [MuxNext]_muxVars =>
        [attached' # attached /\ brk =>
           \/ paused
           \/ kind' = "deno" /\ phase' = "connect"
           \/ kind = "cef" /\ ~conn["cef"]]_muxVars
  BY GateKept
<1> HIDE DEF I
<1> QED BY <1>1, <1>2, <1>3, PTL DEF MuxSpec, GateOpensAfterPause

(* ---- what the client is told ------------------------------------------------ *)

IsAttached(f) == f.m = "attached"
TellsTargets(f) == f.t = "reply" /\ f.m = "autoAttach" /\ f.s = "none"

OneAttached(q) == \A i, j \in DOMAIN q : IsAttached(q[i]) /\ IsAttached(q[j]) => i = j
InOrder(q) ==
  \A j \in DOMAIN q : TellsTargets(q[j]) => \E i \in DOMAIN q : i < j /\ IsAttached(q[i])
Orderly(q) == Distinct(q) /\ OneAttached(q) /\ InOrder(q)

(* A frame that is added keeps the order if it is not told too early. *)
LEMMA AddOrderly ==
  ASSUME NEW q \in Seq(Frame), Orderly(q), NEW f \in Frame,
         Carries(f) => f.id \notin Ids(q),
         IsAttached(f) => \A g \in Elems(q) : ~IsAttached(g),
         TellsTargets(f) => \E g \in Elems(q) : IsAttached(g)
  PROVE  Orderly(Append(q, f))
<1> DEFINE r == Append(q, f)
<1>1. /\ r \in Seq(Frame) /\ Len(r) = Len(q) + 1
      /\ r[Len(q) + 1] = f /\ \A i \in 1..Len(q) : r[i] = q[i]
  OBVIOUS
<1>2. Distinct(r)
  BY AppendFacts DEF Orderly
<1> HIDE DEF r
<1>3. OneAttached(r)
  BY <1>1, ElemsFacts DEF Orderly, OneAttached
<1>4. InOrder(r)
  <2> SUFFICES ASSUME NEW j \in 1..Len(r), TellsTargets(r[j])
               PROVE  \E i \in 1..Len(r) : i < j /\ IsAttached(r[i])
    BY <1>1 DEF InOrder
  <2>1. CASE j = Len(q) + 1
    <3>1. PICK i \in 1..Len(q) : IsAttached(q[i])
      BY <1>1, <2>1, ElemsFacts
    <3> QED BY <1>1, <2>1, <3>1
  <2>2. CASE j \in 1..Len(q)
    <3>1. PICK i \in 1..Len(q) : i < j /\ IsAttached(q[i])
      BY <1>1, <2>2 DEF Orderly, InOrder
    <3> QED BY <1>1, <2>2, <3>1
  <2> QED BY <1>1, <2>1, <2>2
<1> QED BY <1>2, <1>3, <1>4 DEF Orderly, r

(* What has been told so far is as orderly as what will be. *)
LEMMA PrefixOrderly ==
  ASSUME NEW q \in Seq(Frame), NEW r \in Seq(Frame), Orderly(q \o r)
  PROVE  Orderly(q)
<1> DEFINE s == q \o r
<1>1. /\ s \in Seq(Frame) /\ Len(s) = Len(q) + Len(r) /\ \A i \in 1..Len(q) : s[i] = q[i]
  OBVIOUS
<1> HIDE DEF s
<1>2. Orderly(s)
  BY DEF s
<1>3. Distinct(q)
  BY <1>1, <1>2 DEF Orderly, Distinct
<1>4. OneAttached(q)
  BY <1>1, <1>2 DEF Orderly, OneAttached
<1>5. InOrder(q)
  BY <1>1, <1>2 DEF Orderly, InOrder
<1> QED BY <1>3, <1>4, <1>5 DEF Orderly

(* ---- where a request is ------------------------------------------------------ *)

Told == got \o outgoing["client"]

Place == {"sent", "forCef", "forDeno", "atCef", "atDeno", "fromCef", "fromDeno", "told", "acked"}
At(a) ==
  CASE a = "sent"     -> Ids(inbox["client"])
    [] a = "forCef"   -> Ids(outgoing["cef"])
    [] a = "forDeno"  -> Ids(outgoing["deno"])
    [] a = "atCef"    -> {f.id : f \in todo["cef"]}
    [] a = "atDeno"   -> {f.id : f \in todo["deno"]}
    [] a = "fromCef"  -> Ids(inbox["cef"])
    [] a = "fromDeno" -> Ids(inbox["deno"])
    [] a = "told"     -> Ids(Told)
    [] a = "acked"    -> acks

OnePlace == \A a, b \in Place : a # b => At(a) \cap At(b) = {}

(* A request, or its reply, that is moved from one place to another is in   *)
(* no third one.                                                            *)
LEMMA Moved ==
  ASSUME OnePlace, NEW to \in Place, NEW n, At(to)' \subseteq At(to) \cup {n},
         \A a \in Place \ {to} : At(a)' \subseteq At(a) \ {n}
  PROVE  OnePlace'
<1> SUFFICES ASSUME NEW a \in Place, NEW b \in Place, a # b PROVE At(a)' \cap At(b)' = {}
  BY DEF OnePlace
<1>1. At(a) \cap At(b) = {}
  BY DEF OnePlace
<1> QED BY <1>1

(* Nothing appears anywhere. *)
LEMMA Lost ==
  ASSUME OnePlace, \A a \in Place : At(a)' \subseteq At(a)
  PROVE  OnePlace'
<1> SUFFICES ASSUME NEW a \in Place, NEW b \in Place, a # b PROVE At(a)' \cap At(b)' = {}
  BY DEF OnePlace
<1>1. At(a) \cap At(b) = {}
  BY DEF OnePlace
<1> QED BY <1>1

(* ---- the invariant ------------------------------------------------------------ *)

AskedInv ==
  /\ Len(asked) <= MaxAsked
  /\ \A n \in 1..Len(asked) :
       asked[n].t = "request" /\ asked[n].id = n /\ asked[n].m \in Methods

Mine(f) == f.id \in 1..Len(asked) /\ f = asked[f.id]
OfCef(f) == Mine(f) /\ f.s = "none" /\ LocalAnswer(f) = <<>>
OfDeno(f) ==
  f.id \in 1..Len(asked) /\ asked[f.id].s = "deno" /\ f = [asked[f.id] EXCEPT !.s = "none"]
Answers(f, s) == f.id \in 1..Len(asked) /\ asked[f.id].s = s /\ asked[f.id].m = f.m
Raw(f) ==
  /\ f.s = "none"
  /\ f.t = "reply" \/ (f.t = "event" /\ f.id = 0 /\ f.m = "main realm") \/ f = Close
Final(f) ==
  /\ f.t \in {"reply", "event", "close"} /\ f.m # "main realm"
  /\ f.m \in {"Renderer", "Deno"} => (f.m = "Deno" <=> f.s = "deno")
  /\ f.t = "reply" => Answers(f, f.s)

(* Every frame is what it has to be where it is.                            *)
FrameInv ==
  /\ \A f \in Elems(inbox["client"]) :
       f \in {Ping, Close} \/ (f.t = "request" /\ Mine(f))
  /\ \A f \in Elems(outgoing["cef"]) :
       f.t \in {"request", "ping", "close"} /\ (f.t = "request" => OfCef(f))
  /\ \A f \in Elems(outgoing["deno"]) :
       f.t \in {"request", "close"} /\ (f.t = "request" => OfDeno(f))
  /\ \A f \in todo["cef"] : f \in {Enable, Pause} \/ (f.t = "request" /\ OfCef(f))
  /\ \A f \in todo["deno"] : f.t = "request" /\ OfDeno(f)
  /\ \A f \in Elems(inbox["cef"]) :
       Raw(f) /\ (f.t = "reply" => f.id \in {Enable.id, Pause.id} \/ Answers(f, "none"))
  /\ \A f \in Elems(inbox["deno"]) : Raw(f) /\ (f.t = "reply" => Answers(f, "deno"))
  /\ \A f \in Elems(Told) : Final(f)

DistinctInv ==
  /\ \A p \in Peer : Distinct(inbox[p])
  /\ \A u \in Upstream : Distinct(outgoing[u])
  /\ Orderly(Told)

(* The replies to the mux's own requests are not passed on.                 *)
InjectInv ==
  phase = "open" => \A n \in {Enable.id, Pause.id} : n \notin At("atCef") \cup At("fromCef")

AnnounceInv ==
  /\ ~announced => \A f \in Elems(Told) : ~IsAttached(f)
  /\ announced /\ writer["client"] => \E f \in Elems(Told) : IsAttached(f)
  /\ \A f \in Elems(outgoing["cef"]) \cup todo["cef"] \cup Elems(inbox["cef"]) :
       f.m = "autoAttach" => announced
  /\ announced => \E n \in 1..Len(asked) : asked[n].m = "autoAttach" /\ asked[n].s = "none"

UInv == AskedInv /\ FrameInv /\ OnePlace /\ DistinctInv /\ InjectInv /\ AnnounceInv

Types == MuxTypeOK /\ IdleInv

(* The ids in use are the client's and the two of the mux. *)
LEMMA IdsKnown ==
  ASSUME Types, AskedInv, FrameInv, NEW a \in Place, NEW n \in At(a)
  PROVE  n \in 1..Len(asked) \/ n \in {Enable.id, Pause.id}
<1> DEFINE Known(f) == f.id \in 1..Len(asked) \/ f.id \in {Enable.id, Pause.id}
<1>1. \A f \in Elems(inbox["client"]) : Carries(f) => Known(f)
  BY DEF FrameInv, Carries, Mine, Ping, Close, F
<1>2. \A f \in Elems(outgoing["cef"]) \cup Elems(outgoing["deno"]) : Carries(f) => Known(f)
  BY DEF FrameInv, Carries, OfCef, OfDeno, Mine
<1>4. \A f \in todo["cef"] \cup todo["deno"] : Known(f)
  BY DEF FrameInv, OfCef, OfDeno, Mine
<1>5. \A f \in Elems(inbox["cef"]) \cup Elems(inbox["deno"]) : Carries(f) => Known(f)
  <2>1. Close.t = "close"
    BY DEF Close, F
  <2> QED BY <2>1 DEF FrameInv, Carries, Raw, Answers
<1>6. \A f \in Elems(Told) : Carries(f) => Known(f)
  BY DEF FrameInv, Carries, Final, Answers
<1>3. acks \subseteq {Enable.id, Pause.id}
  BY DEF Types, MuxTypeOK
<1> HIDE DEF Known
<1>7. Known([id |-> n])
  BY <1>1, <1>2, <1>3, <1>4, <1>5, <1>6 DEF At, Place, Ids, Known
<1> QED BY <1>7 DEF Known

(* The invariant says what both properties say of the client, and of the    *)
(* isolates more: it follows every frame before it arrives.                 *)
LEMMA RoutedFromInv ==
  ASSUME Types, UInv
  PROVE  RoutedBySession /\ AnnouncedInTime
<1> USE DEF UInv
<1>1. got \in Seq(Frame) /\ outgoing["client"] \in Seq(Frame) /\ asked \in Seq(Frame)
  BY DEF Types, MuxTypeOK, Peer
<1>2. Orderly(got) /\ Elems(got) \subseteq Elems(Told)
  BY <1>1, PrefixOrderly, ConcatFacts DEF DistinctInv, Told
<1>3. \A i \in DOMAIN got : got[i] \in Elems(Told) /\ Final(got[i])
  BY <1>1, <1>2, ElemsFacts DEF FrameInv
<1>4. \A f \in todo["deno"] : f.s = "none" /\ asked[f.id].s = "deno"
  <2>1. \A n \in 1..Len(asked) : asked[n] \in Frame
    BY <1>1
  <2> SUFFICES ASSUME NEW f \in todo["deno"] PROVE f.s = "none" /\ asked[f.id].s = "deno"
    OBVIOUS
  <2>2. f.id \in 1..Len(asked) /\ asked[f.id].s = "deno" /\ f = [asked[f.id] EXCEPT !.s = "none"]
    BY DEF FrameInv, OfDeno
  <2>3. asked[f.id] \in Frame
    BY <2>1, <2>2
  <2> QED BY <2>2, <2>3 DEF Frame
<1>5. \A f \in todo["cef"] \ {Enable, Pause} :
         f = asked[f.id] /\ f.s = "none" /\ LocalAnswer(f) = <<>>
  BY DEF FrameInv, OfCef, Mine
<1>6. \A i \in DOMAIN got : got[i].t = "reply" =>
         /\ got[i].id \in DOMAIN asked /\ got[i].s = asked[got[i].id].s
         /\ \A j \in DOMAIN got : got[j].t = "reply" /\ got[j].id = got[i].id => i = j
  <2> SUFFICES ASSUME NEW i \in DOMAIN got, got[i].t = "reply"
               PROVE  /\ got[i].id \in DOMAIN asked /\ got[i].s = asked[got[i].id].s
                      /\ \A j \in DOMAIN got : got[j].t = "reply" /\ got[j].id = got[i].id => i = j
    OBVIOUS
  <2>1. Answers(got[i], got[i].s)
    BY <1>3 DEF Final
  <2>2. got[i].id \in DOMAIN asked /\ got[i].s = asked[got[i].id].s
    BY <1>1, <2>1 DEF Answers
  <2>3. \A j \in DOMAIN got : got[j].t = "reply" /\ got[j].id = got[i].id => i = j
    BY <1>2 DEF Orderly, Distinct, Carries
  <2> QED BY <2>2, <2>3
<1>7. /\ \A i \in DOMAIN got : got[i].m \in {"Renderer", "Deno"} =>
           (got[i].m = "Deno" <=> got[i].s = "deno")
      /\ ~\E i \in DOMAIN got : got[i].m = "main realm"
  BY <1>3 DEF Final
<1>8. AnnouncedInTime
  <2> DEFINE at == {i \in DOMAIN got : got[i].m = "attached"}
  <2>1. \A i, j \in at : i = j
    BY <1>2 DEF Orderly, OneAttached, IsAttached
  <2>2. at # {} => \E n \in DOMAIN asked : asked[n].m = "autoAttach" /\ asked[n].s = "none"
    <3>1. at # {} => announced
      BY <1>3 DEF AnnounceInv, IsAttached, Types, MuxTypeOK
    <3> QED BY <1>1, <3>1 DEF AnnounceInv
  <2>3. \A j \in DOMAIN got :
         got[j].t = "reply" /\ got[j].m = "autoAttach" /\ got[j].s = "none" =>
           \E i \in at : i < j
    BY <1>2 DEF Orderly, InOrder, TellsTargets, IsAttached
  <2> QED BY <2>1, <2>2, <2>3 DEF AnnouncedInTime
<1> QED BY <1>4, <1>5, <1>6, <1>7, <1>8 DEF RoutedBySession

(* ---- steps on channels -------------------------------------------------------- *)

(* The first frame of a peer is read (desktop_devtools.rs:1090-1098,        *)
(* 1141-1150).                                                              *)
LEMMA ReadOff ==
  ASSUME MuxTypeOK, NEW p \in Peer, inbox[p] # <<>>, inbox' = [inbox EXCEPT ![p] = Tail(@)],
         \A q \in Peer : Distinct(inbox[q])
  PROVE  /\ Head(inbox[p]) \in Frame /\ Head(inbox[p]) \in Elems(inbox[p])
         /\ \A q \in Peer : /\ Elems(inbox'[q]) \subseteq Elems(inbox[q]) /\ Distinct(inbox'[q])
                            /\ Ids(inbox'[q]) \subseteq Ids(inbox[q])
         /\ \A q \in Peer \ {p} : inbox'[q] = inbox[q]
         /\ Carries(Head(inbox[p])) =>
              Head(inbox[p]).id \in Ids(inbox[p]) /\ Head(inbox[p]).id \notin Ids(inbox'[p])
<1>1. /\ inbox \in [Peer -> Seq(Frame)] /\ inbox'[p] = Tail(inbox[p])
      /\ \A q \in Peer \ {p} : inbox'[q] = inbox[q]
  BY DEF MuxTypeOK
<1> DEFINE i == inbox[p]
<1>2. i \in Seq(Frame) /\ i # <<>>
  BY <1>1
<1> HIDE DEF i
<1>3. /\ Head(i) \in Frame /\ Head(i) \in Elems(i) /\ Elems(Tail(i)) \subseteq Elems(i)
      /\ Distinct(i) => Distinct(Tail(i))
      /\ Distinct(i) /\ Carries(Head(i)) => Head(i).id \notin Ids(Tail(i))
  BY <1>2, TailFacts
<1>4. Ids(Tail(i)) \subseteq Ids(i) /\ (Carries(Head(i)) => Head(i).id \in Ids(i))
  BY <1>3 DEF Ids
<1>5. /\ Head(inbox[p]) \in Frame /\ Head(inbox[p]) \in Elems(inbox[p])
      /\ Elems(inbox'[p]) \subseteq Elems(inbox[p]) /\ Distinct(inbox'[p])
      /\ Ids(inbox'[p]) \subseteq Ids(inbox[p])
      /\ Carries(Head(inbox[p])) =>
              Head(inbox[p]).id \in Ids(inbox[p]) /\ Head(inbox[p]).id \notin Ids(inbox'[p])
  BY <1>1, <1>3, <1>4 DEF i
<1> QED BY <1>1, <1>5

(* A peer says something. *)
LEMMA Uttered ==
  ASSUME MuxTypeOK, NEW p \in Peer, NEW f \in Frame, inbox' = [inbox EXCEPT ![p] = Append(@, f)],
         \A q \in Peer : Distinct(inbox[q]), Carries(f) => f.id \notin Ids(inbox[p])
  PROVE  /\ Elems(inbox'[p]) = Elems(inbox[p]) \cup {f}
         /\ Ids(inbox'[p]) = Ids(inbox[p]) \cup (IF Carries(f) THEN {f.id} ELSE {})
         /\ \A q \in Peer : Distinct(inbox'[q])
         /\ \A q \in Peer \ {p} : inbox'[q] = inbox[q]
<1>1. /\ inbox[p] \in Seq(Frame) /\ inbox'[p] = Append(inbox[p], f)
      /\ \A q \in Peer \ {p} : inbox'[q] = inbox[q]
  BY DEF MuxTypeOK
<1> QED BY <1>1, AppendFacts

(* One frame is sent. *)
LEMMA SendOne ==
  ASSUME NEW q \in [Peer -> Seq(Frame)], NEW p \in Peer, NEW f \in Frame
  PROVE  /\ Send(q, p, <<f>>) \in [Peer -> Seq(Frame)]
         /\ Send(q, p, <<f>>)[p] = IF writer[p] THEN Append(q[p], f) ELSE q[p]
         /\ \A r \in Peer \ {p} : Send(q, p, <<f>>)[r] = q[r]
         /\ Elems(Send(q, p, <<f>>)[p]) \subseteq Elems(q[p]) \cup {f}
         /\ Ids(Send(q, p, <<f>>)[p]) \subseteq Ids(q[p]) \cup (IF Carries(f) THEN {f.id} ELSE {})
         /\ Distinct(q[p]) /\ (Carries(f) => f.id \notin Ids(q[p])) => Distinct(Send(q, p, <<f>>)[p])
<1>1. <<f>> \in Seq(Frame)
  OBVIOUS
<1>2. /\ Send(q, p, <<f>>) \in [Peer -> Seq(Frame)]
      /\ \A r \in Peer \ {p} : Send(q, p, <<f>>)[r] = q[r]
  BY <1>1, SendTyped
<1>3. Send(q, p, <<f>>)[p] = IF writer[p] THEN q[p] \o <<f>> ELSE q[p]
  BY <1>1, SendTyped
<1>4. q[p] \o <<f>> = Append(q[p], f)
  OBVIOUS
<1>5. /\ Elems(Append(q[p], f)) = Elems(q[p]) \cup {f}
      /\ Ids(Append(q[p], f)) = Ids(q[p]) \cup (IF Carries(f) THEN {f.id} ELSE {})
      /\ Distinct(q[p]) /\ (Carries(f) => f.id \notin Ids(q[p])) => Distinct(Append(q[p], f))
  BY AppendFacts
<1> QED BY <1>2, <1>3, <1>4, <1>5

(* Nothing is sent. *)
LEMMA SendNone ==
  ASSUME NEW q \in [Peer -> Seq(Frame)], NEW p \in Peer
  PROVE  Send(q, p, <<>>) = q
<1>1. q[p] \o <<>> = q[p]
  OBVIOUS
<1> QED BY <1>1 DEF Send

(* What a place holds depends on its channel alone. *)
LEMMA SamePlaces ==
  /\ inbox'["client"] = inbox["client"] => At("sent")' = At("sent")
  /\ outgoing'["cef"] = outgoing["cef"] => At("forCef")' = At("forCef")
  /\ outgoing'["deno"] = outgoing["deno"] => At("forDeno")' = At("forDeno")
  /\ todo'["cef"] = todo["cef"] => At("atCef")' = At("atCef")
  /\ todo'["deno"] = todo["deno"] => At("atDeno")' = At("atDeno")
  /\ inbox'["cef"] = inbox["cef"] => At("fromCef")' = At("fromCef")
  /\ inbox'["deno"] = inbox["deno"] => At("fromDeno")' = At("fromDeno")
  /\ Told' = Told => At("told")' = At("told")
  /\ acks' = acks => At("acked")' = At("acked")
<1> USE DEF At
<1>1. inbox'["client"] = inbox["client"] => At("sent")' = At("sent")
  OBVIOUS
<1>2. outgoing'["cef"] = outgoing["cef"] => At("forCef")' = At("forCef")
  OBVIOUS
<1>3. outgoing'["deno"] = outgoing["deno"] => At("forDeno")' = At("forDeno")
  OBVIOUS
<1>4. todo'["cef"] = todo["cef"] => At("atCef")' = At("atCef")
  OBVIOUS
<1>5. todo'["deno"] = todo["deno"] => At("atDeno")' = At("atDeno")
  OBVIOUS
<1>6. inbox'["cef"] = inbox["cef"] => At("fromCef")' = At("fromCef")
  OBVIOUS
<1>7. inbox'["deno"] = inbox["deno"] => At("fromDeno")' = At("fromDeno")
  OBVIOUS
<1>8. Told' = Told => At("told")' = At("told")
  OBVIOUS
<1>9. acks' = acks => At("acked")' = At("acked")
  OBVIOUS
<1> QED BY <1>1, <1>2, <1>3, <1>4, <1>5, <1>6, <1>7, <1>8, <1>9

(* What is told depends on two channels. *)
LEMMA ToldFacts ==
  ASSUME MuxTypeOK
  PROVE  /\ Told \in Seq(Frame) /\ got \in Seq(Frame)
         /\ Elems(Told) = Elems(got) \cup Elems(outgoing["client"])
         /\ Ids(Told) = Ids(got) \cup Ids(outgoing["client"])
<1>1. got \in Seq(Frame) /\ outgoing["client"] \in Seq(Frame)
  BY DEF MuxTypeOK, Peer
<1> QED BY <1>1, ConcatFacts DEF Told

(* What a frame has to be depends on the requests alone. *)
LEMMA FrameNext ==
  ASSUME \A f : OfCef(f) => OfCef(f)', \A f : OfDeno(f) => OfDeno(f)',
         \A f : Final(f) => Final(f)', \A f : \A s : Answers(f, s) => Answers(f, s)',
         \A f \in Elems(inbox'["client"]) : f \in {Ping, Close} \/ (f.t = "request" /\ Mine(f)'),
         \A f \in Elems(outgoing'["cef"]) :
           f.t \in {"request", "ping", "close"} /\ (f.t = "request" => OfCef(f)),
         \A f \in Elems(outgoing'["deno"]) :
           f.t \in {"request", "close"} /\ (f.t = "request" => OfDeno(f)),
         \A f \in todo'["cef"] : f \in {Enable, Pause} \/ (f.t = "request" /\ OfCef(f)),
         \A f \in todo'["deno"] : f.t = "request" /\ OfDeno(f),
         \A f \in Elems(inbox'["cef"]) :
           Raw(f) /\ (f.t = "reply" => f.id \in {Enable.id, Pause.id} \/ Answers(f, "none")),
         \A f \in Elems(inbox'["deno"]) : Raw(f) /\ (f.t = "reply" => Answers(f, "deno")),
         \A f \in Elems(Told') : Final(f)
  PROVE  FrameInv'
<1>1. \A f \in Elems(outgoing'["cef"]) :
       f.t \in {"request", "ping", "close"} /\ (f.t = "request" => OfCef(f)')
  OBVIOUS
<1>2. \A f \in Elems(outgoing'["deno"]) :
       f.t \in {"request", "close"} /\ (f.t = "request" => OfDeno(f)')
  OBVIOUS
<1>3. /\ \A f \in todo'["cef"] : f \in {Enable, Pause} \/ (f.t = "request" /\ OfCef(f)')
      /\ \A f \in todo'["deno"] : f.t = "request" /\ OfDeno(f)'
  OBVIOUS
<1>4. \A f \in Elems(inbox'["cef"]) :
       Raw(f) /\ (f.t = "reply" => f.id \in {Enable.id, Pause.id} \/ Answers(f, "none")')
  OBVIOUS
<1>5. \A f \in Elems(inbox'["deno"]) : Raw(f) /\ (f.t = "reply" => Answers(f, "deno")')
  OBVIOUS
<1>6. \A f \in Elems(Told') : Final(f)'
  OBVIOUS
<1> QED BY <1>1, <1>2, <1>3, <1>4, <1>5, <1>6 DEF FrameInv

(* No request is added. *)
LEMMA AskedKept ==
  ASSUME asked' = asked
  PROVE  /\ \A f : Mine(f) => Mine(f)'
         /\ \A f : OfCef(f) => OfCef(f)'
         /\ \A f : OfDeno(f) => OfDeno(f)'
         /\ \A f : Final(f) => Final(f)'
         /\ \A f : \A s : Answers(f, s) => Answers(f, s)'
         /\ AskedInv => AskedInv'
  BY DEF Mine, OfCef, OfDeno, Answers, Final, AskedInv

(* Nothing is said. *)
LEMMA FrameKept ==
  ASSUME FrameInv, asked' = asked,
         Elems(inbox'["client"]) \subseteq Elems(inbox["client"]),
         Elems(inbox'["cef"]) \subseteq Elems(inbox["cef"]),
         Elems(inbox'["deno"]) \subseteq Elems(inbox["deno"]),
         Elems(outgoing'["cef"]) \subseteq Elems(outgoing["cef"]),
         Elems(outgoing'["deno"]) \subseteq Elems(outgoing["deno"]),
         \A f \in todo'["cef"] : f \in {Enable, Pause} \/ (f.t = "request" /\ OfCef(f)),
         \A f \in todo'["deno"] : f.t = "request" /\ OfDeno(f),
         \A f \in Elems(Told') : Final(f)
  PROVE  FrameInv'
<1>1. \A f \in Elems(inbox'["client"]) : f \in {Ping, Close} \/ (f.t = "request" /\ Mine(f)')
  BY AskedKept DEF FrameInv
<1>2. \A f \in Elems(outgoing'["cef"]) :
       f.t \in {"request", "ping", "close"} /\ (f.t = "request" => OfCef(f))
  BY DEF FrameInv
<1>3. \A f \in Elems(outgoing'["deno"]) :
       f.t \in {"request", "close"} /\ (f.t = "request" => OfDeno(f))
  BY DEF FrameInv
<1>4. \A f \in Elems(inbox'["cef"]) :
       Raw(f) /\ (f.t = "reply" => f.id \in {Enable.id, Pause.id} \/ Answers(f, "none"))
  BY DEF FrameInv
<1>5. \A f \in Elems(inbox'["deno"]) : Raw(f) /\ (f.t = "reply" => Answers(f, "deno"))
  BY DEF FrameInv
<1> QED BY <1>1, <1>2, <1>3, <1>4, <1>5, AskedKept, FrameNext

(* ---- a session begins and ends ------------------------------------------------ *)

(* A client connects (desktop_devtools.rs:626-692).                         *)
LEMMA UpgradeRoutes ==
  ASSUME Types, Types', NEW r \in Requests, Upgrade(r)
  PROVE  UInv'
<1> USE DEF Types
<1>p. "client" \in Peer /\ "cef" \in Peer /\ "deno" \in Peer /\ Peer = {"client", "cef", "deno"}
      /\ Upstream = {"cef", "deno"}
  BY DEF Peer, Upstream
<1>0. Elems(<<>>) = {} /\ Ids(<<>>) = {} /\ Orderly(<<>>) /\ Distinct(<<>>)
  BY DEF Elems, Ids, Orderly, Distinct, OneAttached, InOrder
<1>1. /\ \A p \in Peer : inbox'[p] = <<>> /\ outgoing'[p] = <<>>
      /\ got' = <<>> /\ asked' = <<>> /\ acks' = {} /\ ~announced'
      /\ \A u \in Upstream : todo'[u] = {}
      /\ phase' = "connect"
  BY <1>p DEF Upgrade, IdleInv
<1>2. Told' = <<>>
  BY <1>1, <1>p DEF Told
<1>3. \A a \in Place : At(a)' = {}
  BY <1>0, <1>1, <1>2, <1>p DEF At, Place
<1>4. OnePlace'
  BY <1>3 DEF OnePlace
<1>5. AskedInv'
  BY <1>1, MuxAssumption DEF AskedInv
<1>6. FrameInv'
  BY <1>0, <1>1, <1>2, <1>p DEF FrameInv
<1>7. DistinctInv'
  BY <1>0, <1>1, <1>2, <1>p DEF DistinctInv
<1>8. InjectInv' /\ AnnounceInv'
  BY <1>0, <1>1, <1>2, <1>p DEF InjectInv, AnnounceInv
<1> QED BY <1>4, <1>5, <1>6, <1>7, <1>8 DEF UInv

(* The isolates are connected, and the renderer is asked to pause           *)
(* (desktop_devtools.rs:699-729, 960-1000).                                 *)
LEMMA ConnectRoutes ==
  ASSUME Types, Types', UInv, kind = "unified", Connected
  PROVE  UInv'
<1> USE DEF Types
<1>p. "client" \in Peer /\ "cef" \in Peer /\ "deno" \in Peer /\ Peer = {"client", "cef", "deno"}
      /\ Upstream = {"cef", "deno"}
  BY DEF Peer, Upstream
<1>0. Elems(<<>>) = {} /\ Ids(<<>>) = {}
  BY DEF Elems, Ids
<1>1. /\ \A p \in Peer : outgoing'[p] = <<>> /\ outgoing[p] = <<>>
      /\ UNCHANGED <<inbox, outgoing, asked, got, acks, announced>>
      /\ inbox'["cef"] = <<>> /\ inbox'["deno"] = <<>> /\ acks = {}
      /\ got = <<>> /\ ~announced /\ Told' = Told
  BY <1>p DEF Connected, IdleInv, Told
<1>2. todo'["deno"] = {} /\ todo'["cef"] = IF Injects THEN {Enable, Pause} ELSE {}
  BY <1>p DEF Connected, IdleInv, MuxTypeOK
<1>3. phase' = "open" => todo'["cef"] = {}
  BY <1>2 DEF Connected
<1>i. Pause.id = MaxAsked + 2 /\ Enable.id = MaxAsked + 1
      /\ Pause.m # "autoAttach" /\ Enable.m # "autoAttach"
  BY DEF Pause, Enable, F
<1>t. Told' = <<>>
  <2>1. got' = <<>> /\ outgoing'["client"] = <<>>
    BY <1>1, <1>p
  <2> QED BY <2>1 DEF Told
<1>4. OnePlace'
  <2>1. /\ At("sent")' \subseteq 1..Len(asked) /\ At("atCef")' \subseteq {Enable.id, Pause.id}
        /\ \A a \in Place \ {"sent", "atCef"} : At(a)' = {}
    <3>1. At("sent")' \subseteq 1..Len(asked)
      BY <1>1, SamePlaces DEF At, Ids, UInv, FrameInv, Carries, Mine, Ping, Close, F
    <3>2. At("atCef")' \subseteq {Enable.id, Pause.id}
      BY <1>2 DEF At
    <3>3. \A a \in Place \ {"sent", "atCef"} : At(a)' = {}
      BY <1>0, <1>1, <1>2, <1>t, <1>p DEF At, Place
    <3> QED BY <3>1, <3>2, <3>3
  <2>2. \A n \in 1..Len(asked) : n \notin {Enable.id, Pause.id}
    BY <1>i, MuxAssumption DEF UInv, AskedInv, MuxTypeOK
  <2> SUFFICES ASSUME NEW a \in Place, NEW b \in Place, a # b PROVE At(a)' \cap At(b)' = {}
    BY DEF OnePlace
  <2> QED BY <2>1, <2>2
<1>5. AskedInv'
  BY <1>1 DEF AskedInv, UInv
<1>6. FrameInv'
  BY <1>0, <1>1, <1>2, <1>t, <1>p DEF FrameInv, UInv, Mine
<1>7. DistinctInv'
  BY <1>1, <1>p DEF DistinctInv, UInv
<1>8. InjectInv'
  BY <1>0, <1>1, <1>3 DEF InjectInv, At
<1>9. AnnounceInv'
  BY <1>0, <1>1, <1>2, <1>i, <1>t, <1>p DEF AnnounceInv
<1> QED BY <1>4, <1>5, <1>6, <1>7, <1>8, <1>9 DEF UInv

(* The session ends, and what has been told stays                           *)
(* (desktop_devtools.rs:1206-1219).                                         *)
LEMMA OverRoutes ==
  ASSUME Types, Types', UInv, Over, UNCHANGED <<announced, acks, talk>>
  PROVE  UInv'
<1> USE DEF Types
<1>p. "client" \in Peer /\ "cef" \in Peer /\ "deno" \in Peer /\ Peer = {"client", "cef", "deno"}
      /\ Upstream = {"cef", "deno"}
  BY DEF Peer, Upstream
<1>0. Elems(<<>>) = {} /\ Ids(<<>>) = {} /\ Distinct(<<>>)
  BY DEF Elems, Ids, Distinct
<1>1. /\ \A p \in Peer : outgoing'[p] = <<>> /\ inbox'[p] = <<>> /\ ~writer'[p]
      /\ UNCHANGED <<asked, got, todo, acks, announced>> /\ phase' = "over"
  BY DEF Over, talk
<1>2. Told' = got
  <2>1. got \in Seq(Frame) /\ got' = got /\ outgoing'["client"] = <<>>
    BY <1>1, <1>p DEF MuxTypeOK
  <2> QED BY <2>1 DEF Told
<1>3. Elems(got) \subseteq Elems(Told) /\ Ids(got) \subseteq Ids(Told)
  BY ToldFacts
<1>4. Orderly(got)
  BY <1>p, PrefixOrderly DEF MuxTypeOK, UInv, DistinctInv, Told
<1>5. OnePlace'
  <2>1. \A a \in Place : At(a)' \subseteq At(a)
    BY <1>0, <1>1, <1>2, <1>3, <1>p DEF At, Place
  <2> QED BY <2>1, Lost DEF UInv
<1>6. AskedInv' /\ InjectInv'
  BY <1>1 DEF AskedInv, UInv, InjectInv
<1>7. FrameInv'
  <2>1. FrameInv /\ \A f \in Elems(Told') : Final(f)
    BY <1>2, <1>3 DEF FrameInv, UInv
  <2> QED BY <1>0, <1>1, <1>p, <2>1, FrameKept DEF FrameInv
<1>8. DistinctInv'
  BY <1>0, <1>1, <1>2, <1>4, <1>p DEF DistinctInv
<1>9. AnnounceInv'
  BY <1>0, <1>1, <1>2, <1>3, <1>p DEF AnnounceInv, UInv
<1> QED BY <1>5, <1>6, <1>7, <1>8, <1>9 DEF UInv

(* A reply to the mux's own request is swallowed                            *)
(* (desktop_devtools.rs:978-1000).                                          *)
LEMMA InjectRoutes ==
  ASSUME Types, Types', UInv, InjectRead
  PROVE  UInv'
<1> USE DEF Types
<1>p. "client" \in Peer /\ "cef" \in Peer /\ "deno" \in Peer /\ Peer = {"client", "cef", "deno"}
      /\ Upstream = {"cef", "deno"}
  BY DEF Peer, Upstream
<1> DEFINE f == Head(inbox["cef"])
<1>1. /\ f \in Elems(inbox["cef"])
      /\ \A q \in Peer : /\ Elems(inbox'[q]) \subseteq Elems(inbox[q]) /\ Distinct(inbox'[q])
                         /\ Ids(inbox'[q]) \subseteq Ids(inbox[q])
      /\ \A q \in Peer \ {"cef"} : inbox'[q] = inbox[q]
      /\ Carries(f) => f.id \notin Ids(inbox'["cef"])
  BY <1>p, ReadOff DEF InjectRead, UInv, DistinctInv
<1>2. /\ UNCHANGED <<asked, got, todo, outgoing, writer, announced>> /\ Told' = Told
      /\ acks' = acks \cup ({f.id} \cap {Enable.id, Pause.id})
      /\ phase' = "open" => acks' = {Enable.id, Pause.id}
  <2>1. phase' = (IF acks' = {Enable.id, Pause.id} THEN "open" ELSE phase) /\ phase = "inject"
    BY DEF InjectRead
  <2> QED BY <2>1 DEF InjectRead, talk, Told
<1> HIDE DEF f
<1>i. Pause.id # 0 /\ Enable.id # 0 /\ Close.id = 0
  BY MuxAssumption DEF Pause, Enable, Close, F
<1>3. OnePlace'
  <2>1. /\ \A a \in Place \ {"fromCef", "acked"} : At(a)' = At(a)
        /\ At("fromCef")' \subseteq At("fromCef")
    <3>1. At("fromCef")' \subseteq At("fromCef")
      BY <1>1, <1>p DEF At
    <3> QED BY <1>1, <1>2, <1>p, <3>1, SamePlaces DEF Place
  <2>2. At("acked")' = acks' /\ At("acked") = acks
    BY DEF At
  <2>3. CASE f.id \in {Enable.id, Pause.id}
    <3>1. Carries(f)
      BY <1>1, <1>i, <2>3 DEF UInv, FrameInv, Raw, Carries
    <3>2. f.id \in At("fromCef") /\ f.id \notin At("fromCef")'
      BY <1>1, <3>1 DEF At, Ids
    <3>3. \A a \in Place \ {"acked"} : At(a)' \subseteq At(a) \ {f.id}
      <4> SUFFICES ASSUME NEW a \in Place \ {"acked"} PROVE At(a)' \subseteq At(a) \ {f.id}
        OBVIOUS
      <4>1. CASE a = "fromCef"
        BY <2>1, <3>2, <4>1
      <4>2. CASE a # "fromCef"
        <5>1. At(a) \cap At("fromCef") = {}
          BY <4>2 DEF UInv, OnePlace, Place
        <5> QED BY <2>1, <3>2, <4>2, <5>1
      <4> QED BY <4>1, <4>2
    <3>4. At("acked")' \subseteq At("acked") \cup {f.id} /\ "acked" \in Place
      BY <1>2, <2>2 DEF Place
    <3> QED BY <3>3, <3>4, Moved DEF UInv
  <2>4. CASE f.id \notin {Enable.id, Pause.id}
    <3>1. acks' = acks
      BY <1>2, <2>4
    <3>2. \A a \in Place : At(a)' \subseteq At(a)
      BY <2>1, <2>2, <3>1
    <3> QED BY <3>2, Lost DEF UInv
  <2> QED BY <2>3, <2>4
<1>4. AskedInv'
  BY <1>2 DEF AskedInv, UInv
<1>5. FrameInv'
  <2>1. FrameInv
    BY DEF UInv
  <2> QED BY <1>1, <1>2, <1>p, <2>1, FrameKept DEF FrameInv
<1>6. DistinctInv'
  BY <1>1, <1>2, <1>p DEF DistinctInv, UInv
<1>7. InjectInv'
  <2>1. phase' = "open" => At("acked")' = {Enable.id, Pause.id}
    BY <1>2 DEF At
  <2>2. At("acked")' \cap At("atCef")' = {} /\ At("acked")' \cap At("fromCef")' = {}
    BY <1>3 DEF OnePlace, Place
  <2> QED BY <2>1, <2>2 DEF InjectInv
<1>8. AnnounceInv'
  BY <1>1, <1>2, <1>p DEF AnnounceInv, UInv
<1> QED BY <1>3, <1>4, <1>5, <1>6, <1>7, <1>8 DEF UInv

(* ---- a session under way ------------------------------------------------------- *)

(* A frame that leaves one place for another is in no third one. *)
LEMMA LeavesOthers ==
  ASSUME OnePlace, NEW from \in Place, NEW n \in At(from)
  PROVE  \A a \in Place \ {from} : n \notin At(a)
<1> SUFFICES ASSUME NEW a \in Place \ {from} PROVE n \notin At(a)
  OBVIOUS
<1>1. a # from /\ At(a) \cap At(from) = {}
  BY DEF OnePlace
<1> QED BY <1>1

(* Appending is adding a channel of one frame. *)
LEMMA AppendIs ==
  ASSUME NEW q \in Seq(Frame), NEW f \in Frame
  PROVE  Append(q, f) = q \o <<f>>
  OBVIOUS

(* What Told becomes when one frame is sent to the client. *)
LEMMA TellOne ==
  ASSUME MuxTypeOK, NEW f \in Frame, NEW q \in [Peer -> Seq(Frame)], q["client"] = outgoing["client"]
  PROVE  got \o Send(q, "client", <<f>>)["client"] = IF writer["client"] THEN Append(Told, f) ELSE Told
<1>1. "client" \in Peer /\ got \in Seq(Frame) /\ outgoing["client"] \in Seq(Frame) /\ <<f>> \in Seq(Frame)
  BY DEF MuxTypeOK, Peer
<1>2. Send(q, "client", <<f>>)["client"] = IF writer["client"] THEN Append(outgoing["client"], f) ELSE outgoing["client"]
  BY <1>1, SendOne
<1>3. got \o Append(outgoing["client"], f) = Append(Told, f)
  <2>1. Append(outgoing["client"], f) = outgoing["client"] \o <<f>> /\ Append(Told, f) = Told \o <<f>>
    BY <1>1, AppendIs, ToldFacts
  <2>2. got \o (outgoing["client"] \o <<f>>) = Told \o <<f>>
    BY <1>1, AddBehind DEF Told
  <2> QED BY <2>1, <2>2
<1> QED BY <1>2, <1>3 DEF Told

(* A frame of an isolate is rewritten and handed to the client              *)
(* (desktop_devtools.rs:1141-1199, 1332-1359).                              *)
LEMMA UpstreamRoutes ==
  ASSUME Types, Types', UInv, NEW u \in Upstream, ReadUpstream(u)
  PROVE  UInv'
<1> USE DEF Types
<1>p. "client" \in Peer /\ "cef" \in Peer /\ "deno" \in Peer /\ Peer = {"client", "cef", "deno"}
      /\ Upstream = {"cef", "deno"} /\ u \in Peer /\ u # "client"
  BY DEF Peer, Upstream
<1> DEFINE f == Head(inbox[u])
           x == FromUpstream(u, f)
           from == IF u = "cef" THEN "fromCef" ELSE "fromDeno"
<1>1. /\ f \in Frame /\ f \in Elems(inbox[u])
      /\ \A q \in Peer : /\ Elems(inbox'[q]) \subseteq Elems(inbox[q]) /\ Distinct(inbox'[q])
                         /\ Ids(inbox'[q]) \subseteq Ids(inbox[q])
      /\ \A q \in Peer \ {u} : inbox'[q] = inbox[q]
      /\ Carries(f) => f.id \in Ids(inbox[u]) /\ f.id \notin Ids(inbox'[u])
  BY <1>p, ReadOff DEF ReadUpstream, ReadFrom, UInv, DistinctInv
<1>2. /\ UNCHANGED <<asked, got, todo, writer, announced, acks, phase>> /\ phase = "open"
      /\ outgoing' = Send(outgoing, "client", <<x>>)
  BY DEF ReadUpstream, talk, Unified
<1>3. x \in Frame /\ x.id = f.id /\ x.t = f.t
  <2>1. x \in Frame
    BY <1>1, FramesTyped
  <2>2. CASE f.t \notin {"reply", "event"}
    BY <2>1, <2>2 DEF FromUpstream
  <2>3. CASE f.t \in {"reply", "event"}
    <3> DEFINE s == IF u = "deno" THEN "deno" ELSE f.s
               m == IF f.m # "main realm" THEN f.m ELSE IF u = "deno" THEN "Deno" ELSE "Renderer"
    <3>1. x = [f EXCEPT !.s = s, !.m = m]
      BY <2>3 DEF FromUpstream
    <3> HIDE DEF s, m, x, f
    <3>2. [f EXCEPT !.s = s, !.m = m].id = f.id /\ [f EXCEPT !.s = s, !.m = m].t = f.t
      BY <1>1 DEF Frame
    <3> QED BY <2>1, <3>1, <3>2
  <2> QED BY <2>2, <2>3
<1>4. outgoing \in [Peer -> Seq(Frame)]
  BY DEF MuxTypeOK
<1>5. Raw(f) /\ (f.t = "reply" => Answers(f, IF u = "cef" THEN "none" ELSE "deno"))
  <2>1. CASE u = "deno"
    BY <1>1, <2>1 DEF UInv, FrameInv
  <2>2. CASE u = "cef"
    <3>1. Raw(f) /\ (f.t = "reply" => f.id \in {Enable.id, Pause.id} \/ Answers(f, "none"))
      BY <1>1, <2>2 DEF UInv, FrameInv
    <3>2. f.t = "reply" => f.id \in At("fromCef")
      BY <1>1, <2>2 DEF At, Carries
    <3>3. f.t = "reply" => f.id \notin {Enable.id, Pause.id}
      BY <1>2, <3>2 DEF UInv, InjectInv
    <3> QED BY <2>2, <3>1, <3>3
  <2> QED BY <1>p, <2>1, <2>2
<1>m. f.t = "reply" => f.m \in Methods
  BY <1>5 DEF Answers, UInv, AskedInv
<1>c. Close.t = "close" /\ Close.m = "-"
  BY DEF Close, F
<1>6. /\ Final(x) /\ ~IsAttached(x) /\ (Carries(x) <=> f.t = "reply") /\ (Carries(f) <=> f.t = "reply")
      /\ TellsTargets(x) => u = "cef" /\ f.m = "autoAttach"
  <2>1. CASE f.t = "reply"
    <3>1. x = [f EXCEPT !.s = IF u = "deno" THEN "deno" ELSE @]
      <4>1. f.m # "main realm"
        BY <1>m, <2>1 DEF Methods
      <4> QED BY <1>1, <2>1, <4>1 DEF FromUpstream, Frame
    <3>2. x.m = f.m /\ x.s = IF u = "cef" THEN "none" ELSE "deno"
      BY <1>1, <1>5, <1>p, <3>1 DEF Frame, Raw
    <3>3. Answers(x, x.s)
      BY <1>3, <1>5, <2>1, <3>2 DEF Answers
    <3> QED BY <1>3, <1>m, <1>p, <2>1, <3>2, <3>3 DEF Final, IsAttached, Carries, TellsTargets, Methods
  <2>2. CASE f.t = "event" /\ f.m = "main realm"
    <3>1. x.m = (IF u = "deno" THEN "Deno" ELSE "Renderer") /\ x.s = IF u = "deno" THEN "deno" ELSE f.s
      BY <1>1, <2>2 DEF FromUpstream, Frame
    <3> QED BY <1>3, <1>5, <1>p, <2>2, <3>1 DEF Final, IsAttached, Carries, TellsTargets, Raw
  <2>3. CASE f = Close
    <3>1. x = f
      BY <1>c, <2>3 DEF FromUpstream
    <3> QED BY <1>c, <2>3, <3>1 DEF Final, IsAttached, Carries, TellsTargets
  <2> QED BY <1>5, <2>1, <2>2, <2>3 DEF Raw
<1> HIDE DEF x, f
<1>7. /\ outgoing'["cef"] = outgoing["cef"] /\ outgoing'["deno"] = outgoing["deno"]
      /\ Told' = IF writer["client"] THEN Append(Told, x) ELSE Told
  <2>1. outgoing'["cef"] = outgoing["cef"] /\ outgoing'["deno"] = outgoing["deno"]
    <3>1. "cef" \in Peer \ {"client"} /\ "deno" \in Peer \ {"client"}
      BY <1>p
    <3>2. \A r \in Peer \ {"client"} : Send(outgoing, "client", <<x>>)[r] = outgoing[r]
      <4>1. <<x>> \in Seq(Frame) /\ "client" \in Peer
        BY <1>3, <1>p, OneFrame
      <4> HIDE DEF MuxTypeOK, Types
      <4> QED BY <1>4, <4>1, SendTyped
    <3> QED BY <1>2, <3>1, <3>2
  <2>2. Told' = got \o Send(outgoing, "client", <<x>>)["client"]
    BY <1>2 DEF Told
  <2> QED BY <1>3, <1>4, <2>1, <2>2, TellOne
<1>8. /\ Elems(Told)' \subseteq Elems(Told) \cup {x} /\ Elems(Told) \subseteq Elems(Told)'
      /\ Ids(Told)' \subseteq Ids(Told) \cup (IF Carries(x) THEN {x.id} ELSE {})
  <2>1. /\ Elems(Append(Told, x)) = Elems(Told) \cup {x}
        /\ Ids(Append(Told, x)) = Ids(Told) \cup (IF Carries(x) THEN {x.id} ELSE {})
    BY <1>3, ToldFacts, AppendFacts
  <2> QED BY <1>7, <2>1
<1>9. Carries(x) => f.id \in At(from) /\ f.id \notin At(from)'
  BY <1>1, <1>6, <1>p DEF At
<1>10. \A a \in Place \ {"told"} : At(a)' \subseteq At(a)
  <2>1. At(from)' \subseteq At(from)
    BY <1>1, <1>p DEF At
  <2>2. \A a \in Place \ {"told", from} : At(a)' = At(a)
    BY <1>1, <1>2, <1>7, <1>p, SamePlaces DEF Place
  <2> QED BY <2>1, <2>2
<1>11. from \in Place \ {"told"} /\ "told" \in Place
  BY DEF Place
<1> HIDE DEF from
<1>12. OnePlace'
  <2>1. CASE Carries(x)
    <3>1. \A a \in Place \ {from} : f.id \notin At(a)
      BY <1>9, <1>11, <2>1, LeavesOthers DEF UInv
    <3>2. \A a \in Place \ {"told"} : At(a)' \subseteq At(a) \ {f.id}
      BY <1>9, <1>10, <2>1, <3>1
    <3>3. At("told")' \subseteq At("told") \cup {f.id}
      BY <1>3, <1>8 DEF At
    <3> QED BY <1>11, <3>2, <3>3, Moved DEF UInv
  <2>2. CASE ~Carries(x)
    <3>1. At("told")' \subseteq At("told")
      BY <1>8, <2>2 DEF At
    <3> QED BY <1>10, <3>1, Lost DEF UInv
  <2> QED BY <2>1, <2>2
<1>13. Orderly(Told)'
  <2>1. Orderly(Told)
    BY DEF UInv, DistinctInv
  <2>2. CASE writer["client"]
    <3>1. Carries(x) => x.id \notin Ids(Told)
      <4>1. Carries(x) => f.id \notin At("told")
        BY <1>9, <1>11, LeavesOthers DEF UInv
      <4> QED BY <1>3, <4>1 DEF At
    <3>2. TellsTargets(x) => \E g \in Elems(Told) : IsAttached(g)
      BY <1>1, <1>6, <2>2 DEF UInv, AnnounceInv
    <3>3. Orderly(Append(Told, x))
      BY <1>3, <1>6, <2>1, <3>1, <3>2, ToldFacts, AddOrderly
    <3> QED BY <1>7, <2>2, <3>3
  <2> QED BY <1>7, <2>1, <2>2
<1>14. AskedInv'
  BY <1>2 DEF AskedInv, UInv
<1>15. FrameInv'
  <2>1. FrameInv /\ asked' = asked
    BY <1>2 DEF UInv
  <2>3. \A g \in Elems(Told)' : Final(g)
    BY <1>6, <1>8, <2>1 DEF FrameInv
  <2>4. /\ Elems(inbox'["client"]) \subseteq Elems(inbox["client"])
        /\ Elems(inbox'["cef"]) \subseteq Elems(inbox["cef"])
        /\ Elems(inbox'["deno"]) \subseteq Elems(inbox["deno"])
        /\ outgoing'["cef"] = outgoing["cef"] /\ outgoing'["deno"] = outgoing["deno"] /\ todo' = todo
    BY <1>1, <1>2, <1>7, <1>p
  <2> QED BY <2>1, <2>3, <2>4, FrameKept DEF FrameInv
<1>16. DistinctInv'
  BY <1>1, <1>7, <1>13, <1>p DEF DistinctInv, UInv
<1>17. InjectInv'
  BY <1>2, <1>10 DEF InjectInv, UInv, Place
<1>18. AnnounceInv'
  BY <1>1, <1>2, <1>6, <1>7, <1>8, <1>p DEF AnnounceInv, UInv
<1> QED BY <1>12, <1>14, <1>15, <1>16, <1>17, <1>18 DEF UInv

(* The client reads what has been written, or its writer gives up           *)
(* (desktop_devtools.rs:1053-1063).                                         *)
LEMMA WriteClientRoutes ==
  ASSUME Types, Types', UInv, Write("client")
  PROVE  UInv'
<1> USE DEF Types
<1>p. "client" \in Peer /\ "cef" \in Peer /\ "deno" \in Peer /\ Peer = {"client", "cef", "deno"}
      /\ Upstream = {"cef", "deno"}
  BY DEF Peer, Upstream
<1>1. /\ UNCHANGED <<asked, inbox, announced, acks, phase>>
      /\ outgoing'["cef"] = outgoing["cef"] /\ outgoing'["deno"] = outgoing["deno"]
      /\ \A w \in Upstream : todo'[w] = todo[w]
      /\ writer["client"] /\ outgoing["client"] # <<>>
  BY <1>p DEF Write, Deliver, talk, MuxTypeOK
<1>2. got \in Seq(Frame) /\ outgoing["client"] \in Seq(Frame)
  BY <1>p DEF MuxTypeOK
<1> DEFINE f == Head(outgoing["client"])
<1>3. f \in Frame /\ Tail(outgoing["client"]) \in Seq(Frame) /\ Append(got, f) \in Seq(Frame)
      /\ Append(got, f) \o Tail(outgoing["client"]) = Told
  <2>1. f \in Frame /\ Tail(outgoing["client"]) \in Seq(Frame)
    BY <1>1, <1>2, TailFacts
  <2>2. Append(got, f) \o Tail(outgoing["client"]) = got \o outgoing["client"]
    BY <1>1, <1>2, HandOn
  <2> QED BY <1>2, <2>1, <2>2, AppendFacts DEF Told
<1>4. \/ Told' = Told /\ writer'["client"]
      \/ Told' \in {got, Append(got, f)} /\ ~writer'["client"]
  <2>1. CASE ~conn["client"]
    <3>1. got' = got /\ outgoing'["client"] = <<>> /\ ~writer'["client"]
      BY <1>p, <2>1 DEF Write, talk, MuxTypeOK
    <3> QED BY <1>2, <3>1 DEF Told
  <2>2. CASE conn["client"] /\ f.t = "close"
    <3>1. got' = Append(got, f) /\ outgoing'["client"] = <<>> /\ ~writer'["client"]
      BY <1>p, <2>2 DEF Write, Deliver, MuxTypeOK
    <3>2. Append(got, f) \o <<>> = Append(got, f)
      BY <1>3
    <3> QED BY <3>1, <3>2 DEF Told
  <2>3. CASE conn["client"] /\ f.t # "close"
    <3>1. got' = Append(got, f) /\ outgoing'["client"] = Tail(outgoing["client"]) /\ writer'["client"]
      BY <1>p, <2>3 DEF Write, Deliver, MuxTypeOK
    <3> QED BY <1>3, <3>1 DEF Told
  <2> QED BY <2>1, <2>2, <2>3
<1> HIDE DEF f
<1>5. Orderly(Told)
  BY DEF UInv, DistinctInv
<1>6. \A q \in {got, Append(got, f)} : Orderly(q) /\ Elems(q) \subseteq Elems(Told) /\ Ids(q) \subseteq Ids(Told)
  <2>1. Orderly(got) /\ Elems(got) \subseteq Elems(Told) /\ Ids(got) \subseteq Ids(Told)
    BY <1>2, <1>5, PrefixOrderly, ConcatFacts DEF Told
  <2>2. Orderly(Append(got, f))
    BY <1>3, <1>5, PrefixOrderly
  <2>3. Elems(Append(got, f)) \subseteq Elems(Told) /\ Ids(Append(got, f)) \subseteq Ids(Told)
    BY <1>3, ConcatFacts
  <2> QED BY <2>1, <2>2, <2>3
<1>7. Orderly(Told)' /\ Elems(Told)' \subseteq Elems(Told) /\ Ids(Told)' \subseteq Ids(Told)
  BY <1>4, <1>5, <1>6
<1>8. OnePlace'
  <2>1. \A a \in Place \ {"told"} : At(a)' = At(a)
    BY <1>1, <1>p, SamePlaces DEF Place
  <2>2. At("told")' \subseteq At("told")
    BY <1>7 DEF At
  <2> QED BY <2>1, <2>2, Lost DEF UInv
<1>9. AskedInv'
  BY <1>1 DEF AskedInv, UInv
<1>10. FrameInv'
  <2>1. FrameInv /\ \A g \in Elems(Told') : Final(g)
    BY <1>7 DEF FrameInv, UInv
  <2> QED BY <1>1, <1>p, <2>1, FrameKept DEF FrameInv
<1>11. DistinctInv'
  BY <1>1, <1>7, <1>p DEF DistinctInv, UInv
<1>12. InjectInv'
  BY <1>1, <1>p, SamePlaces DEF InjectInv, UInv
<1>13. AnnounceInv'
  BY <1>1, <1>4, <1>7, <1>p DEF AnnounceInv, UInv
<1> QED BY <1>8, <1>9, <1>10, <1>11, <1>12, <1>13 DEF UInv

(* An isolate reads what has been written, or its writer gives up           *)
(* (desktop_devtools.rs:1064-1087).                                         *)
LEMMA WriteUpstreamRoutes ==
  ASSUME Types, Types', UInv, NEW u \in Upstream, Write(u)
  PROVE  UInv'
<1> USE DEF Types
<1>p. "client" \in Peer /\ "cef" \in Peer /\ "deno" \in Peer /\ Peer = {"client", "cef", "deno"}
      /\ Upstream = {"cef", "deno"} /\ u \in Peer /\ u # "client"
  BY DEF Peer, Upstream
<1> DEFINE f == Head(outgoing[u])
           from == IF u = "cef" THEN "forCef" ELSE "forDeno"
           to == IF u = "cef" THEN "atCef" ELSE "atDeno"
<1>2. outgoing[u] \in Seq(Frame) /\ outgoing[u] # <<>> /\ Distinct(outgoing[u])
  <2>1. outgoing[u] \in Seq(Frame)
    BY <1>p DEF MuxTypeOK
  <2>2. outgoing[u] # <<>> /\ Distinct(outgoing[u])
    BY DEF UInv, DistinctInv, Write
  <2> QED BY <2>1, <2>2
<1>3. /\ f \in Frame /\ f \in Elems(outgoing[u]) /\ Elems(Tail(outgoing[u])) \subseteq Elems(outgoing[u])
      /\ Distinct(Tail(outgoing[u])) /\ (Carries(f) => f.id \notin Ids(Tail(outgoing[u])))
  BY <1>2, TailFacts
<1>e. Elems(<<>>) = {} /\ Distinct(<<>>) /\ Ids(<<>>) = {}
  BY DEF Elems, Distinct, Ids
<1>1. /\ UNCHANGED <<asked, inbox, announced, acks, phase, got>>
      /\ \A r \in Peer \ {u} : outgoing'[r] = outgoing[r] /\ writer'[r] = writer[r]
      /\ outgoing'[u] \in {<<>>, Tail(outgoing[u])}
      /\ \A w \in Upstream \ {u} : todo'[w] = todo[w]
      /\ todo'[u] = todo[u] \/ (f.t = "request" /\ todo'[u] = todo[u] \cup {f})
  <2>1. CASE ~conn[u]
    BY <1>p, <2>1 DEF Write, talk, MuxTypeOK
  <2>2. CASE conn[u]
    <3>1. Deliver(u, f)
      BY <2>2 DEF Write
    <3>2. outgoing' = [outgoing EXCEPT ![u] = IF f.t = "close" THEN <<>> ELSE Tail(@)]
      BY <2>2 DEF Write
    <3>3. /\ asked' = asked /\ got' = got /\ \A w \in Upstream \ {u} : todo'[w] = todo[w]
          /\ todo'[u] = todo[u] \/ (f.t = "request" /\ todo'[u] = todo[u] \cup {f})
      BY <1>p, <3>1 DEF Deliver
    <3> QED BY <1>p, <2>2, <3>2, <3>3 DEF Write, MuxTypeOK
  <2> QED BY <2>1, <2>2
<1> HIDE DEF f
<1>4. Told' = Told
  BY <1>1, <1>p DEF Told
<1>5. /\ \A r \in Upstream : Elems(outgoing'[r]) \subseteq Elems(outgoing[r]) /\ Distinct(outgoing'[r])
                              /\ Ids(outgoing'[r]) \subseteq Ids(outgoing[r])
      /\ Carries(f) => f.id \in Ids(outgoing[u]) /\ f.id \notin Ids(outgoing'[u])
  <2>1. Ids(Tail(outgoing[u])) \subseteq Ids(outgoing[u]) /\ (Carries(f) => f.id \in Ids(outgoing[u]))
    BY <1>3 DEF Ids
  <2>2. \A r \in Upstream \ {u} : Elems(outgoing'[r]) \subseteq Elems(outgoing[r]) /\ Distinct(outgoing'[r])
                                  /\ Ids(outgoing'[r]) \subseteq Ids(outgoing[r])
    BY <1>1, <1>p DEF UInv, DistinctInv
  <2>3. /\ Elems(outgoing'[u]) \subseteq Elems(outgoing[u]) /\ Distinct(outgoing'[u])
        /\ Ids(outgoing'[u]) \subseteq Ids(outgoing[u])
        /\ Carries(f) => f.id \notin Ids(outgoing'[u])
    BY <1>1, <1>3, <1>e, <2>1
  <2> QED BY <2>1, <2>2, <2>3
<1>6. f.t = "request" => f.id \in 1..Len(asked) /\ Carries(f)
                         /\ (u = "cef" => OfCef(f)) /\ (u = "deno" => OfDeno(f))
  BY <1>3, <1>p DEF UInv, FrameInv, OfCef, OfDeno, Mine, Carries
<1>7. from \in Place /\ to \in Place /\ from # to
  BY DEF Place
<1>8. At(to)' \subseteq At(to) \cup (IF f.t = "request" THEN {f.id} ELSE {})
  BY <1>1, <1>p DEF At
<1>9. /\ \A a \in Place \ {from, to} : At(a)' = At(a)
      /\ At(from)' \subseteq At(from)
      /\ f.t = "request" => f.id \in At(from) /\ f.id \notin At(from)'
  <2>1. At(from)' \subseteq At(from) /\ (f.t = "request" => f.id \in At(from) /\ f.id \notin At(from)')
    BY <1>5, <1>6, <1>p DEF At
  <2>2. \A a \in Place \ {from, to} : At(a)' = At(a)
    BY <1>1, <1>4, <1>p, SamePlaces DEF Place
  <2> QED BY <2>1, <2>2
<1> HIDE DEF from, to
<1>10. OnePlace'
  <2>1. CASE f.t = "request"
    <3>1. \A a \in Place \ {from} : f.id \notin At(a)
      BY <1>7, <1>9, <2>1, LeavesOthers DEF UInv
    <3>2. \A a \in Place \ {to} : At(a)' \subseteq At(a) \ {f.id}
      BY <1>7, <1>9, <2>1, <3>1
    <3>3. At(to)' \subseteq At(to) \cup {f.id}
      BY <1>8, <2>1
    <3> QED BY <1>7, <3>2, <3>3, Moved DEF UInv
  <2>2. CASE f.t # "request"
    <3>1. \A a \in Place : At(a)' \subseteq At(a)
      BY <1>7, <1>8, <1>9, <2>2
    <3> QED BY <3>1, Lost DEF UInv
  <2> QED BY <2>1, <2>2
<1>11. AskedInv'
  BY <1>1 DEF AskedInv, UInv
<1>12. FrameInv'
  <2>1. /\ \A g \in todo'["cef"] : g \in {Enable, Pause} \/ (g.t = "request" /\ OfCef(g))
        /\ \A g \in todo'["deno"] : g.t = "request" /\ OfDeno(g)
    BY <1>1, <1>6, <1>p DEF FrameInv, UInv
  <2>2. FrameInv /\ \A g \in Elems(Told') : Final(g)
    BY <1>4 DEF FrameInv, UInv
  <2> QED BY <1>1, <1>5, <1>p, <2>1, <2>2, FrameKept
<1>13. DistinctInv'
  BY <1>1, <1>4, <1>5, <1>p DEF DistinctInv, UInv
<1>14. InjectInv'
  <2>1. \A n \in 1..Len(asked) : n \notin {Enable.id, Pause.id}
    BY MuxAssumption DEF UInv, AskedInv, MuxTypeOK, Enable, Pause, F
  <2>2. At("fromCef")' = At("fromCef") /\ phase' = phase
    BY <1>1, SamePlaces
  <2>3. At("atCef")' \subseteq At("atCef") \cup (IF f.t = "request" THEN {f.id} ELSE {})
    BY <1>1, <1>p DEF At
  <2> QED BY <1>6, <2>1, <2>2, <2>3 DEF InjectInv, UInv
<1>15. AnnounceInv'
  <2>1. writer'["client"] = writer["client"]
    BY <1>1, <1>p
  <2>2. \A g \in Elems(outgoing'["cef"]) \cup todo'["cef"] \cup Elems(inbox'["cef"]) :
          g \in Elems(outgoing["cef"]) \cup todo["cef"] \cup Elems(inbox["cef"])
    BY <1>1, <1>3, <1>5, <1>p
  <2> QED BY <1>1, <1>4, <2>1, <2>2 DEF AnnounceInv, UInv
<1> QED BY <1>10, <1>11, <1>12, <1>13, <1>14, <1>15 DEF UInv

(* ---- clients and isolates ------------------------------------------------------ *)

(* A reader that stops, the app that polls the gate                         *)
(* (desktop_devtools.rs:363-372), a peer that hangs up silently.            *)
LEMMA IdleRoutes ==
  ASSUME UInv, UNCHANGED <<phase, inbox, outgoing, writer, announced, acks, asked, got, todo>>
  PROVE  UInv'
<1>1. Told' = Told
  BY DEF Told
<1>2. OnePlace'
  <2>1. \A a \in Place : At(a)' = At(a)
    <3>1. UNCHANGED <<inbox, outgoing, todo, acks>>
      OBVIOUS
    <3> QED BY <1>1, <3>1, SamePlaces DEF Place
  <2> QED BY <2>1, Lost DEF UInv
<1>3. AskedInv'
  BY AskedKept DEF UInv
<1>4. FrameInv'
  <2>1. FrameInv /\ \A f \in Elems(Told') : Final(f)
    BY <1>1 DEF FrameInv, UInv
  <2> QED BY <2>1, FrameKept DEF FrameInv
<1>5. DistinctInv'
  BY <1>1 DEF DistinctInv, UInv
<1>6. InjectInv'
  BY SamePlaces DEF InjectInv, UInv
<1>7. AnnounceInv'
  BY <1>1 DEF AnnounceInv, UInv
<1> QED BY <1>2, <1>3, <1>4, <1>5, <1>6, <1>7 DEF UInv

(* A keep-alive, a new context, a close. *)
LEMMA PlainRoutes ==
  ASSUME Types, UInv, NEW p \in Peer,
         NEW f \in {Ping, Close, F("event", 0, "main realm", "none")},
         f = Ping => p = "client", f.t = "event" => p # "client",
         inbox' = [inbox EXCEPT ![p] = Append(@, f)],
         UNCHANGED <<phase, outgoing, writer, announced, acks, asked, got, todo>>
  PROVE  UInv'
<1> USE DEF Types
<1>p. "client" \in Peer /\ "cef" \in Peer /\ "deno" \in Peer /\ Peer = {"client", "cef", "deno"}
      /\ Upstream = {"cef", "deno"}
  BY DEF Peer, Upstream
<1> DEFINE e == F("event", 0, "main realm", "none")
<1>e. /\ Ping.t = "ping" /\ Ping.m = "-"
      /\ Close.t = "close" /\ Close.m = "-" /\ Close.s = "none"
      /\ e.t = "event" /\ e.id = 0 /\ e.m = "main realm" /\ e.s = "none"
      /\ Ping \in Frame /\ Close \in Frame /\ e \in Frame
  BY FramesTyped DEF Ping, Close, F
<1>f. f \in {Ping, Close, e}
  OBVIOUS
<1> HIDE DEF e
<1>1. /\ f \in Frame /\ ~Carries(f) /\ f.m # "autoAttach"
      /\ f.t # "request" /\ f.t # "reply"
  BY <1>e, <1>f DEF Carries
<1>r. /\ p = "client" => f \in {Ping, Close}
      /\ p # "client" => Raw(f)
  BY <1>e, <1>f DEF Raw
<1>2. /\ Elems(inbox'[p]) = Elems(inbox[p]) \cup {f}
      /\ Ids(inbox'[p]) = Ids(inbox[p])
      /\ \A q \in Peer : Distinct(inbox'[q])
      /\ \A q \in Peer \ {p} : inbox'[q] = inbox[q]
  BY <1>1, Uttered DEF UInv, DistinctInv
<1> HIDE DEF Types
<1>3. Told' = Told
  BY DEF Told
<1>4. OnePlace'
  <2>1. \A q \in Peer : Ids(inbox'[q]) = Ids(inbox[q])
    BY <1>2
  <2>2. \A a \in Place : At(a)' = At(a)
    BY <1>3, <1>p, <2>1 DEF Place, At
  <2> QED BY <2>2, Lost DEF UInv
<1>5. AskedInv'
  BY AskedKept DEF UInv
<1>6. FrameInv'
  <2>0. FrameInv
    BY DEF UInv
  <2>1. \A g \in Elems(inbox'["client"]) : g \in {Ping, Close} \/ (g.t = "request" /\ Mine(g)')
    <3> SUFFICES ASSUME NEW g \in Elems(inbox'["client"])
                 PROVE  g \in {Ping, Close} \/ (g.t = "request" /\ Mine(g)')
      OBVIOUS
    <3>1. g \in Elems(inbox["client"]) \/ (g = f /\ p = "client")
      BY <1>2, <1>p
    <3> QED BY <1>r, <2>0, <3>1, AskedKept DEF FrameInv
  <2>2. \A g \in Elems(inbox'["cef"]) :
          Raw(g) /\ (g.t = "reply" => g.id \in {Enable.id, Pause.id} \/ Answers(g, "none"))
    <3> SUFFICES ASSUME NEW g \in Elems(inbox'["cef"])
                 PROVE  Raw(g) /\ (g.t = "reply" => g.id \in {Enable.id, Pause.id} \/ Answers(g, "none"))
      OBVIOUS
    <3>1. g \in Elems(inbox["cef"]) \/ (g = f /\ p = "cef")
      BY <1>2, <1>p
    <3> QED BY <1>1, <1>r, <2>0, <3>1 DEF FrameInv
  <2>3. \A g \in Elems(inbox'["deno"]) : Raw(g) /\ (g.t = "reply" => Answers(g, "deno"))
    <3> SUFFICES ASSUME NEW g \in Elems(inbox'["deno"])
                 PROVE  Raw(g) /\ (g.t = "reply" => Answers(g, "deno"))
      OBVIOUS
    <3>1. g \in Elems(inbox["deno"]) \/ (g = f /\ p = "deno")
      BY <1>2, <1>p
    <3> QED BY <1>1, <1>r, <2>0, <3>1 DEF FrameInv
  <2>4. /\ \A g \in Elems(outgoing'["cef"]) :
             g.t \in {"request", "ping", "close"} /\ (g.t = "request" => OfCef(g))
        /\ \A g \in Elems(outgoing'["deno"]) :
             g.t \in {"request", "close"} /\ (g.t = "request" => OfDeno(g))
        /\ \A g \in todo'["cef"] : g \in {Enable, Pause} \/ (g.t = "request" /\ OfCef(g))
        /\ \A g \in todo'["deno"] : g.t = "request" /\ OfDeno(g)
        /\ \A g \in Elems(Told') : Final(g)
    BY <1>3, <2>0 DEF FrameInv
  <2> QED BY <2>1, <2>2, <2>3, <2>4, AskedKept, FrameNext
<1>7. DistinctInv'
  BY <1>2, <1>3 DEF DistinctInv, UInv
<1>8. InjectInv'
  <2>1. Ids(inbox'["cef"]) = Ids(inbox["cef"])
    BY <1>2, <1>p
  <2> QED BY <2>1 DEF InjectInv, UInv, At
<1>9. AnnounceInv'
  <2>1. \A g \in Elems(inbox'["cef"]) : g \in Elems(inbox["cef"]) \/ g = f
    BY <1>2, <1>p
  <2> QED BY <1>1, <1>3, <2>1 DEF AnnounceInv, UInv
<1> QED BY <1>4, <1>5, <1>6, <1>7, <1>8, <1>9 DEF UInv

(* The client sends a request. *)
LEMMA AskRoutes ==
  ASSUME Types, Types', UInv, NEW m \in Methods, NEW s \in SessionsOf(m), Ask(m, s)
  PROVE  UInv'
<1> USE DEF Types
<1>p. "client" \in Peer /\ "cef" \in Peer /\ "deno" \in Peer /\ Peer = {"client", "cef", "deno"}
      /\ Upstream = {"cef", "deno"}
  BY DEF Peer, Upstream
<1> SUFFICES ASSUME NEW n, n = Len(asked) + 1, NEW f, f = F("request", n, m, s) PROVE UInv'
  OBVIOUS
<1>1. /\ inbox' = [inbox EXCEPT !["client"] = Append(@, f)] /\ asked' = Append(asked, f)
      /\ UNCHANGED <<phase, outgoing, writer, announced, acks, got, todo>>
      /\ Len(asked) < MaxAsked
  BY DEF Ask, Utter
<1>2. asked \in Seq(Frame) /\ n \in Nat /\ n \in 1..MaxAsked
  BY <1>1, MuxAssumption DEF MuxTypeOK
<1>3. f \in Frame /\ f.t = "request" /\ f.id = n /\ f.m = m
  <2>1. s \in {"none", "deno"}
    BY DEF SessionsOf
  <2>2. n \in 0..(MaxAsked + 2)
    BY <1>2, MuxAssumption
  <2> QED BY <2>1, <2>2 DEF F, Frame
<1>4. \A a \in Place : n \notin At(a)
  <2>1. n \notin 1..Len(asked) /\ n \notin {Enable.id, Pause.id}
    BY <1>2, MuxAssumption DEF Enable, Pause, F
  <2> QED BY <2>1, IdsKnown DEF UInv
<1>5. Carries(f) /\ f.id \notin Ids(inbox["client"])
  <2>1. n \notin At("sent")
    BY <1>4 DEF Place
  <2> QED BY <1>3, <2>1 DEF At, Carries
<1>6. /\ Elems(inbox'["client"]) = Elems(inbox["client"]) \cup {f}
      /\ Ids(inbox'["client"]) = Ids(inbox["client"]) \cup {n}
      /\ \A q \in Peer : Distinct(inbox'[q])
      /\ \A q \in Peer \ {"client"} : inbox'[q] = inbox[q]
  BY <1>1, <1>3, <1>5, <1>p, Uttered DEF UInv, DistinctInv
<1>7. /\ Len(asked') = n /\ asked'[n] = f /\ \A i \in 1..Len(asked) : asked'[i] = asked[i]
      /\ 1..n = 1..Len(asked) \cup {n} /\ n \in 1..n
  BY <1>1, <1>2, <1>3
<1> HIDE DEF Types
<1>8. Told' = Told
  BY <1>1 DEF Told
<1>9. OnePlace'
  <2>1. \A a \in Place \ {"sent"} : At(a)' = At(a)
    BY <1>1, <1>6, <1>8, <1>p, SamePlaces DEF Place
  <2>2. At("sent")' = At("sent") \cup {n} /\ "sent" \in Place
    BY <1>6 DEF At, Place
  <2>3. \A a \in Place \ {"sent"} : At(a)' \subseteq At(a) \ {n}
    BY <1>4, <2>1
  <2> QED BY <2>2, <2>3, Moved DEF UInv
<1>10. AskedInv'
  <2>1. Len(asked') <= MaxAsked
    BY <1>2, <1>7
  <2>2. \A i \in 1..Len(asked') :
          asked'[i].t = "request" /\ asked'[i].id = i /\ asked'[i].m \in Methods
    BY <1>3, <1>7 DEF UInv, AskedInv
  <2> QED BY <2>1, <2>2 DEF AskedInv
<1>11. FrameInv'
  <2>0. FrameInv
    BY DEF UInv
  <2>1. \A i \in 1..Len(asked) : i \in 1..Len(asked') /\ asked'[i] = asked[i]
    BY <1>7
  <2>2. /\ \A g : OfCef(g) => OfCef(g)'
        /\ \A g : OfDeno(g) => OfDeno(g)'
        /\ \A g : \A t : Answers(g, t) => Answers(g, t)'
        /\ \A g : Mine(g) => Mine(g)'
    BY <2>1 DEF OfCef, OfDeno, Mine, Answers
  <2>3. \A g : Final(g) => Final(g)'
    BY <2>2 DEF Final
  <2>4. \A g \in Elems(inbox'["client"]) : g \in {Ping, Close} \/ (g.t = "request" /\ Mine(g)')
    <3>1. Mine(f)'
      BY <1>3, <1>7 DEF Mine
    <3> QED BY <1>3, <1>6, <2>0, <2>2, <3>1 DEF FrameInv
  <2>5. inbox'["cef"] = inbox["cef"] /\ inbox'["deno"] = inbox["deno"]
    BY <1>6, <1>p
  <2>6. /\ \A g \in Elems(outgoing'["cef"]) :
             g.t \in {"request", "ping", "close"} /\ (g.t = "request" => OfCef(g))
        /\ \A g \in Elems(outgoing'["deno"]) :
             g.t \in {"request", "close"} /\ (g.t = "request" => OfDeno(g))
        /\ \A g \in todo'["cef"] : g \in {Enable, Pause} \/ (g.t = "request" /\ OfCef(g))
        /\ \A g \in todo'["deno"] : g.t = "request" /\ OfDeno(g)
        /\ \A g \in Elems(inbox'["cef"]) :
             Raw(g) /\ (g.t = "reply" => g.id \in {Enable.id, Pause.id} \/ Answers(g, "none"))
        /\ \A g \in Elems(inbox'["deno"]) : Raw(g) /\ (g.t = "reply" => Answers(g, "deno"))
        /\ \A g \in Elems(Told') : Final(g)
    BY <1>1, <1>8, <2>0, <2>5 DEF FrameInv
  <2> QED BY <2>2, <2>3, <2>4, <2>6, FrameNext
<1>12. DistinctInv'
  BY <1>1, <1>6, <1>8 DEF DistinctInv, UInv
<1>13. InjectInv'
  BY <1>1, <1>6, <1>p, SamePlaces DEF InjectInv, UInv
<1>14. AnnounceInv'
  <2>1. inbox'["cef"] = inbox["cef"]
    BY <1>6, <1>p
  <2>2. announced => \E i \in 1..Len(asked') : asked'[i].m = "autoAttach" /\ asked'[i].s = "none"
    BY <1>7 DEF AnnounceInv, UInv
  <2> QED BY <1>1, <1>8, <2>1, <2>2 DEF AnnounceInv, UInv
<1> QED BY <1>9, <1>10, <1>11, <1>12, <1>13, <1>14 DEF UInv

(* An isolate answers a request. *)
LEMMA AnswerRoutes ==
  ASSUME Types, Types', UInv, NEW u \in Upstream, NEW f \in todo[u], Answer(u, f)
  PROVE  UInv'
<1> USE DEF Types
<1>p. "client" \in Peer /\ "cef" \in Peer /\ "deno" \in Peer /\ Peer = {"client", "cef", "deno"}
      /\ Upstream = {"cef", "deno"} /\ u \in Peer /\ u # "client"
  BY DEF Peer, Upstream
<1> DEFINE g == F("reply", f.id, f.m, "none")
           from == IF u = "cef" THEN "atCef" ELSE "atDeno"
           to == IF u = "cef" THEN "fromCef" ELSE "fromDeno"
<1>1. /\ inbox' = [inbox EXCEPT ![u] = Append(@, g)]
      /\ UNCHANGED <<phase, outgoing, writer, announced, acks, asked, got>>
      /\ todo'[u] = todo[u] \ {f} /\ \A w \in Upstream \ {u} : todo'[w] = todo[w]
  BY DEF Answer, Utter, MuxTypeOK
<1>2. f \in Frame /\ g \in Frame
  BY FramesTyped DEF MuxTypeOK
<1>3. g.t = "reply" /\ g.id = f.id /\ g.m = f.m /\ g.s = "none" /\ Carries(g) /\ Raw(g)
  BY DEF F, Carries, Raw
<1> HIDE DEF g
<1>4. from \in Place /\ to \in Place /\ from # to /\ f.id \in At(from)
  BY <1>p DEF Place, At
<1>5. \A a \in Place \ {from} : f.id \notin At(a)
  BY <1>4, LeavesOthers DEF UInv
<1>a. \A n \in 1..Len(asked) : asked[n] \in Frame /\ asked[n].id = n /\ n # Enable.id /\ n # Pause.id
  BY MuxAssumption DEF UInv, AskedInv, MuxTypeOK, Enable, Pause, F
<1>6. \A h \in todo[u] : h.id = f.id => h = f
  <2>1. Enable.id # Pause.id
    BY MuxAssumption DEF Enable, Pause, F
  <2>2. CASE u = "deno"
    BY <2>2 DEF UInv, FrameInv, OfDeno
  <2>3. CASE u = "cef"
    BY <1>a, <2>1, <2>3 DEF UInv, FrameInv, OfCef, Mine
  <2> QED BY <1>p, <2>2, <2>3
<1>7. f.id \notin At(from)' /\ At(from)' \subseteq At(from)
  BY <1>1, <1>6, <1>p DEF At
<1>8. /\ Elems(inbox'[u]) = Elems(inbox[u]) \cup {g}
      /\ Ids(inbox'[u]) = Ids(inbox[u]) \cup {f.id}
      /\ \A q \in Peer : Distinct(inbox'[q])
      /\ \A q \in Peer \ {u} : inbox'[q] = inbox[q]
  <2>1. f.id \notin At(to)
    BY <1>4, <1>5
  <2>2. g.id \notin Ids(inbox[u])
    BY <1>3, <1>p, <2>1 DEF At
  <2> QED BY <1>1, <1>2, <1>3, <1>p, <2>2, Uttered DEF UInv, DistinctInv
<1>9. At(to)' \subseteq At(to) \cup {f.id}
  BY <1>8, <1>p DEF At
<1>10. Told' = Told
  BY <1>1 DEF Told
<1>11. \A a \in Place \ {from, to} : At(a)' = At(a)
  BY <1>1, <1>8, <1>10, <1>p, SamePlaces DEF Place
<1> HIDE DEF Types, from, to
<1>12. OnePlace'
  <2>1. \A a \in Place \ {to} : At(a)' \subseteq At(a) \ {f.id}
    BY <1>4, <1>5, <1>7, <1>11
  <2> QED BY <1>4, <1>9, <2>1, Moved DEF UInv
<1>13. AskedInv'
  BY <1>1, AskedKept DEF UInv
<1>14. FrameInv'
  <2>0. FrameInv
    BY DEF UInv
  <2>1. \A h \in Elems(inbox'["client"]) : h \in {Ping, Close} \/ (h.t = "request" /\ Mine(h)')
    BY <1>1, <1>8, <1>p, <2>0, AskedKept DEF FrameInv
  <2>2. u = "cef" => g.id \in {Enable.id, Pause.id} \/ Answers(g, "none")
    BY <1>3, <2>0 DEF FrameInv, OfCef, Mine, Answers
  <2>3. u = "deno" => Answers(g, "deno")
    <3> SUFFICES ASSUME u = "deno" PROVE Answers(g, "deno")
      OBVIOUS
    <3>1. f.id \in 1..Len(asked) /\ asked[f.id].s = "deno" /\ f = [asked[f.id] EXCEPT !.s = "none"]
      BY <2>0 DEF FrameInv, OfDeno
    <3>2. f.m = asked[f.id].m
      <4>1. \A r \in Frame : [r EXCEPT !.s = "none"].m = r.m
        BY DEF Frame
      <4> QED BY <1>a, <3>1, <4>1
    <3> QED BY <1>3, <3>1, <3>2 DEF Answers
  <2>4. \A h \in Elems(inbox'["cef"]) :
          Raw(h) /\ (h.t = "reply" => h.id \in {Enable.id, Pause.id} \/ Answers(h, "none"))
    <3> SUFFICES ASSUME NEW h \in Elems(inbox'["cef"])
                 PROVE  Raw(h) /\ (h.t = "reply" => h.id \in {Enable.id, Pause.id} \/ Answers(h, "none"))
      OBVIOUS
    <3>1. h \in Elems(inbox["cef"]) \/ (h = g /\ u = "cef")
      BY <1>8, <1>p
    <3> QED BY <1>3, <2>0, <2>2, <3>1 DEF FrameInv
  <2>5. \A h \in Elems(inbox'["deno"]) : Raw(h) /\ (h.t = "reply" => Answers(h, "deno"))
    <3> SUFFICES ASSUME NEW h \in Elems(inbox'["deno"])
                 PROVE  Raw(h) /\ (h.t = "reply" => Answers(h, "deno"))
      OBVIOUS
    <3>1. h \in Elems(inbox["deno"]) \/ (h = g /\ u = "deno")
      BY <1>8, <1>p
    <3> QED BY <1>3, <2>0, <2>3, <3>1 DEF FrameInv
  <2>6. todo'["cef"] \subseteq todo["cef"] /\ todo'["deno"] \subseteq todo["deno"]
    BY <1>1, <1>p
  <2>7. /\ \A h \in Elems(outgoing'["cef"]) :
             h.t \in {"request", "ping", "close"} /\ (h.t = "request" => OfCef(h))
        /\ \A h \in Elems(outgoing'["deno"]) :
             h.t \in {"request", "close"} /\ (h.t = "request" => OfDeno(h))
        /\ \A h \in todo'["cef"] : h \in {Enable, Pause} \/ (h.t = "request" /\ OfCef(h))
        /\ \A h \in todo'["deno"] : h.t = "request" /\ OfDeno(h)
        /\ \A h \in Elems(Told') : Final(h)
    BY <1>1, <1>10, <2>0, <2>6 DEF FrameInv
  <2> QED BY <1>1, <2>1, <2>4, <2>5, <2>7, AskedKept, FrameNext
<1>15. DistinctInv'
  BY <1>1, <1>8, <1>10 DEF DistinctInv, UInv
<1>16. InjectInv'
  <2>1. At("atCef")' \cup At("fromCef")' \subseteq At("atCef") \cup At("fromCef")
    BY <1>1, <1>4, <1>7, <1>8, <1>9, <1>p, SamePlaces DEF from, to
  <2> QED BY <1>1, <2>1 DEF InjectInv, UInv
<1>17. AnnounceInv'
  <2>1. \A h \in Elems(outgoing'["cef"]) \cup todo'["cef"] \cup Elems(inbox'["cef"]) :
          h.m = "autoAttach" => \E k \in Elems(outgoing["cef"]) \cup todo["cef"] \cup Elems(inbox["cef"]) :
                                  k.m = "autoAttach"
    BY <1>1, <1>3, <1>8, <1>p
  <2> QED BY <1>1, <1>10, <2>1 DEF AnnounceInv, UInv
<1> QED BY <1>12, <1>13, <1>14, <1>15, <1>16, <1>17 DEF UInv

(* ---- the client is read --------------------------------------------------------- *)

(* What holds of a request when it has been read, and what is left alone.   *)
ReadOne(f) ==
  /\ f \in Frame /\ f \in Elems(inbox["client"])
  /\ inbox'["cef"] = inbox["cef"] /\ inbox'["deno"] = inbox["deno"]
  /\ Elems(inbox'["client"]) \subseteq Elems(inbox["client"])
  /\ Ids(inbox'["client"]) \subseteq Ids(inbox["client"])
  /\ \A q \in Peer : Distinct(inbox'[q])
  /\ Carries(f) => f.id \in Ids(inbox["client"]) /\ f.id \notin Ids(inbox'["client"])
  /\ UNCHANGED <<phase, writer, acks, asked, got, todo>>

(* The mux takes the first frame of its client                              *)
(* (desktop_devtools.rs:1090-1098).                                         *)
LEMMA ClientRead ==
  ASSUME Types, UInv, ReadClient
  PROVE  ReadOne(Head(inbox["client"]))
<1>p. "client" \in Peer /\ "cef" \in Peer \ {"client"} /\ "deno" \in Peer \ {"client"}
  BY DEF Peer, Upstream
<1>1. inbox["client"] # <<>> /\ inbox' = [inbox EXCEPT !["client"] = Tail(@)]
      /\ \A q \in Peer : Distinct(inbox[q])
  BY DEF ReadClient, ReadFrom, UInv, DistinctInv
<1>2. UNCHANGED <<phase, writer, acks, asked, got, todo>>
  BY DEF ReadClient, talk
<1> QED BY <1>1, <1>2, <1>p, ReadOff DEF ReadOne, Types

(* What stays as it was, when the channels of the isolates get what they    *)
(* may get and what is told is final.                                       *)
LEMMA ReadFrames ==
  ASSUME UInv, NEW f, ReadOne(f),
         \A g \in Elems(outgoing'["cef"]) :
           g.t \in {"request", "ping", "close"} /\ (g.t = "request" => OfCef(g)),
         \A g \in Elems(outgoing'["deno"]) :
           g.t \in {"request", "close"} /\ (g.t = "request" => OfDeno(g)),
         \A g \in Elems(Told') : Final(g)
  PROVE  AskedInv' /\ FrameInv' /\ InjectInv'
<1> USE DEF ReadOne
<1>0. FrameInv
  BY DEF UInv
<1>1. AskedInv'
  BY AskedKept DEF UInv
<1>2. \A g \in Elems(inbox'["client"]) : g \in {Ping, Close} \/ (g.t = "request" /\ Mine(g)')
  BY <1>0, AskedKept DEF FrameInv
<1>3. /\ \A g \in todo'["cef"] : g \in {Enable, Pause} \/ (g.t = "request" /\ OfCef(g))
      /\ \A g \in todo'["deno"] : g.t = "request" /\ OfDeno(g)
      /\ \A g \in Elems(inbox'["cef"]) :
           Raw(g) /\ (g.t = "reply" => g.id \in {Enable.id, Pause.id} \/ Answers(g, "none"))
      /\ \A g \in Elems(inbox'["deno"]) : Raw(g) /\ (g.t = "reply" => Answers(g, "deno"))
  BY <1>0 DEF FrameInv
<1>4. FrameInv'
  BY <1>2, <1>3, AskedKept, FrameNext
<1>5. todo'["cef"] = todo["cef"] /\ phase' = phase
  OBVIOUS
<1>6. InjectInv'
  BY <1>5, SamePlaces DEF InjectInv, UInv
<1> QED BY <1>1, <1>4, <1>6

(* A request that the mux answers itself is in no other place.              *)
LEMMA ToldMore ==
  ASSUME UInv, NEW f, ReadOne(f), f.t = "request",
         outgoing'["cef"] = outgoing["cef"], outgoing'["deno"] = outgoing["deno"],
         Ids(Told') \subseteq Ids(Told) \cup {f.id}
  PROVE  OnePlace'
<1>0. \A a \in Place \ {"sent", "told"} : At(a)' = At(a)
  BY SamePlaces DEF Place, ReadOne
<1>1. f.id \in At("sent") /\ f.id \notin At("sent")' /\ At("sent")' \subseteq At("sent")
  BY DEF At, ReadOne, Carries
<1>2. \A a \in Place \ {"sent"} : f.id \notin At(a)
  BY <1>1, LeavesOthers DEF Place, UInv
<1>3. \A a \in Place \ {"told"} : At(a)' \subseteq At(a) \ {f.id}
  BY <1>0, <1>1, <1>2
<1>4. At("told")' \subseteq At("told") \cup {f.id} /\ "told" \in Place
  BY DEF At, Place
<1> QED BY <1>3, <1>4, Moved DEF UInv

(* A frame is sent to a peer. *)
Adds(r, q, p, f) ==
  /\ Elems(r[p]) \subseteq Elems(q[p]) \cup {f}
  /\ Ids(r[p]) \subseteq Ids(q[p]) \cup (IF Carries(f) THEN {f.id} ELSE {})
  /\ Distinct(r[p])
  /\ \A t \in Peer \ {p} : r[t] = q[t]

(* What Send puts into a channel, if its id is not there yet.               *)
LEMMA SendAdds ==
  ASSUME NEW q \in [Peer -> Seq(Frame)], NEW p \in Peer, NEW f \in Frame,
         Distinct(q[p]), Carries(f) => f.id \notin Ids(q[p])
  PROVE  Adds(Send(q, p, <<f>>), q, p, f)
<1>1. Distinct(Send(q, p, <<f>>)[p])
  BY SendOne
<1>2. /\ Elems(Send(q, p, <<f>>)[p]) \subseteq Elems(q[p]) \cup {f}
      /\ Ids(Send(q, p, <<f>>)[p]) \subseteq Ids(q[p]) \cup (IF Carries(f) THEN {f.id} ELSE {})
      /\ \A t \in Peer \ {p} : Send(q, p, <<f>>)[t] = q[t]
  BY SendOne
<1> QED BY <1>1, <1>2 DEF Adds

(* A request of the session that the mux invented goes to Deno without it   *)
(* (desktop_devtools.rs:1254-1262).                                         *)
LEMMA DenoRoutes ==
  ASSUME Types, UInv, NEW f, ReadOne(f), f.t = "request", f.s = "deno",
         outgoing' = Send(outgoing, "deno", <<[f EXCEPT !.s = "none"]>>), announced' = announced
  PROVE  UInv'
<1>p. "client" \in Peer \ {"deno"} /\ "cef" \in Peer \ {"deno"} /\ "deno" \in Peer
      /\ Upstream = {"cef", "deno"} /\ Peer = {"client", "cef", "deno"}
  BY DEF Peer, Upstream
<1> SUFFICES ASSUME NEW g, g = [f EXCEPT !.s = "none"] PROVE UInv'
  OBVIOUS
<1>1. /\ g \in Frame /\ g.id = f.id /\ g.t = "request" /\ Carries(g) /\ Carries(f)
  BY DEF ReadOne, Frame, Carries
<1>2. Mine(f)
  BY DEF UInv, FrameInv, ReadOne, Ping, Close, F
<1>3. OfDeno(g)
  BY <1>1, <1>2 DEF OfDeno, Mine
<1>q. outgoing \in [Peer -> Seq(Frame)]
  BY DEF Types, MuxTypeOK
<1>4. f.id \in At("sent") /\ f.id \notin At("sent")' /\ At("sent")' \subseteq At("sent")
  BY <1>1 DEF ReadOne, At
<1>5. \A a \in Place \ {"sent"} : f.id \notin At(a)
  BY <1>4, LeavesOthers DEF UInv, Place
<1>6. g.id \notin Ids(outgoing["deno"]) /\ Distinct(outgoing["deno"])
  <2>1. f.id \notin At("forDeno")
    BY <1>5 DEF Place
  <2> QED BY <1>1, <1>p, <2>1 DEF At, UInv, DistinctInv
<1>7. /\ Elems(outgoing'["deno"]) \subseteq Elems(outgoing["deno"]) \cup {g}
      /\ Ids(outgoing'["deno"]) \subseteq Ids(outgoing["deno"]) \cup {f.id}
      /\ Distinct(outgoing'["deno"])
      /\ outgoing'["client"] = outgoing["client"] /\ outgoing'["cef"] = outgoing["cef"]
  <2>1. Adds(outgoing', outgoing, "deno", g)
    <3>1. Distinct(outgoing["deno"]) /\ (Carries(g) => g.id \notin Ids(outgoing["deno"]))
      BY <1>1, <1>p, <1>6
    <3>2. Adds(Send(outgoing, "deno", <<g>>), outgoing, "deno", g)
      BY <1>1, <1>p, <1>q, <3>1, SendAdds
    <3> QED BY <3>2
  <2> QED BY <1>1, <1>p, <2>1 DEF Adds
<1>8. Told' = Told
  BY <1>7 DEF Told, ReadOne
<1>9. OnePlace'
  <2>1. \A a \in Place \ {"sent", "forDeno"} : At(a)' = At(a)
    BY <1>7, <1>8, SamePlaces DEF Place, ReadOne
  <2>2. At("forDeno")' \subseteq At("forDeno") \cup {f.id} /\ "forDeno" \in Place
    BY <1>7 DEF At, Place
  <2>3. \A a \in Place \ {"forDeno"} : At(a)' \subseteq At(a) \ {f.id}
    BY <1>4, <1>5, <2>1
  <2> QED BY <2>2, <2>3, Moved DEF UInv
<1>10. AskedInv' /\ FrameInv' /\ InjectInv'
  <2>0. FrameInv
    BY DEF UInv
  <2>1. \A h \in Elems(outgoing'["cef"]) :
          h.t \in {"request", "ping", "close"} /\ (h.t = "request" => OfCef(h))
    BY <1>7, <2>0 DEF FrameInv
  <2>2. \A h \in Elems(outgoing'["deno"]) :
          h.t \in {"request", "close"} /\ (h.t = "request" => OfDeno(h))
    BY <1>1, <1>3, <1>7, <2>0 DEF FrameInv
  <2>3. \A h \in Elems(Told') : Final(h)
    BY <1>8, <2>0 DEF FrameInv
  <2> QED BY <2>1, <2>2, <2>3, ReadFrames
<1>11. DistinctInv'
  BY <1>7, <1>8, <1>p DEF DistinctInv, UInv, ReadOne
<1>12. AnnounceInv'
  BY <1>7, <1>8 DEF AnnounceInv, UInv, ReadOne
<1> QED BY <1>9, <1>10, <1>11, <1>12 DEF UInv

(* A close or a keep-alive goes to the isolates as it is                    *)
(* (desktop_devtools.rs:1115-1136).                                         *)
LEMMA CloseRoutes ==
  ASSUME Types, UInv, NEW f, ReadOne(f), f \in {Ping, Close}, announced' = announced,
         NEW q \in [Peer -> Seq(Frame)], q = Send(outgoing, "cef", <<f>>),
         outgoing' = q \/ (f = Close /\ outgoing' = Send(q, "deno", <<f>>))
  PROVE  UInv'
<1>p. /\ "client" \in Peer \ {"deno"} /\ "cef" \in Peer \ {"deno"} /\ "deno" \in Peer \ {"cef"}
      /\ "client" \in Peer \ {"cef"}
      /\ Upstream = {"cef", "deno"} /\ Peer = {"client", "cef", "deno"}
  BY DEF Peer, Upstream
<1>1. /\ f \in Frame /\ ~Carries(f) /\ f.t \in {"ping", "close"} /\ f.m # "autoAttach"
      /\ f = Close => f.t = "close"
  <2>1. /\ Ping.t = "ping" /\ Ping.m = "-" /\ Close.t = "close" /\ Close.m = "-"
    BY DEF Ping, Close, F
  <2>2. Ping \in Frame /\ Close \in Frame
    BY FramesTyped
  <2> QED BY <2>1, <2>2 DEF Carries
<1>q. outgoing \in [Peer -> Seq(Frame)] /\ Distinct(outgoing["cef"]) /\ Distinct(outgoing["deno"])
  BY <1>p DEF Types, MuxTypeOK, UInv, DistinctInv
<1>2. /\ Elems(q["cef"]) \subseteq Elems(outgoing["cef"]) \cup {f}
      /\ Ids(q["cef"]) \subseteq Ids(outgoing["cef"])
      /\ Distinct(q["cef"])
      /\ q["client"] = outgoing["client"] /\ q["deno"] = outgoing["deno"]
  <2>1. Adds(q, outgoing, "cef", f)
    <3>1. Distinct(outgoing["cef"]) /\ (Carries(f) => f.id \notin Ids(outgoing["cef"]))
      BY <1>1, <1>p, <1>q
    <3>2. Adds(Send(outgoing, "cef", <<f>>), outgoing, "cef", f)
      BY <1>1, <1>p, <1>q, <3>1, SendAdds
    <3> QED BY <3>2
  <2> QED BY <1>1, <1>p, <2>1 DEF Adds
<1>3. /\ outgoing'["cef"] = q["cef"] /\ outgoing'["client"] = outgoing["client"]
      /\ Elems(outgoing'["deno"]) \subseteq Elems(outgoing["deno"]) \cup (IF f = Close THEN {f} ELSE {})
      /\ Ids(outgoing'["deno"]) \subseteq Ids(outgoing["deno"])
      /\ Distinct(outgoing'["deno"])
  <2>1. CASE outgoing' = q
    BY <1>2, <1>q, <2>1
  <2>2. CASE f = Close /\ outgoing' = Send(q, "deno", <<f>>)
    <3>1. Distinct(q["deno"])
      BY <1>2, <1>q
    <3>2. /\ Elems(outgoing'["deno"]) \subseteq Elems(q["deno"]) \cup {f}
          /\ Ids(outgoing'["deno"]) \subseteq Ids(q["deno"])
          /\ Distinct(outgoing'["deno"])
          /\ outgoing'["client"] = q["client"] /\ outgoing'["cef"] = q["cef"]
      <4>1. Adds(outgoing', q, "deno", f)
        <5>1. Distinct(q["deno"]) /\ (Carries(f) => f.id \notin Ids(q["deno"]))
          BY <1>1, <1>p, <3>1
        <5>2. Adds(Send(q, "deno", <<f>>), q, "deno", f)
          BY <1>1, <1>p, <1>q, <5>1, SendAdds
        <5> QED BY <5>2, <2>2
      <4> QED BY <1>1, <1>p, <4>1 DEF Adds
    <3> QED BY <1>2, <2>2, <3>2
  <2> QED BY <2>1, <2>2
<1>8. Told' = Told
  BY <1>3 DEF Told, ReadOne
<1>9. OnePlace'
  <2>1. \A a \in Place \ {"sent", "forDeno", "forCef"} : At(a)' = At(a)
    BY <1>8, SamePlaces DEF Place, ReadOne
  <2>2. /\ At("sent")' \subseteq At("sent") /\ At("forDeno")' \subseteq At("forDeno")
        /\ At("forCef")' \subseteq At("forCef")
    BY <1>2, <1>3 DEF At, ReadOne
  <2> QED BY <2>1, <2>2, Lost DEF UInv
<1>10. AskedInv' /\ FrameInv' /\ InjectInv'
  <2>0. FrameInv
    BY DEF UInv
  <2>1. \A h \in Elems(outgoing'["cef"]) :
          h.t \in {"request", "ping", "close"} /\ (h.t = "request" => OfCef(h))
    BY <1>1, <1>2, <1>3, <2>0 DEF FrameInv
  <2>2. \A h \in Elems(outgoing'["deno"]) :
          h.t \in {"request", "close"} /\ (h.t = "request" => OfDeno(h))
    BY <1>1, <1>3, <2>0 DEF FrameInv
  <2>3. \A h \in Elems(Told') : Final(h)
    BY <1>8, <2>0 DEF FrameInv
  <2> QED BY <2>1, <2>2, <2>3, ReadFrames
<1>11. DistinctInv'
  BY <1>2, <1>3, <1>8, <1>p DEF DistinctInv, UInv, ReadOne
<1>12. AnnounceInv'
  <2>1. \A h \in Elems(outgoing'["cef"]) : h \in Elems(outgoing["cef"]) \/ h = f
    BY <1>2, <1>3
  <2> QED BY <1>1, <1>8, <2>1 DEF AnnounceInv, UInv, ReadOne
<1> QED BY <1>9, <1>10, <1>11, <1>12 DEF UInv

(* Two frames are sent to the client. *)
LEMMA TellTwo ==
  ASSUME MuxTypeOK, NEW f \in Frame, NEW g \in Frame
  PROVE  got \o Send(outgoing, "client", <<f, g>>)["client"] =
           IF writer["client"] THEN Append(Append(Told, f), g) ELSE Told
<1>1. /\ "client" \in Peer /\ got \in Seq(Frame) /\ outgoing["client"] \in Seq(Frame)
      /\ outgoing \in [Peer -> Seq(Frame)] /\ Told \in Seq(Frame)
  BY ToldFacts DEF MuxTypeOK, Peer
<1>2. <<f, g>> \in Seq(Frame)
  OBVIOUS
<1>3. Send(outgoing, "client", <<f, g>>)["client"] =
        IF writer["client"] THEN outgoing["client"] \o <<f, g>> ELSE outgoing["client"]
  BY <1>1, <1>2, SendTyped
<1>4. got \o (outgoing["client"] \o <<f, g>>) = Append(Append(Told, f), g)
  <2>1. got \o (outgoing["client"] \o <<f, g>>) = Told \o <<f, g>>
    BY <1>1, <1>2, AddBehind DEF Told
  <2>2. \A t \in Seq(Frame) : t \o <<f, g>> = Append(Append(t, f), g)
    OBVIOUS
  <2> QED BY <1>1, <2>1, <2>2
<1>5. got \o outgoing["client"] = Told
  BY DEF Told
<1> QED BY <1>3, <1>4, <1>5

(* A request for the renderer goes there; the first that asks for targets   *)
(* has the client told of Deno before (desktop_devtools.rs:1263-1279).      *)
LEMMA CefRoutes ==
  ASSUME Types, UInv, NEW f, ReadOne(f), f.t = "request", f.s # "deno", LocalAnswer(f) = <<>>,
         announced' = (announced \/ f.m = "autoAttach"),
         NEW q, q = Send(outgoing, "client", Announcement(f)), outgoing' = Send(q, "cef", <<f>>)
  PROVE  UInv'
<1>p. /\ "client" \in Peer /\ "cef" \in Peer /\ "deno" \in Peer
      /\ "cef" \in Peer \ {"client"} /\ "deno" \in Peer \ {"client"}
      /\ "client" \in Peer \ {"cef"} /\ "deno" \in Peer \ {"cef"}
      /\ Upstream = {"cef", "deno"} /\ Peer = {"client", "cef", "deno"}
  BY DEF Peer, Upstream
<1> SUFFICES ASSUME NEW ann, ann = F("event", 0, "attached", "none") PROVE UInv'
  OBVIOUS
<1>1. /\ ann \in Frame /\ ~Carries(ann) /\ IsAttached(ann) /\ ~TellsTargets(ann) /\ Final(ann)
  <2>1. ann.t = "event" /\ ann.m = "attached" /\ ann.s = "none" /\ ann.id = 0
    BY DEF F
  <2>2. ann \in Frame
    BY MuxAssumption DEF F, Frame
  <2> QED BY <2>1, <2>2 DEF Carries, IsAttached, TellsTargets, Final
<1>2. f \in Frame /\ f \in Elems(inbox["client"]) /\ Carries(f)
  BY DEF ReadOne, Carries
<1>3. Mine(f) /\ OfCef(f)
  <2>1. Mine(f)
    BY <1>2 DEF UInv, FrameInv, Ping, Close, F
  <2>2. f.s = "none"
    BY <1>2 DEF Frame
  <2> QED BY <2>1, <2>2 DEF OfCef
<1>q. outgoing \in [Peer -> Seq(Frame)] /\ MuxTypeOK
  BY DEF Types, MuxTypeOK
<1>4. f.id \in At("sent") /\ f.id \notin At("sent")' /\ At("sent")' \subseteq At("sent")
  BY <1>2 DEF ReadOne, At
<1>5. \A a \in Place \ {"sent"} : f.id \notin At(a)
  BY <1>4, LeavesOthers DEF UInv, Place
<1>6. /\ q \in [Peer -> Seq(Frame)] /\ q["cef"] = outgoing["cef"] /\ q["deno"] = outgoing["deno"]
  <2>1. Announcement(f) \in Seq(Frame)
    BY <1>2, FramesTyped
  <2>2. /\ Send(outgoing, "client", Announcement(f)) \in [Peer -> Seq(Frame)]
        /\ \A r \in Peer \ {"client"} : Send(outgoing, "client", Announcement(f))[r] = outgoing[r]
    BY <1>p, <1>q, <2>1, SendTyped
  <2> QED BY <1>p, <2>2
<1>7. /\ Elems(outgoing'["cef"]) \subseteq Elems(outgoing["cef"]) \cup {f}
      /\ Ids(outgoing'["cef"]) \subseteq Ids(outgoing["cef"]) \cup {f.id}
      /\ Distinct(outgoing'["cef"])
      /\ outgoing'["client"] = q["client"] /\ outgoing'["deno"] = outgoing["deno"]
  <2>1. Adds(outgoing', q, "cef", f)
    <3>1. Distinct(q["cef"])
      BY <1>6, <1>p DEF UInv, DistinctInv
    <3>2. f.id \notin Ids(q["cef"])
      <4>1. f.id \notin At("forCef")
        BY <1>5 DEF Place
      <4> QED BY <1>6, <4>1 DEF At
    <3>3. Adds(Send(q, "cef", <<f>>), q, "cef", f)
      BY <1>2, <1>6, <1>p, <3>1, <3>2, SendAdds
    <3> QED BY <3>3
  <2> QED BY <1>2, <1>6, <1>p, <2>1 DEF Adds
<1> DEFINE first == f.m = "autoAttach" /\ ~announced
<1>8. Told' = IF first /\ writer["client"] THEN Append(Told, ann) ELSE Told
  <2>1. Told' = got \o q["client"]
    BY <1>7 DEF Told, ReadOne
  <2>2. CASE first
    <3>1. q = Send(outgoing, "client", <<ann>>)
      BY <2>2 DEF Announcement
    <3>2. got \o Send(outgoing, "client", <<ann>>)["client"] =
            IF writer["client"] THEN Append(Told, ann) ELSE Told
      BY <1>1, <1>q, TellOne
    <3> QED BY <2>1, <2>2, <3>1, <3>2
  <2>3. CASE ~first
    <3>1. q = Send(outgoing, "client", <<>>)
      BY <2>3 DEF Announcement
    <3>2. q = outgoing
      BY <1>p, <1>q, <3>1, SendNone
    <3> QED BY <2>1, <2>3, <3>2 DEF Told
  <2> QED BY <2>2, <2>3
<1>9. /\ Orderly(Told') /\ Elems(Told) \subseteq Elems(Told') /\ Ids(Told') = Ids(Told)
      /\ \A h \in Elems(Told') : h \in Elems(Told) \/ (h = ann /\ first)
      /\ first /\ writer["client"] => ann \in Elems(Told')
  <2>1. Told \in Seq(Frame) /\ Orderly(Told)
    BY <1>q, ToldFacts DEF UInv, DistinctInv
  <2>2. CASE first /\ writer["client"]
    <3>1. \A h \in Elems(Told) : ~IsAttached(h)
      BY <2>2 DEF UInv, AnnounceInv
    <3>2. Orderly(Append(Told, ann))
      BY <1>1, <2>1, <3>1, AddOrderly
    <3>3. Elems(Append(Told, ann)) = Elems(Told) \cup {ann} /\ Ids(Append(Told, ann)) = Ids(Told)
      BY <1>1, <2>1, AppendFacts
    <3> QED BY <1>8, <2>2, <3>2, <3>3
  <2>3. CASE ~(first /\ writer["client"])
    BY <1>8, <2>1, <2>3
  <2> QED BY <2>2, <2>3
<1>10. OnePlace'
  <2>1. \A a \in Place \ {"sent", "forCef", "told"} : At(a)' = At(a)
    BY <1>7, SamePlaces DEF Place, ReadOne
  <2>2. At("forCef")' \subseteq At("forCef") \cup {f.id} /\ "forCef" \in Place
    BY <1>7 DEF At, Place
  <2>3. At("told")' = At("told")
    BY <1>9 DEF At
  <2>4. \A a \in Place \ {"forCef"} : At(a)' \subseteq At(a) \ {f.id}
    BY <1>4, <1>5, <2>1, <2>3
  <2> QED BY <2>2, <2>4, Moved DEF UInv
<1>11. AskedInv' /\ FrameInv' /\ InjectInv'
  <2>0. FrameInv
    BY DEF UInv
  <2>1. \A h \in Elems(outgoing'["cef"]) :
          h.t \in {"request", "ping", "close"} /\ (h.t = "request" => OfCef(h))
    BY <1>3, <1>7, <2>0 DEF FrameInv
  <2>2. \A h \in Elems(outgoing'["deno"]) :
          h.t \in {"request", "close"} /\ (h.t = "request" => OfDeno(h))
    BY <1>7, <2>0 DEF FrameInv
  <2>3. \A h \in Elems(Told') : Final(h)
    BY <1>1, <1>9, <2>0 DEF FrameInv
  <2> QED BY <2>1, <2>2, <2>3, ReadFrames
<1>12. DistinctInv'
  BY <1>7, <1>9, <1>p DEF DistinctInv, UInv, ReadOne
<1>13. AnnounceInv'
  <2>0. AnnounceInv /\ announced \in BOOLEAN
    BY DEF UInv, Types, MuxTypeOK
  <2>1. ~announced' => \A h \in Elems(Told') : ~IsAttached(h)
    BY <1>9, <2>0 DEF AnnounceInv
  <2>2. announced' /\ writer'["client"] => \E h \in Elems(Told') : IsAttached(h)
    BY <1>1, <1>9, <2>0 DEF AnnounceInv, ReadOne
  <2>3. \A h \in Elems(outgoing'["cef"]) \cup todo'["cef"] \cup Elems(inbox'["cef"]) :
          h.m = "autoAttach" => announced'
    <3>1. \A h \in Elems(outgoing'["cef"]) \cup todo'["cef"] \cup Elems(inbox'["cef"]) :
            h = f \/ h \in Elems(outgoing["cef"]) \cup todo["cef"] \cup Elems(inbox["cef"])
      BY <1>7 DEF ReadOne
    <3> QED BY <2>0, <3>1 DEF AnnounceInv
  <2>4. announced' => \E n \in 1..Len(asked') : asked'[n].m = "autoAttach" /\ asked'[n].s = "none"
    <3>1. asked' = asked
      BY DEF ReadOne
    <3>2. CASE announced
      BY <2>0, <3>1, <3>2 DEF AnnounceInv
    <3>3. CASE f.m = "autoAttach"
      BY <1>3, <3>1, <3>3 DEF OfCef, Mine
    <3> QED BY <3>2, <3>3
  <2> QED BY <2>1, <2>2, <2>3, <2>4 DEF AnnounceInv
<1> QED BY <1>10, <1>11, <1>12, <1>13 DEF UInv

(* A request about the child target is answered by the mux                  *)
(* (desktop_devtools.rs:1279-1316).                                         *)
LEMMA LocalRoutes ==
  ASSUME Types, UInv, NEW f, ReadOne(f), f.t = "request", f.s # "deno",
         f.m \in {"attachDeno", "detachDeno"}, announced' = announced,
         outgoing' = Send(outgoing, "client", LocalAnswer(f))
  PROVE  UInv'
<1>p. /\ "client" \in Peer /\ "cef" \in Peer \ {"client"} /\ "deno" \in Peer \ {"client"}
      /\ Upstream = {"cef", "deno"} /\ Peer = {"client", "cef", "deno"}
  BY DEF Peer, Upstream
<1> SUFFICES ASSUME NEW rep, rep = F("reply", f.id, f.m, "none"),
                    NEW det, det = F("event", 0, "detached", "none")
             PROVE  UInv'
  OBVIOUS
<1>1. f \in Frame /\ f \in Elems(inbox["client"]) /\ Carries(f)
  BY DEF ReadOne, Carries
<1>2. Mine(f) /\ f.s = "none"
  <2>1. Mine(f)
    BY <1>1 DEF UInv, FrameInv, Ping, Close, F
  <2>2. f.s = "none"
    BY <1>1 DEF Frame
  <2> QED BY <2>1, <2>2
<1>3. /\ rep \in Frame /\ Carries(rep) /\ rep.id = f.id /\ ~IsAttached(rep)
      /\ ~TellsTargets(rep) /\ Final(rep)
  <2>1. rep.t = "reply" /\ rep.id = f.id /\ rep.m = f.m /\ rep.s = "none"
    BY DEF F
  <2>2. rep \in Frame
    BY <1>1, FramesTyped
  <2>3. Answers(rep, "none")
    BY <1>2, <2>1 DEF Answers, Mine
  <2> QED BY <2>1, <2>2, <2>3 DEF Carries, IsAttached, TellsTargets, Final
<1>4. /\ det \in Frame /\ ~Carries(det) /\ ~IsAttached(det) /\ ~TellsTargets(det) /\ Final(det)
  <2>1. det.t = "event" /\ det.m = "detached" /\ det.s = "none" /\ det.id = 0
    BY DEF F
  <2>2. det \in Frame
    BY MuxAssumption DEF F, Frame
  <2> QED BY <2>1, <2>2 DEF Carries, IsAttached, TellsTargets, Final
<1>q. outgoing \in [Peer -> Seq(Frame)] /\ MuxTypeOK /\ Told \in Seq(Frame)
  BY ToldFacts DEF Types, MuxTypeOK
<1>5. outgoing'["cef"] = outgoing["cef"] /\ outgoing'["deno"] = outgoing["deno"]
  <2>1. LocalAnswer(f) \in Seq(Frame)
    BY <1>1, FramesTyped
  <2>2. \A r \in Peer \ {"client"} : Send(outgoing, "client", LocalAnswer(f))[r] = outgoing[r]
    BY <1>p, <1>q, <2>1, SendTyped
  <2> QED BY <1>p, <2>2
<1> DEFINE t == Append(Told, rep)
<1>6. Told' \in {Told, t, Append(t, det)}
  <2>1. Told' = got \o Send(outgoing, "client", LocalAnswer(f))["client"]
    BY DEF Told, ReadOne
  <2>2. CASE f.m = "attachDeno"
    <3>1. LocalAnswer(f) = <<rep>>
      BY <2>2 DEF LocalAnswer
    <3>2. got \o Send(outgoing, "client", <<rep>>)["client"] = IF writer["client"] THEN t ELSE Told
      BY <1>3, <1>q, TellOne
    <3> QED BY <2>1, <3>1, <3>2
  <2>3. CASE f.m = "detachDeno"
    <3>1. LocalAnswer(f) = <<rep, det>>
      BY <2>3 DEF LocalAnswer
    <3>2. got \o Send(outgoing, "client", <<rep, det>>)["client"] =
            IF writer["client"] THEN Append(t, det) ELSE Told
      BY <1>3, <1>4, <1>q, TellTwo
    <3> QED BY <2>1, <3>1, <3>2
  <2> QED BY <2>2, <2>3
<1>7. rep.id \notin Ids(Told)
  <2>1. f.id \in At("sent")
    BY <1>1 DEF ReadOne, At
  <2>2. f.id \notin At("told")
    BY <2>1, LeavesOthers DEF UInv, Place
  <2> QED BY <1>3, <2>2 DEF At
<1>8. /\ t \in Seq(Frame) /\ Orderly(t) /\ Elems(t) = Elems(Told) \cup {rep}
      /\ Ids(t) = Ids(Told) \cup {f.id}
  <2>1. Orderly(Told)
    BY DEF UInv, DistinctInv
  <2>2. Orderly(Append(Told, rep))
    BY <1>3, <1>7, <1>q, <2>1, AddOrderly
  <2>3. /\ Append(Told, rep) \in Seq(Frame) /\ Elems(Append(Told, rep)) = Elems(Told) \cup {rep}
        /\ Ids(Append(Told, rep)) = Ids(Told) \cup {f.id}
    BY <1>3, <1>q, AppendFacts
  <2> QED BY <2>2, <2>3
<1> HIDE DEF t
<1>9. /\ Orderly(Append(t, det)) /\ Elems(Append(t, det)) = Elems(t) \cup {det}
      /\ Ids(Append(t, det)) = Ids(t)
  <2>1. Orderly(Append(t, det))
    BY <1>4, <1>8, AddOrderly
  <2>2. Elems(Append(t, det)) = Elems(t) \cup {det} /\ Ids(Append(t, det)) = Ids(t)
    BY <1>4, <1>8, AppendFacts
  <2> QED BY <2>1, <2>2
<1>10. /\ Orderly(Told') /\ Elems(Told) \subseteq Elems(Told')
       /\ Ids(Told') \subseteq Ids(Told) \cup {f.id}
       /\ \A h \in Elems(Told') : h \in Elems(Told) \/ h = rep \/ h = det
  <2>1. CASE Told' = Told
    BY <2>1 DEF UInv, DistinctInv
  <2>2. CASE Told' = t
    BY <1>8, <2>2
  <2>3. CASE Told' = Append(t, det)
    BY <1>8, <1>9, <2>3
  <2> QED BY <1>6, <2>1, <2>2, <2>3
<1>11. OnePlace'
  BY <1>5, <1>10, ToldMore
<1>12. AskedInv' /\ FrameInv' /\ InjectInv'
  <2>0. FrameInv
    BY DEF UInv
  <2>1. \A h \in Elems(outgoing'["cef"]) :
          h.t \in {"request", "ping", "close"} /\ (h.t = "request" => OfCef(h))
    BY <1>5, <2>0 DEF FrameInv
  <2>2. \A h \in Elems(outgoing'["deno"]) :
          h.t \in {"request", "close"} /\ (h.t = "request" => OfDeno(h))
    BY <1>5, <2>0 DEF FrameInv
  <2>3. \A h \in Elems(Told') : Final(h)
    BY <1>3, <1>4, <1>10, <2>0 DEF FrameInv
  <2> QED BY <2>1, <2>2, <2>3, ReadFrames
<1>13. DistinctInv'
  BY <1>5, <1>10, <1>p DEF DistinctInv, UInv, ReadOne
<1>14. AnnounceInv'
  BY <1>3, <1>4, <1>5, <1>10 DEF AnnounceInv, UInv, ReadOne
<1> QED BY <1>11, <1>12, <1>13, <1>14 DEF UInv

(* Whatever the client has sent is routed (desktop_devtools.rs:1090-1136,   *)
(* 1237-1319).                                                              *)
LEMMA ClientRoutes ==
  ASSUME Types, UInv, ReadClient
  PROVE  UInv'
<1> SUFFICES ASSUME NEW f, f = Head(inbox["client"]), ReadOne(f) PROVE UInv'
  BY ClientRead
<1>1. f \in Frame /\ (f \in {Ping, Close} \/ (f.t = "request" /\ Mine(f)))
  BY DEF ReadOne, UInv, FrameInv
<1>q. outgoing \in [Peer -> Seq(Frame)] /\ "client" \in Peer /\ "cef" \in Peer
  BY DEF Types, MuxTypeOK, Peer, Upstream
<1>2. CASE f.t = "request" /\ Route(f)
  <2>1. CASE f.s = "deno"
    BY <1>2, <2>1, DenoRoutes DEF Route
  <2>2. CASE f.s # "deno"
    <3>1. /\ announced' = (announced \/ f.m = "autoAttach")
          /\ outgoing' = Send(Send(outgoing, "client", Announcement(f) \o LocalAnswer(f)),
                           "cef", IF LocalAnswer(f) = <<>> THEN <<f>> ELSE <<>>)
      BY <1>2, <2>2 DEF Route
    <3>2. CASE f.m \in {"attachDeno", "detachDeno"}
      <4>1. Announcement(f) = <<>> /\ announced' = announced
        BY <3>1, <3>2 DEF Announcement, Types, MuxTypeOK
      <4>2. LocalAnswer(f) # <<>> /\ LocalAnswer(f) \in Seq(Frame)
        <5>1. LocalAnswer(f) \in Seq(Frame)
          BY <1>1, FramesTyped
        <5>2. LocalAnswer(f) # <<>>
          BY <3>2 DEF LocalAnswer
        <5> QED BY <5>1, <5>2
      <4>3. <<>> \o LocalAnswer(f) = LocalAnswer(f)
        BY <4>2
      <4>4. Send(outgoing, "client", LocalAnswer(f)) \in [Peer -> Seq(Frame)]
        BY <1>q, <4>2, SendTyped
      <4>5. outgoing' = Send(Send(outgoing, "client", LocalAnswer(f)), "cef", <<>>)
        BY <3>1, <4>1, <4>2, <4>3
      <4>6. outgoing' = Send(outgoing, "client", LocalAnswer(f))
        BY <1>q, <4>4, <4>5, SendNone
      <4> QED BY <1>2, <2>2, <3>2, <4>1, <4>6, LocalRoutes
    <3>3. CASE f.m \notin {"attachDeno", "detachDeno"}
      <4>1. LocalAnswer(f) = <<>>
        BY <3>3 DEF LocalAnswer
      <4>2. Announcement(f) \o <<>> = Announcement(f)
        <5>1. Announcement(f) \in Seq(Frame)
          BY <1>1, FramesTyped
        <5>2. \A t \in Seq(Frame) : t \o <<>> = t
          OBVIOUS
        <5> QED BY <5>1, <5>2
      <4>3. outgoing' = Send(Send(outgoing, "client", Announcement(f)), "cef", <<f>>)
        BY <3>1, <4>1, <4>2
      <4> QED BY <1>2, <2>2, <3>1, <4>1, <4>3, CefRoutes
    <3> QED BY <3>2, <3>3
  <2> QED BY <2>1, <2>2
<1>3. CASE f.t # "request" /\ announced' = announced
           /\ \/ f.t = "close" /\ outgoing' = Send(Send(outgoing, "cef", <<f>>), "deno", <<f>>)
              \/ outgoing' = Send(outgoing, "cef", <<f>>)
  <2>1. f \in {Ping, Close} /\ (f.t = "close" => f = Close)
    BY <1>1, <1>3 DEF Ping, F
  <2>2. PICK q : q = Send(outgoing, "cef", <<f>>)
    OBVIOUS
  <2>3. q \in [Peer -> Seq(Frame)]
    BY <1>1, <1>q, <2>2, SendOne
  <2>4. outgoing' = q \/ (f = Close /\ outgoing' = Send(q, "deno", <<f>>))
    BY <1>3, <2>1, <2>2
  <2> QED BY <1>3, <2>1, <2>2, <2>3, <2>4, CloseRoutes
<1>4. \/ f.t = "request" /\ Route(f)
      \/ /\ f.t # "request" /\ announced' = announced
         /\ \/ f.t = "close" /\ outgoing' = Send(Send(outgoing, "cef", <<f>>), "deno", <<f>>)
            \/ outgoing' = Send(outgoing, "cef", <<f>>)
  BY DEF ReadClient
<1> QED BY <1>2, <1>3, <1>4

(* ---- the theorems --------------------------------------------------------------- *)

(* No step takes the routing of a unified session away                      *)
(* (desktop_devtools.rs:1013-1219).                                         *)
LEMMA UnifiedKept ==
  ASSUME Types, Types', kind = "unified" => UInv, [MuxNext]_muxVars, kind' = "unified"
  PROVE  UInv'
<1>1. ASSUME NEW r \in Requests, Upgrade(r) PROVE UInv'
  BY <1>1, UpgradeRoutes
<1>2. ASSUME kind' = kind PROVE UInv
  BY <1>2
<1>k. UNCHANGED muxVars \/ (\E r \in Requests : Poll(r)) \/ Mux \/ Environment => kind' = kind
  BY DEF muxVars, Poll, Mux, Environment, Connected, ConnectFails, InjectRead, InjectFails, ReadClient,
         Teardown, ProxyDone, ReadUpstream, Write, ReadFails, Pump, Ask, Answer, MuxEvent, Leave
<1>3. CASE UNCHANGED muxVars
  BY <1>2, <1>3, <1>k, IdleRoutes DEF muxVars, wires, talk
<1>4. ASSUME NEW r \in Requests, Poll(r) PROVE UInv'
  BY <1>2, <1>4, <1>k, IdleRoutes DEF Poll, wires, talk
<1>5. CASE Mux
  <2>0. UInv /\ kind = "unified"
    BY <1>2, <1>5, <1>k
  <2>1. CASE Connected
    BY <2>0, <2>1, ConnectRoutes
  <2>2. CASE ConnectFails \/ Teardown
    BY <2>0, <2>2, OverRoutes DEF ConnectFails, Teardown
  <2>3. CASE InjectRead
    BY <2>0, <2>3, InjectRoutes
  <2>4. CASE InjectFails
    BY <2>0, <2>4, OverRoutes DEF InjectFails
  <2>5. CASE ReadClient
    BY <2>0, <2>5, ClientRoutes
  <2>6. ASSUME NEW u \in Upstream, ReadUpstream(u) PROVE UInv'
    BY <2>0, <2>6, UpstreamRoutes
  <2>7. ASSUME NEW p \in Peer, Write(p) PROVE UInv'
    BY <2>0, <2>7, WriteClientRoutes, WriteUpstreamRoutes DEF Peer
  <2>8. ASSUME NEW p \in Peer, ReadFails(p) PROVE UInv'
    BY <2>0, <2>8, IdleRoutes DEF ReadFails, talk
  <2>9. ~ProxyDone /\ \A p \in Peer : ~Pump(p)
    BY <2>0 DEF ProxyDone, Pump, Proxied, Upstream
  <2> QED BY <1>5, <2>1, <2>2, <2>3, <2>4, <2>5, <2>6, <2>7, <2>8, <2>9 DEF Mux
<1>6. CASE Environment
  <2>0. UInv
    BY <1>2, <1>6, <1>k
  <2>1. ASSUME NEW m \in Methods, NEW s \in SessionsOf(m), Ask(m, s) PROVE UInv'
    BY <2>0, <2>1, AskRoutes
  <2>2. ASSUME NEW u \in Upstream, NEW f \in todo[u], Answer(u, f) PROVE UInv'
    BY <2>0, <2>2, AnswerRoutes
  <2>3. ASSUME NEW p \in Peer, MuxEvent(p) PROVE UInv'
    <3>1. PICK f : f = IF p = "client" THEN Ping ELSE F("event", 0, "main realm", "none")
      OBVIOUS
    <3>2. inbox' = [inbox EXCEPT ![p] = Append(@, f)]
          /\ UNCHANGED <<phase, outgoing, writer, announced, acks, asked, got, todo>>
      BY <2>3, <3>1 DEF MuxEvent, Utter, talk
    <3>3. /\ f \in {Ping, Close, F("event", 0, "main realm", "none")}
          /\ f = Ping => p = "client"
          /\ f.t = "event" => p # "client"
      BY <3>1 DEF Ping, F
    <3> QED BY <2>0, <3>2, <3>3, PlainRoutes
  <2>4. ASSUME NEW p \in Peer, Leave(p) PROVE UInv'
    <3>1. /\ UNCHANGED <<phase, outgoing, writer, announced, acks, asked, got, todo>>
          /\ inbox' = inbox \/ inbox' = [inbox EXCEPT ![p] = Append(@, Close)]
      <4>1. UNCHANGED <<phase, outgoing, writer, announced, acks, asked, got, todo>>
        BY <2>4 DEF Leave, talk
      <4>2. PICK polite \in BOOLEAN :
              inbox' = [inbox EXCEPT ![p] = IF polite THEN Append(@, Close) ELSE @]
        BY <2>4 DEF Leave
      <4>3. CASE polite
        BY <4>1, <4>2, <4>3
      <4>4. CASE ~polite
        BY <4>1, <4>2, <4>4 DEF Types, MuxTypeOK
      <4> QED BY <4>3, <4>4
    <3>2. CASE inbox' = inbox
      BY <2>0, <3>1, <3>2, IdleRoutes
    <3>3. CASE inbox' = [inbox EXCEPT ![p] = Append(@, Close)]
      <4>1. Close # Ping /\ Close.t # "event"
        BY DEF Close, Ping, F
      <4> QED BY <2>0, <3>1, <3>3, <4>1, PlainRoutes
    <3> QED BY <3>1, <3>2, <3>3
  <2> QED BY <1>6, <2>1, <2>2, <2>3, <2>4 DEF Environment
<1> QED BY <1>1, <1>3, <1>4, <1>5, <1>6 DEF MuxNext

(* Type correctness of the mux, its channels and its peers                  *)
(* (desktop_devtools.rs:190-244, 304-387).                                  *)
THEOREM MuxTypeCorrect == MuxSpec => []MuxTypeOK
<1> QED BY MuxStarts, MuxTyped, PTL DEF MuxSpec

(* Frames stay routed by their session (desktop_devtools.rs:1013-1219).     *)
LEMMA MuxInvariance == MuxSpec => [](Types /\ (kind = "unified" => UInv))
<1> DEFINE I == Types /\ (kind = "unified" => UInv)
<1>1. MuxInit => I
  <2>1. MuxInit => kind # "unified"
    BY DEF MuxInit
  <2> QED BY <2>1, MuxStarts DEF Types
<1>2. I /\ [MuxNext]_muxVars => I'
  <2> SUFFICES ASSUME I, [MuxNext]_muxVars PROVE I'
    OBVIOUS
  <2>1. Types'
    BY MuxTyped, IdleKept DEF Types
  <2> QED BY <2>1, UnifiedKept
<1> HIDE DEF I
<1>3. MuxSpec => []I
  BY <1>1, <1>2, PTL DEF MuxSpec
<1> QED BY <1>3 DEF I

(* RoutedBySession: an isolate receives only what is addressed to it, and   *)
(* every reply answers one request of the client, once, in its session      *)
(* (desktop_devtools.rs:978-1000, 1237-1359), for any number of requests    *)
(* and events.                                                              *)
THEOREM MuxRoutes == MuxSpec => []RoutedBySession
<1>1. Types /\ (kind = "unified" => UInv) => RoutedBySession
  BY RoutedFromInv DEF RoutedBySession
<1> QED BY <1>1, MuxInvariance, PTL

(* AnnouncedInTime: the client hears of Deno at most once, after it has     *)
(* asked for targets and before it is told that this was all                *)
(* (desktop_devtools.rs:1269-1277).                                         *)
THEOREM MuxAnnounces == MuxSpec => []AnnouncedInTime
<1>1. Types /\ (kind = "unified" => UInv) => AnnouncedInTime
  BY RoutedFromInv DEF AnnouncedInTime
<1> QED BY <1>1, MuxInvariance, PTL
=============================================================================
