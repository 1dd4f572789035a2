----------------------------- MODULE UpdatesProofs -----------------------------
(***************************************************************************)
(* Proofs about module Updates, for any channels, versions, threads, parts *)
(* of an installer and room for events.  The threads never wait for each   *)
(* other; what keeps their files apart is that the window starts a thread  *)
(* only when it knows of no other one, so the invariants count answers.    *)
(***************************************************************************)
EXTENDS Updates, SequenceTheorems, TLAPS

\* A process that has ended has left no thread, no event and no offer.
ClosedInv == ~open => manager = Fresh(FALSE) /\ thread = NoThreads /\ events = <<>>

\* Who writes to a file that has a name, has that file.
HasFile(w) ==
  w.phase = "write" => /\ w.file = "temp" => temp[w.offer.version] # None
                       /\ w.file = "final" => final[w.offer.version] # None

OpenFilesInv == \A t \in Threads : HasFile(thread[t])

\* What a thread, an event, the page or the script is about passes for newer than what
\* is installed.
NewerEvent(e) == e.kind \in {"Available", "Downloaded"} => IsNewer(e.offer.version, running)

NewerTask(w) ==
  /\ w.phase \in {"fetch", "write", "swap"} => IsNewer(w.offer.version, running)
  /\ w.phase = "post" => NewerEvent(w.event)

NewerInv ==
  /\ \A t \in Threads : NewerTask(thread[t])
  /\ \A i \in 1 .. Len(events) : NewerEvent(events[i])
  /\ manager.available # None => IsNewer(manager.available.version, running)
  /\ manager.downloaded # None => IsNewer(manager.downloaded.version, running)
  /\ scheduled # None => IsNewer(scheduled, running)

\* At most one answer of a kind is on its way.
OneAnswer(kind) ==
  /\ \A i, j \in 1 .. Len(events) : events[i].from = kind /\ events[j].from = kind => i = j
  /\ \A t, u \in Threads : Owes(thread[t], kind) /\ Owes(thread[u], kind) => t = u
  /\ \A i \in 1 .. Len(events), t \in Threads :
       ~(events[i].from = kind /\ Owes(thread[t], kind))

SpinnerInv(kind, spinner) ==
  kind \in crossed \/ (OneAnswer(kind) /\ (open => (spinner <=> Outstanding(kind))))

SpinnersInv ==
  SpinnerInv("check", manager.checking) /\ SpinnerInv("download", manager.downloading)

\* How far the one download is, file by file.
Loaded(e) == e.kind = "Downloaded" => final[e.offer.version] = Whole

FileOf(w) ==
  /\ w.phase = "write" => w.file = "temp" /\ temp[w.offer.version] = 1 .. w.at
  /\ w.phase = "swap" => temp[w.offer.version] = Whole
  /\ w.phase = "post" => Loaded(w.event)

Ready(v) == final[v] = Whole /\ ~Outstanding("download")

FilesInv ==
  "download" \in crossed
    \/ /\ \A t \in Threads : FileOf(thread[t])
       /\ \A i \in 1 .. Len(events) : Loaded(events[i])
       /\ manager.downloaded # None => Ready(manager.downloaded.version)
       /\ scheduled # None => Ready(scheduled)

BasicInv == TypeOK /\ OpenFilesInv /\ ClosedInv /\ NewerInv

UpdatesInv == BasicInv /\ SpinnersInv /\ FilesInv

-----------------------------------------------------------------------------
(* Offers, events and tasks.                                               *)

LEMMA Bounds == /\ MaxVersion \in Nat /\ Parts \in Nat /\ MaxThreads \in Nat /\ MaxEvents \in Nat
                /\ MaxVersion > 0 /\ MaxThreads > 0 /\ 1 \in Threads /\ 1 \in Versions
                /\ Versions \subseteq Nat /\ Threads \subseteq Nat
  BY UpdatesAssumption DEF Versions, Threads

LEMMA OfferShape ==
  /\ \A o \in Offers : o.channel \in Channels /\ o.version \in Versions
  /\ \A c \in Channels, v \in Versions :
       LET o == [channel |-> c, version |-> v]
       IN  o \in Offers /\ o.channel = c /\ o.version = v
  BY DEF Offers

LEMMA EventShape ==
  ASSUME NEW e \in UpdateEvents
  PROVE  /\ e.kind \in {"Current", "Available", "Downloaded", "Error"}
         /\ e.from \in {"check", "download"}
         /\ e.kind \in {"Current", "Available"} => e.from = "check"
         /\ e.kind = "Downloaded" => e.from = "download"
         /\ e.kind \in {"Available", "Downloaded"} => e.offer \in Offers
  BY DEF UpdateEvents, Current, Available, Downloaded, Error

LEMMA EventsMade ==
  /\ Current \in UpdateEvents /\ Current.kind = "Current"
  /\ \A f \in {"check", "download"} :
       Error(f) \in UpdateEvents /\ Error(f).kind = "Error" /\ Error(f).from = f
  /\ \A o \in Offers :
       /\ Available(o) \in UpdateEvents /\ Available(o).kind = "Available" /\ Available(o).offer = o
       /\ Downloaded(o) \in UpdateEvents /\ Downloaded(o).kind = "Downloaded"
       /\ Downloaded(o).offer = o
  BY DEF UpdateEvents, Current, Available, Downloaded, Error

LEMMA TaskShape ==
  ASSUME NEW w \in Tasks
  PROVE  /\ w.phase \in {"idle", "check", "fetch", "write", "swap", "post"}
         /\ w.phase = "idle" => w = Idle
         /\ w.phase = "check" => w.channel \in Channels
         /\ w.phase \in {"fetch", "write", "swap"} => w.offer \in Offers
         /\ w.phase = "write" => /\ w.at \in 0 .. Parts /\ w.file \in Places
                                /\ w = Writing(w.offer, w.at, w.file)
         /\ w.phase = "post" => w.event \in UpdateEvents
  BY DEF Tasks, Idle, Asking, Fetching, Writing, Swapping, Posting

LEMMA TasksMade ==
  /\ Idle \in Tasks /\ Idle.phase = "idle"
  /\ \A c \in Channels : /\ Asking(c) \in Tasks /\ Asking(c).phase = "check"
                          /\ Asking(c).channel = c
  /\ \A o \in Offers :
       /\ Fetching(o) \in Tasks /\ Fetching(o).phase = "fetch" /\ Fetching(o).offer = o
       /\ Swapping(o) \in Tasks /\ Swapping(o).phase = "swap" /\ Swapping(o).offer = o
  /\ \A e \in UpdateEvents : /\ Posting(e) \in Tasks /\ Posting(e).phase = "post"
                              /\ Posting(e).event = e
<1>1. Idle \in Tasks /\ Idle.phase = "idle"
  BY DEF Tasks, Idle
<1>2. ASSUME NEW c \in Channels
      PROVE  Asking(c) \in Tasks /\ Asking(c).phase = "check" /\ Asking(c).channel = c
  BY DEF Tasks, Asking
<1>3. ASSUME NEW o \in Offers
      PROVE  /\ Fetching(o) \in Tasks /\ Fetching(o).phase = "fetch" /\ Fetching(o).offer = o
             /\ Swapping(o) \in Tasks /\ Swapping(o).phase = "swap" /\ Swapping(o).offer = o
  BY DEF Tasks, Fetching, Swapping
<1>4. ASSUME NEW e \in UpdateEvents
      PROVE  Posting(e) \in Tasks /\ Posting(e).phase = "post" /\ Posting(e).event = e
  BY DEF Tasks, Posting
<1>5. QED
  BY <1>1, <1>2, <1>3, <1>4

LEMMA WritingMade ==
  ASSUME NEW o \in Offers, NEW n \in 0 .. Parts, NEW p \in Places
  PROVE  /\ Writing(o, n, p) \in Tasks
         /\ Writing(o, n, p).phase = "write" /\ Writing(o, n, p).offer = o
         /\ Writing(o, n, p).at = n /\ Writing(o, n, p).file = p
         /\ \A m : [Writing(o, n, p) EXCEPT !.at = m] = Writing(o, m, p)
         /\ \A q : [Writing(o, n, p) EXCEPT !.file = q] = Writing(o, n, q)
  BY DEF Tasks, Writing

\* Renaming or removing a file changes where other downloads write, if anything.
Alike(w, x) ==
  \/ x = w
  \/ /\ w.phase = "write" /\ x.phase = "write" /\ x.offer = w.offer /\ x.at = w.at

LEMMA MovedShape ==
  ASSUME TypeOK, NEW v, NEW from \in Places, NEW to \in Places, NEW u \in Threads
  PROVE  /\ Moved(v, from, to)[u] \in Tasks
         /\ Alike(thread[u], Moved(v, from, to)[u])
         /\ thread[u].phase # "write" => Moved(v, from, to)[u] = thread[u]
<1>1. thread[u] \in Tasks
  BY DEF TypeOK
<1> DEFINE w == thread[u]
           x == Moved(v, from, to)[u]
<1>2. x = IF w.phase = "write" /\ w.offer.version = v /\ w.file = from
          THEN [w EXCEPT !.file = to] ELSE w
  BY DEF Moved
<1>3. CASE w.phase = "write"
  <2>1. w.offer \in Offers /\ w.at \in 0 .. Parts /\ w = Writing(w.offer, w.at, w.file)
        /\ w.file \in Places
    BY <1>1, <1>3, TaskShape
  <2>2. [w EXCEPT !.file = to] = Writing(w.offer, w.at, to)
    BY <2>1, WritingMade
  <2>3. QED
    BY <1>1, <1>2, <1>3, <2>1, <2>2, WritingMade DEF Alike
<1>4. CASE w.phase # "write"
  BY <1>1, <1>2, <1>4 DEF Alike
<1>5. QED
  BY <1>3, <1>4

\* What a step of one thread does to the threads: it goes on to a task of its
\* own, and the others stay as they are but for the files they write.
Advances(t, task) ==
  /\ task \in Tasks /\ thread' \in [Threads -> Tasks] /\ thread'[t] = task
  /\ \A u \in Threads \ {t} : Alike(thread[u], thread'[u])

LEMMA BecomesShape ==
  ASSUME TypeOK, NEW t \in Threads, NEW task \in Tasks, Becomes(t, task)
  PROVE  Advances(t, task) /\ \A u \in Threads \ {t} : thread'[u] = thread[u]
  BY DEF TypeOK, Becomes, Advances, Alike

LEMMA SpawnShape ==
  ASSUME TypeOK, NEW t \in Threads, NEW task \in Tasks, Spawn(t, task)
  PROVE  /\ thread[t] = Idle /\ Advances(t, task)
         /\ \A u \in Threads \ {t} : thread'[u] = thread[u]
  BY DEF TypeOK, Spawn, Advances, Alike

-----------------------------------------------------------------------------
(* Types.                                                                  *)

Files == [Versions -> (SUBSET Whole) \union {None}]

LEMMA FileChanged ==
  ASSUME NEW file \in Files, NEW v \in Versions, NEW x \in (SUBSET Whole) \union {None}
  PROVE  /\ [file EXCEPT ![v] = x] \in Files /\ [file EXCEPT ![v] = x][v] = x
         /\ \A u \in Versions \ {v} : [file EXCEPT ![v] = x][u] = file[u]
  BY DEF Files

LEMMA NoneIsNoFile == \A x \in SUBSET Whole : x # None
  BY UpdatesAssumption DEF Whole

LEMMA FilesTyped == ASSUME TypeOK PROVE temp \in Files /\ final \in Files
  BY DEF TypeOK, Files

\* The steps of a thread on its way to an answer, all but the last.
Works(t) ==
  \/ Answer(t) \/ CreateFile(t) \/ PutPart(t) \/ Verify(t) \/ Mismatch(t)
  \/ Rename(t) \/ Fail(t)

LEMMA AnswerShape ==
  ASSUME TypeOK, NEW t \in Threads, Answer(t)
  PROVE  \E e \in UpdateEvents :
           /\ thread[t].phase = "check" /\ Becomes(t, Posting(e)) /\ UNCHANGED files
           /\ e.from = "check" /\ e.kind # "Downloaded" /\ NewerEvent(e)
<1> DEFINE c == thread[t].channel
<1>1. thread[t].phase = "check" /\ c \in Channels /\ feed[c] \in Versions /\ UNCHANGED files
  BY TaskShape DEF TypeOK, Answer
<1> DEFINE o == [channel |-> c, version |-> feed[c]]
<1>2. o \in Offers /\ o.version = feed[c]
  BY <1>1, OfferShape
<1>3. PICK e \in {IF IsNewer(feed[c], running) THEN Available(o) ELSE Current, Error("check")} :
        Becomes(t, Posting(e))
  BY DEF Answer
<1> HIDE DEF o, c
<1>4. e \in UpdateEvents
  BY <1>2, <1>3, EventsMade
<1>5. e.kind # "Downloaded" /\ e.from = "check"
  BY <1>2, <1>3, EventsMade DEF Current, Available, Error
<1>6. NewerEvent(e)
  <2>1. CASE e = Available(o) /\ IsNewer(feed[c], running)
    BY <1>1, <1>2, <2>1, EventsMade, Bounds DEF IsNewer, NewerEvent, TypeOK
  <2>2. CASE e = Current \/ e = Error("check")
    BY <2>2, EventsMade DEF NewerEvent
  <2>3. QED
    BY <1>3, <2>1, <2>2
<1>7. QED
  BY <1>1, <1>3, <1>4, <1>5, <1>6

LEMMA CreateShape ==
  ASSUME TypeOK, NEW t \in Threads, CreateFile(t)
  PROVE  \E o \in Offers :
           /\ thread[t].phase = "fetch" /\ thread[t].offer = o
           /\ Becomes(t, Writing(o, 0, "temp")) /\ Writing(o, 0, "temp") \in Tasks
           /\ temp' = [temp EXCEPT ![o.version] = {}] /\ final' = final
<1>1. thread[t].phase = "fetch" /\ thread[t].offer \in Offers
  BY TaskShape DEF TypeOK, CreateFile
<1>2. 0 \in 0 .. Parts /\ "temp" \in Places
  BY Bounds DEF Places
<1>3. Writing(thread[t].offer, 0, "temp") \in Tasks
  BY <1>1, <1>2, WritingMade
<1>4. QED
  BY <1>1, <1>3 DEF CreateFile

LEMMA WritingTask ==
  ASSUME TypeOK, NEW t \in Threads, thread[t].phase = "write"
  PROVE  \E o \in Offers, n \in 0 .. Parts, p \in Places :
           /\ thread[t] = Writing(o, n, p) /\ o.version \in Versions
           /\ thread[t].offer = o /\ thread[t].at = n /\ thread[t].file = p
<1>1. thread[t] \in Tasks
  BY DEF TypeOK
<1>2. QED
  BY <1>1, TaskShape, OfferShape

LEMMA PutShape ==
  ASSUME TypeOK, NEW t \in Threads, HasFile(thread[t]), PutPart(t)
  PROVE  \E o \in Offers, n \in 0 .. Parts, p \in Places :
           /\ thread[t] = Writing(o, n, p) /\ n + 1 \in 0 .. Parts /\ n + 1 \in Whole
           /\ Becomes(t, Writing(o, n + 1, p))
           /\ IF p = "temp"
              THEN /\ temp[o.version] \in SUBSET Whole
                   /\ temp' = [temp EXCEPT ![o.version] = temp[o.version] \union {n + 1}]
              ELSE temp' = temp
           /\ IF p = "final"
              THEN /\ final[o.version] \in SUBSET Whole
                   /\ final' = [final EXCEPT ![o.version] = final[o.version] \union {n + 1}]
              ELSE final' = final
<1>1. PICK o \in Offers, n \in 0 .. Parts, p \in Places :
        /\ thread[t] = Writing(o, n, p) /\ o.version \in Versions
        /\ thread[t].offer = o /\ thread[t].at = n /\ thread[t].file = p
  BY WritingTask DEF PutPart, Put
<1>2. thread[t].phase = "write" /\ n < Parts
  BY <1>1 DEF PutPart, Put
<1>3. n + 1 \in 0 .. Parts /\ n + 1 \in Whole
  BY <1>2, Bounds DEF Whole
<1>4. [thread[t] EXCEPT !.at = thread[t].at + 1] = Writing(o, n + 1, p)
  BY <1>1, WritingMade
<1>5. Becomes(t, Writing(o, n + 1, p))
  BY <1>4 DEF PutPart, Put
<1>6. /\ temp' = IF p = "temp" THEN [temp EXCEPT ![o.version] = temp[o.version] \union {n + 1}] ELSE temp
      /\ final' = IF p = "final" THEN [final EXCEPT ![o.version] = final[o.version] \union {n + 1}] ELSE final
  BY <1>1 DEF PutPart, Put
<1>7. /\ p = "temp" => temp[o.version] \in SUBSET Whole
      /\ p = "final" => final[o.version] \in SUBSET Whole
  BY <1>1, <1>2, FilesTyped DEF HasFile, Files
<1>8. QED
  BY <1>1, <1>3, <1>5, <1>6, <1>7

LEMMA VerifyShape ==
  ASSUME TypeOK, NEW t \in Threads, Verify(t)
  PROVE  \E o \in Offers, p \in Places :
           /\ thread[t] = Writing(o, Parts, p) /\ temp' = temp
           /\ final' = [final EXCEPT ![o.version] = None]
           /\ Advances(t, Swapping(o))
           /\ \A u \in Threads \ {t} : thread'[u] = Moved(o.version, "final", "gone")[u]
<1>1. thread[t].phase = "write" /\ thread[t].at = Parts
  BY DEF Verify, Swaps
<1>2. PICK o \in Offers, n \in 0 .. Parts, p \in Places :
        /\ thread[t] = Writing(o, n, p) /\ o.version \in Versions
        /\ thread[t].offer = o /\ thread[t].at = n /\ thread[t].file = p
  BY <1>1, WritingTask
<1>3. /\ temp' = temp /\ final' = [final EXCEPT ![o.version] = None]
      /\ thread' = [Moved(o.version, "final", "gone") EXCEPT ![t] = Swapping(o)]
  BY <1>2 DEF Verify, Swaps
<1>4. Swapping(o) \in Tasks /\ {"final", "gone"} \subseteq Places
  BY TasksMade DEF Places
<1>5. /\ thread'[t] = Swapping(o) /\ DOMAIN thread' = Threads
      /\ thread' = [u \in Threads |-> thread'[u]]
      /\ \A u \in Threads \ {t} : thread'[u] = Moved(o.version, "final", "gone")[u]
  BY <1>3 DEF Moved
<1>6. \A u \in Threads : thread'[u] \in Tasks
  BY <1>4, <1>5, MovedShape
<1>7. Advances(t, Swapping(o))
  BY <1>4, <1>5, <1>6, MovedShape DEF Advances
<1>8. thread[t] = Writing(o, Parts, p)
  BY <1>1, <1>2
<1>9. WITNESS o \in Offers, p \in Places
<1>10. QED
  BY <1>3, <1>5, <1>7, <1>8

LEMMA MismatchShape ==
  ASSUME TypeOK, NEW t \in Threads, Mismatch(t)
  PROVE  \E o \in Offers, n \in 0 .. Parts, p \in Places :
           /\ thread[t] = Writing(o, n, p) /\ final' = final
           /\ temp' = [temp EXCEPT ![o.version] = None]
           /\ Advances(t, Posting(Error("download")))
           /\ \A u \in Threads \ {t} : thread'[u] = Moved(o.version, "temp", "gone")[u]
<1>1. thread[t].phase = "write"
  BY DEF Mismatch
<1>2. PICK o \in Offers, n \in 0 .. Parts, p \in Places :
        /\ thread[t] = Writing(o, n, p) /\ o.version \in Versions
        /\ thread[t].offer = o /\ thread[t].at = n /\ thread[t].file = p
  BY <1>1, WritingTask
<1> DEFINE task == Posting(Error("download"))
<1>3. /\ final' = final /\ temp' = [temp EXCEPT ![o.version] = None]
      /\ thread' = [Moved(o.version, "temp", "gone") EXCEPT ![t] = task]
  BY <1>2 DEF Mismatch
<1>4. task \in Tasks /\ {"temp", "gone"} \subseteq Places
  BY TasksMade, EventsMade DEF Places
<1> HIDE DEF task
<1>5. /\ thread'[t] = task /\ thread' = [u \in Threads |-> thread'[u]]
      /\ \A u \in Threads \ {t} : thread'[u] = Moved(o.version, "temp", "gone")[u]
  BY <1>3 DEF Moved
<1>6. \A u \in Threads : thread'[u] \in Tasks
  BY <1>4, <1>5, MovedShape
<1>7. Advances(t, task)
  BY <1>4, <1>5, <1>6, MovedShape DEF Advances
<1>8. WITNESS o \in Offers, n \in 0 .. Parts, p \in Places
<1>9. QED
  BY <1>2, <1>3, <1>5, <1>7 DEF task

LEMMA RenameShape ==
  ASSUME TypeOK, NEW t \in Threads, Rename(t)
  PROVE  \E o \in Offers :
           /\ thread[t].phase = "swap" /\ thread[t].offer = o /\ temp[o.version] \in SUBSET Whole
           /\ temp' = [temp EXCEPT ![o.version] = None]
           /\ final' = [final EXCEPT ![o.version] = temp[o.version]]
           /\ Advances(t, Posting(Downloaded(o)))
           /\ \A u \in Threads \ {t} :
                thread'[u] = IF thread[u] = Moved(o.version, "final", "gone")[u]
                             THEN Moved(o.version, "temp", "final")[u]
                             ELSE Moved(o.version, "final", "gone")[u]
<1> DEFINE o == thread[t].offer
<1>1. thread[t].phase = "swap" /\ o \in Offers /\ o.version \in Versions /\ temp[o.version] # None
  BY TaskShape, OfferShape DEF TypeOK, Rename
<1>2. temp[o.version] \in SUBSET Whole
  BY <1>1, FilesTyped DEF Files
<1> DEFINE task == Posting(Downloaded(o))
           m(u) == IF thread[u] = Moved(o.version, "final", "gone")[u]
                   THEN Moved(o.version, "temp", "final")[u]
                   ELSE Moved(o.version, "final", "gone")[u]
<1>3. /\ temp' = [temp EXCEPT ![o.version] = None]
      /\ final' = [final EXCEPT ![o.version] = temp[o.version]]
      /\ thread' = [u \in Threads |-> IF u = t THEN task ELSE m(u)]
  BY DEF Rename
<1>4. task \in Tasks /\ {"temp", "final", "gone"} \subseteq Places
  BY <1>1, TasksMade, EventsMade DEF Places
<1>5. \A u \in Threads : m(u) \in Tasks /\ Alike(thread[u], m(u))
  BY <1>4, MovedShape
<1>6. /\ thread'[t] = task /\ thread' \in [Threads -> Tasks]
      /\ \A u \in Threads \ {t} : thread'[u] = m(u)
  <2> HIDE DEF task, m
  <2>1. QED
    BY <1>3, <1>4, <1>5
<1>7. Advances(t, task)
  BY <1>4, <1>5, <1>6 DEF Advances
<1>8. QED
  BY <1>1, <1>2, <1>3, <1>6, <1>7

LEMMA FailShape ==
  ASSUME TypeOK, NEW t \in Threads, Fail(t)
  PROVE  /\ thread[t].phase \in {"fetch", "write", "swap"} /\ UNCHANGED files
         /\ Becomes(t, Posting(Error("download"))) /\ Posting(Error("download")) \in Tasks
  BY TasksMade, EventsMade DEF Fail

LEMMA PostShape ==
  ASSUME TypeOK, NEW t \in Threads, Post(t)
  PROVE  \E e \in UpdateEvents :
           /\ thread[t].phase = "post" /\ thread[t].event = e
           /\ events' = Append(events, e) /\ Len(events) < MaxEvents
           /\ Becomes(t, Idle) /\ Idle \in Tasks /\ UNCHANGED files
<1>1. thread[t].phase = "post" /\ thread[t].event \in UpdateEvents
  BY TaskShape DEF TypeOK, Post
<1>2. QED
  BY <1>1, TasksMade DEF Post

\* What is the same for two tasks that differ in the file only.
LEMMA AlikeTasks ==
  ASSUME NEW w \in Tasks, NEW x \in Tasks, Alike(w, x)
  PROVE  /\ x.phase = w.phase /\ \A kind : Owes(x, kind) <=> Owes(w, kind)
         /\ NewerTask(w) => NewerTask(x)
  BY DEF Alike, Owes, NewerTask

LEMMA MovedWriter ==
  ASSUME TypeOK, NEW v, NEW from \in Places, NEW to \in Places, NEW u \in Threads,
         NEW o \in Offers, NEW n \in 0 .. Parts, NEW p \in Places, thread[u] = Writing(o, n, p)
  PROVE  Moved(v, from, to)[u] = Writing(o, n, IF o.version = v /\ p = from THEN to ELSE p)
<1>1. thread[u].phase = "write" /\ thread[u].offer = o /\ thread[u].file = p
      /\ [thread[u] EXCEPT !.file = to] = Writing(o, n, to)
  BY WritingMade
<1>2. QED
  BY <1>1 DEF Moved

\* A step on the way to an answer leaves a file to everybody who writes to one.
LEMMA WritersKeepFiles ==
  ASSUME TypeOK, OpenFilesInv, NEW t \in Threads, Works(t)
  PROVE  OpenFilesInv'
<1>a. "temp" \in Places /\ "final" \in Places /\ "gone" \in Places
  BY DEF Places
<1>b. temp \in Files /\ final \in Files
  BY FilesTyped
\* Every writer was one before, or is the thread that takes the step.
<1>1. SUFFICES ASSUME NEW u \in Threads, thread'[u].phase = "write"
               PROVE  /\ thread'[u].file = "temp" => temp'[thread'[u].offer.version] # None
                      /\ thread'[u].file = "final" => final'[thread'[u].offer.version] # None
  BY DEF OpenFilesInv, HasFile
<1>2. CASE u = t
  <2>1. CASE CreateFile(t)
    <3>1. PICK o \in Offers : /\ Becomes(t, Writing(o, 0, "temp")) /\ Writing(o, 0, "temp") \in Tasks
                              /\ temp' = [temp EXCEPT ![o.version] = {}]
      BY <2>1, CreateShape
    <3>2. thread'[u] = Writing(o, 0, "temp")
      BY <1>2, <3>1, BecomesShape DEF Advances
    <3>3. temp'[o.version] = {} /\ 0 \in 0 .. Parts
      <4> DEFINE x == {}
      <4>1. o.version \in Versions /\ x \in SUBSET Whole /\ temp' = [temp EXCEPT ![o.version] = x]
        BY <3>1, OfferShape
      <4> HIDE DEF x
      <4>2. temp'[o.version] = x
        BY <1>b, <4>1, FileChanged
      <4>3. QED
        BY <4>2, Bounds DEF x
    <3>4. QED
      BY <1>a, <3>2, <3>3, WritingMade, NoneIsNoFile
  <2>2. CASE PutPart(t)
    <3>1. PICK o \in Offers, n \in 0 .. Parts, p \in Places :
           /\ thread[t] = Writing(o, n, p) /\ n + 1 \in 0 .. Parts /\ n + 1 \in Whole
           /\ Becomes(t, Writing(o, n + 1, p))
           /\ IF p = "temp"
              THEN /\ temp[o.version] \in SUBSET Whole
                   /\ temp' = [temp EXCEPT ![o.version] = temp[o.version] \union {n + 1}]
              ELSE temp' = temp
           /\ IF p = "final"
              THEN /\ final[o.version] \in SUBSET Whole
                   /\ final' = [final EXCEPT ![o.version] = final[o.version] \union {n + 1}]
              ELSE final' = final
      BY <2>2, PutShape DEF OpenFilesInv
    <3>2. Writing(o, n + 1, p) \in Tasks /\ Writing(o, n + 1, p).offer = o
          /\ Writing(o, n + 1, p).file = p /\ o.version \in Versions
      BY <3>1, WritingMade, OfferShape
    <3>3. thread'[u] = Writing(o, n + 1, p)
      BY <1>2, <3>1, <3>2, BecomesShape DEF Advances
    <3>4. CASE p = "temp"
      <4> DEFINE x == temp[o.version] \union {n + 1}
      <4>1. x \in SUBSET Whole /\ temp' = [temp EXCEPT ![o.version] = x]
        BY <3>1, <3>4
      <4> HIDE DEF x
      <4>2. temp'[o.version] = x
        BY <1>b, <3>2, <4>1, FileChanged
      <4>3. QED
        BY <3>2, <3>3, <3>4, <4>1, <4>2, NoneIsNoFile
    <3>5. CASE p = "final"
      <4> DEFINE x == final[o.version] \union {n + 1}
      <4>1. x \in SUBSET Whole /\ final' = [final EXCEPT ![o.version] = x]
        BY <3>1, <3>5
      <4> HIDE DEF x
      <4>2. final'[o.version] = x
        BY <1>b, <3>2, <4>1, FileChanged
      <4>3. QED
        BY <3>2, <3>3, <3>5, <4>1, <4>2, NoneIsNoFile
    <3>6. QED
      BY <3>2, <3>3, <3>4, <3>5
  <2>3. CASE Verify(t)
    BY <1>1, <1>2, <2>3, VerifyShape, TasksMade DEF Advances
  <2>4. CASE Answer(t)
    BY <1>1, <1>2, <2>4, AnswerShape, BecomesShape, TasksMade DEF Advances
  <2>5. CASE Mismatch(t)
    BY <1>1, <1>2, <2>5, MismatchShape, TasksMade, EventsMade DEF Advances
  <2>6. CASE Rename(t)
    BY <1>1, <1>2, <2>6, RenameShape, TasksMade, EventsMade DEF Advances
  <2>7. CASE Fail(t)
    BY <1>1, <1>2, <2>7, FailShape, BecomesShape, TasksMade, EventsMade DEF Advances
  <2>8. QED
    BY <2>1, <2>2, <2>3, <2>4, <2>5, <2>6, <2>7 DEF Works
<1>3. CASE u # t
  <2>1. Alike(thread[u], thread'[u]) /\ thread'[u] \in Tasks /\ thread[u] \in Tasks
    <3>1. \E task \in Tasks : Advances(t, task)
      BY AnswerShape, CreateShape, PutShape, VerifyShape, MismatchShape, RenameShape,
         FailShape, BecomesShape, TasksMade, EventsMade, WritingMade DEF Works, OpenFilesInv
    <3>2. QED
      BY <1>3, <3>1 DEF Advances, TypeOK
  <2>2. PICK o \in Offers, n \in 0 .. Parts, p \in Places :
          /\ thread[u] = Writing(o, n, p) /\ o.version \in Versions
          /\ thread[u].offer = o /\ thread[u].at = n /\ thread[u].file = p
    BY <1>1, <2>1, AlikeTasks, WritingTask
  <2>3. (p = "temp" => temp[o.version] # None) /\ (p = "final" => final[o.version] # None)
    BY <2>2, WritingMade DEF OpenFilesInv, HasFile
  <2>4. CASE Answer(t) \/ Fail(t)
    <3>1. thread'[u] = thread[u] /\ UNCHANGED files
      BY <1>3, <2>4, AnswerShape, FailShape, BecomesShape, TasksMade
    <3>2. QED
      BY <2>2, <2>3, <3>1 DEF files
  <2>5. CASE CreateFile(t) \/ PutPart(t)
    <3>1. thread'[u] = thread[u]
      BY <1>3, <2>5, CreateShape, PutShape, BecomesShape, WritingMade DEF OpenFilesInv
    <3>2. (temp[o.version] # None => temp'[o.version] # None)
          /\ (final[o.version] # None => final'[o.version] # None)
      <4>1. CASE CreateFile(t)
        <5>1. PICK oo \in Offers : temp' = [temp EXCEPT ![oo.version] = {}] /\ final' = final
          BY <4>1, CreateShape
        <5>2. oo.version \in Versions /\ {} \in SUBSET Whole
          BY OfferShape
        <5>3. temp'[o.version] = IF o.version = oo.version THEN {} ELSE temp[o.version]
          BY <1>b, <2>2, <5>1, <5>2, FileChanged
        <5>4. QED
          BY <5>1, <5>2, <5>3, NoneIsNoFile
      <4>2. CASE PutPart(t)
        <5>1. PICK oo \in Offers, m \in 0 .. Parts, q \in Places :
               /\ thread[t] = Writing(oo, m, q) /\ m + 1 \in Whole
               /\ IF q = "temp"
                  THEN /\ temp[oo.version] \in SUBSET Whole
                       /\ temp' = [temp EXCEPT ![oo.version] = temp[oo.version] \union {m + 1}]
                  ELSE temp' = temp
               /\ IF q = "final"
                  THEN /\ final[oo.version] \in SUBSET Whole
                       /\ final' = [final EXCEPT ![oo.version] = final[oo.version] \union {m + 1}]
                  ELSE final' = final
          BY <4>2, PutShape DEF OpenFilesInv
        <5>2. \A file \in Files, x \in SUBSET Whole :
                file[o.version] # None => [file EXCEPT ![oo.version] = x][o.version] # None
          BY <2>2, FileChanged, NoneIsNoFile, OfferShape
        <5>3. QED
          BY <1>b, <5>1, <5>2
      <4>3. QED
        BY <2>5, <4>1, <4>2
    <3>3. QED
      BY <2>2, <2>3, <3>1, <3>2
  <2>6. CASE Verify(t)
    <3>1. PICK oo \in Offers :
            /\ temp' = temp /\ final' = [final EXCEPT ![oo.version] = None]
            /\ thread'[u] = Moved(oo.version, "final", "gone")[u]
      BY <1>3, <2>6, VerifyShape
    <3>2. thread'[u] = Writing(o, n, IF o.version = oo.version /\ p = "final" THEN "gone" ELSE p)
      BY <1>a, <2>2, <3>1, MovedWriter
    <3>3. o.version # oo.version => final'[o.version] = final[o.version]
      BY <1>b, <2>2, <3>1, OfferShape, FileChanged
    <3>4. QED
      BY <1>a, <2>3, <3>1, <3>2, <3>3, WritingMade
  <2>7. CASE Mismatch(t)
    <3>1. PICK oo \in Offers :
            /\ final' = final /\ temp' = [temp EXCEPT ![oo.version] = None]
            /\ thread'[u] = Moved(oo.version, "temp", "gone")[u]
      BY <1>3, <2>7, MismatchShape
    <3>2. thread'[u] = Writing(o, n, IF o.version = oo.version /\ p = "temp" THEN "gone" ELSE p)
      BY <1>a, <2>2, <3>1, MovedWriter
    <3>3. o.version # oo.version => temp'[o.version] = temp[o.version]
      BY <1>b, <2>2, <3>1, OfferShape, FileChanged
    <3>4. QED
      BY <1>a, <2>3, <3>1, <3>2, <3>3, WritingMade
  <2>8. CASE Rename(t)
    <3>1. PICK oo \in Offers :
            /\ temp[oo.version] \in SUBSET Whole
            /\ temp' = [temp EXCEPT ![oo.version] = None]
            /\ final' = [final EXCEPT ![oo.version] = temp[oo.version]]
            /\ thread'[u] = IF thread[u] = Moved(oo.version, "final", "gone")[u]
                            THEN Moved(oo.version, "temp", "final")[u]
                            ELSE Moved(oo.version, "final", "gone")[u]
      BY <1>3, <2>8, RenameShape
    <3>2. /\ Moved(oo.version, "final", "gone")[u] = Writing(o, n, IF o.version = oo.version /\ p = "final" THEN "gone" ELSE p)
          /\ Moved(oo.version, "temp", "final")[u] = Writing(o, n, IF o.version = oo.version /\ p = "temp" THEN "final" ELSE p)
      BY <1>a, <2>2, MovedWriter
    <3>3. CASE o.version = oo.version
      <4>1. final'[o.version] # None
        <5> DEFINE x == temp[oo.version]
        <5>1. x \in SUBSET Whole /\ final' = [final EXCEPT ![o.version] = x]
          BY <3>1, <3>3
        <5> HIDE DEF x
        <5>2. final'[o.version] = x
          <6>1. final \in Files /\ o.version \in Versions /\ x \in (SUBSET Whole) \union {None}
            BY <1>b, <2>2, <5>1
          <6>2. [final EXCEPT ![o.version] = x][o.version] = x
            BY <6>1 DEF Files
          <6>3. QED
            BY <5>1, <6>2
        <5>3. QED
          BY <5>1, <5>2, NoneIsNoFile
      <4>2. \E q \in {"final", "gone"} : thread'[u] = Writing(o, n, q)
        <5>1. CASE p = "final"
          <6>1. Writing(o, n, "gone") # Writing(o, n, "final")
            BY <1>a, WritingMade
          <6>2. QED
            BY <2>2, <3>1, <3>2, <3>3, <5>1, <6>1
        <5>2. CASE p # "final"
          <6>1. p \in {"temp", "gone"}
            BY <5>2 DEF Places
          <6>2. QED
            BY <2>2, <3>1, <3>2, <3>3, <5>2, <6>1
        <5>3. QED
          BY <5>1, <5>2
      <4>3. QED
        BY <1>a, <4>1, <4>2, WritingMade
    <3>4. CASE o.version # oo.version
      <4>1. thread'[u] = thread[u]
        BY <2>2, <3>1, <3>2, <3>4
      <4>2. temp'[o.version] = temp[o.version] /\ final'[o.version] = final[o.version]
        BY <1>b, <2>2, <3>1, <3>4, OfferShape, FileChanged
      <4>3. QED
        BY <2>2, <2>3, <4>1, <4>2
    <3>5. QED
      BY <3>3, <3>4
  <2>9. QED
    BY <2>4, <2>5, <2>6, <2>7, <2>8 DEF Works
<1>4. QED
  BY <1>2, <1>3

\* A step on the way to an answer owes what it owed, and goes on with an offer as
\* new as before.
LEMMA WorkShape ==
  ASSUME TypeOK, OpenFilesInv, NEW t \in Threads, Works(t)
  PROVE  /\ UNCHANGED <<outside, channel, manager, crossed, events>>
         /\ \E task \in Tasks :
              /\ Advances(t, task)
              /\ \A kind \in {"check", "download"} : Owes(task, kind) <=> Owes(thread[t], kind)
              /\ NewerTask(thread[t]) => NewerTask(task)
         /\ temp' \in Files /\ final' \in Files
<1>a. temp \in Files /\ final \in Files
  BY FilesTyped
<1>b. \A x \in SUBSET Whole : x \in (SUBSET Whole) \union {None}
  OBVIOUS
<1>c. UNCHANGED <<outside, channel, manager, crossed, events>>
  BY DEF Works, Answer, CreateFile, PutPart, Put, Verify, Swaps, Mismatch, Rename, Fail, Untouched
<1>1. CASE Answer(t)
  <2>1. PICK e \in UpdateEvents :
           /\ thread[t].phase = "check" /\ Becomes(t, Posting(e)) /\ UNCHANGED files
           /\ e.from = "check" /\ e.kind # "Downloaded" /\ NewerEvent(e)
    BY <1>1, AnswerShape
  <2> DEFINE task == Posting(e)
  <2>2. task \in Tasks /\ task.phase = "post" /\ task.event = e
    BY TasksMade
  <2> HIDE DEF task
  <2>3. Advances(t, task)
    BY <2>1, <2>2, BecomesShape DEF task
  <2>4. /\ \A kind \in {"check", "download"} : Owes(task, kind) <=> Owes(thread[t], kind)
        /\ NewerTask(task)
    BY <2>1, <2>2 DEF Owes, NewerTask
  <2>5. QED
    BY <1>a, <1>c, <2>1, <2>2, <2>3, <2>4 DEF files
<1>2. CASE CreateFile(t)
  <2>1. PICK o \in Offers :
           /\ thread[t].phase = "fetch" /\ thread[t].offer = o
           /\ Becomes(t, Writing(o, 0, "temp")) /\ Writing(o, 0, "temp") \in Tasks
           /\ temp' = [temp EXCEPT ![o.version] = {}] /\ final' = final
    BY <1>2, CreateShape
  <2> DEFINE task == Writing(o, 0, "temp")
             x == {}
  <2>2. task \in Tasks /\ task.phase = "write" /\ task.offer = o
    BY <2>1, Bounds, WritingMade DEF Places
  <2> HIDE DEF task
  <2>3. Advances(t, task)
    BY <2>1, <2>2, BecomesShape DEF task
  <2>4. /\ \A kind \in {"check", "download"} : Owes(task, kind) <=> Owes(thread[t], kind)
        /\ NewerTask(thread[t]) => NewerTask(task)
    BY <2>1, <2>2 DEF Owes, NewerTask
  <2>5. o.version \in Versions /\ x \in SUBSET Whole /\ temp' = [temp EXCEPT ![o.version] = x]
    BY <2>1, OfferShape
  <2> HIDE DEF x
  <2>6. temp' \in Files
    BY <1>a, <2>5, FileChanged
  <2>7. QED
    BY <1>a, <1>c, <2>1, <2>2, <2>3, <2>4, <2>6
<1>3. CASE PutPart(t)
  <2>1. PICK o \in Offers, n \in 0 .. Parts, p \in Places :
           /\ thread[t] = Writing(o, n, p) /\ n + 1 \in 0 .. Parts /\ n + 1 \in Whole
           /\ Becomes(t, Writing(o, n + 1, p))
           /\ IF p = "temp"
              THEN /\ temp[o.version] \in SUBSET Whole
                   /\ temp' = [temp EXCEPT ![o.version] = temp[o.version] \union {n + 1}]
              ELSE temp' = temp
           /\ IF p = "final"
              THEN /\ final[o.version] \in SUBSET Whole
                   /\ final' = [final EXCEPT ![o.version] = final[o.version] \union {n + 1}]
              ELSE final' = final
    BY <1>3, PutShape DEF OpenFilesInv
  <2> DEFINE task == Writing(o, n + 1, p)
  <2>2. /\ task \in Tasks /\ task.phase = "write" /\ task.offer = o
        /\ thread[t].phase = "write" /\ thread[t].offer = o
    BY <2>1, WritingMade
  <2> HIDE DEF task
  <2>3. Advances(t, task)
    BY <2>1, <2>2, BecomesShape DEF task
  <2>4. /\ \A kind \in {"check", "download"} : Owes(task, kind) <=> Owes(thread[t], kind)
        /\ NewerTask(thread[t]) => NewerTask(task)
    BY <2>2 DEF Owes, NewerTask
  <2>5. \A file \in Files :
          file[o.version] \in SUBSET Whole =>
            [file EXCEPT ![o.version] = file[o.version] \union {n + 1}] \in Files
    <3>1. o.version \in Versions
      BY OfferShape
    <3>2. SUFFICES ASSUME NEW file \in Files, file[o.version] \in SUBSET Whole
                   PROVE  [file EXCEPT ![o.version] = file[o.version] \union {n + 1}] \in Files
      OBVIOUS
    <3> DEFINE x == file[o.version] \union {n + 1}
    <3>3. x \in SUBSET Whole
      BY <2>1, <3>2
    <3> HIDE DEF x
    <3>4. [file EXCEPT ![o.version] = x] \in Files
      BY <3>1, <3>2, <3>3, FileChanged
    <3>5. QED
      BY <3>4 DEF x
  <2>6. temp' \in Files /\ final' \in Files
    BY <1>a, <2>1, <2>5
  <2>7. QED
    BY <1>c, <2>2, <2>3, <2>4, <2>6
<1>4. CASE Verify(t)
  <2>1. PICK o \in Offers, p \in Places :
           /\ thread[t] = Writing(o, Parts, p) /\ temp' = temp
           /\ final' = [final EXCEPT ![o.version] = None]
           /\ Advances(t, Swapping(o))
    BY <1>4, VerifyShape
  <2> DEFINE task == Swapping(o)
  <2>2. /\ task \in Tasks /\ task.phase = "swap" /\ task.offer = o
        /\ thread[t].phase = "write" /\ thread[t].offer = o
    BY <2>1, WritingMade, TasksMade, Bounds
  <2>3. Advances(t, task)
    BY <2>1
  <2> HIDE DEF task
  <2>4. /\ \A kind \in {"check", "download"} : Owes(task, kind) <=> Owes(thread[t], kind)
        /\ NewerTask(thread[t]) => NewerTask(task)
    BY <2>2 DEF Owes, NewerTask
  <2>5. final' \in Files
    BY <1>a, <2>1, OfferShape, FileChanged
  <2>6. QED
    BY <1>a, <1>c, <2>1, <2>2, <2>3, <2>4, <2>5
\* A download that ends with an error.
<1>5. ASSUME thread[t].phase \in {"fetch", "write", "swap"}, temp' \in Files, final' \in Files,
             Advances(t, Posting(Error("download")))
      PROVE  \E task \in Tasks :
              /\ Advances(t, task)
              /\ \A kind \in {"check", "download"} : Owes(task, kind) <=> Owes(thread[t], kind)
              /\ NewerTask(thread[t]) => NewerTask(task)
  <2> DEFINE e == Error("download")
             task == Posting(e)
  <2>1. e \in UpdateEvents /\ e.kind = "Error" /\ e.from = "download"
    BY EventsMade
  <2>2. Advances(t, task)
    BY <1>5
  <2> HIDE DEF e
  <2>3. task \in Tasks /\ task.phase = "post" /\ task.event = e
    BY <2>1, TasksMade
  <2> HIDE DEF task
  <2>4. (\A kind \in {"check", "download"} : Owes(task, kind) <=> Owes(thread[t], kind))
        /\ NewerTask(task)
    BY <1>5, <2>1, <2>3 DEF Owes, NewerTask, NewerEvent
  <2>5. QED
    BY <2>2, <2>3, <2>4
<1>6. CASE Mismatch(t)
  <2>1. PICK o \in Offers, n \in 0 .. Parts, p \in Places :
           /\ thread[t] = Writing(o, n, p) /\ final' = final
           /\ temp' = [temp EXCEPT ![o.version] = None]
           /\ Advances(t, Posting(Error("download")))
    BY <1>6, MismatchShape
  <2>2. thread[t].phase = "write"
    BY <2>1, WritingMade
  <2>3. temp' \in Files
    BY <1>a, <2>1, OfferShape, FileChanged
  <2>4. QED
    BY <1>a, <1>c, <1>5, <2>1, <2>2, <2>3
<1>7. CASE Fail(t)
  <2>1. /\ thread[t].phase \in {"fetch", "write", "swap"} /\ UNCHANGED files
        /\ Advances(t, Posting(Error("download")))
    BY <1>7, FailShape, BecomesShape
  <2>2. QED
    BY <1>a, <1>c, <1>5, <2>1 DEF files
<1>8. CASE Rename(t)
  <2>1. PICK o \in Offers :
           /\ thread[t].phase = "swap" /\ thread[t].offer = o /\ temp[o.version] \in SUBSET Whole
           /\ temp' = [temp EXCEPT ![o.version] = None]
           /\ final' = [final EXCEPT ![o.version] = temp[o.version]]
           /\ Advances(t, Posting(Downloaded(o)))
    BY <1>8, RenameShape
  <2> DEFINE e == Downloaded(o)
             task == Posting(e)
  <2>2. e \in UpdateEvents /\ e.kind = "Downloaded" /\ e.from = "download" /\ e.offer = o
    BY EventsMade, EventShape
  <2>3. Advances(t, task)
    BY <2>1
  <2> HIDE DEF e
  <2>4. task \in Tasks /\ task.phase = "post" /\ task.event = e
    BY <2>2, TasksMade
  <2> HIDE DEF task
  <2>5. /\ \A kind \in {"check", "download"} : Owes(task, kind) <=> Owes(thread[t], kind)
        /\ NewerTask(thread[t]) => NewerTask(task)
    BY <2>1, <2>2, <2>4 DEF Owes, NewerTask, NewerEvent
  <2>6. temp' \in Files
    BY <1>a, <2>1, OfferShape, FileChanged
  <2>7. final' \in Files
    BY <1>a, <1>b, <2>1, OfferShape, FileChanged
  <2>8. QED
    BY <1>c, <2>3, <2>4, <2>5, <2>6, <2>7
<1>9. QED
  BY <1>1, <1>2, <1>3, <1>4, <1>6, <1>7, <1>8 DEF Works

-----------------------------------------------------------------------------
(* Types, files in use, and offers that are newer than the installation.   *)

Managers == [checking : BOOLEAN, downloading : BOOLEAN,
             available : Offers \union {None}, downloaded : Offers \union {None}]

LEMMA ManagerShape ==
  ASSUME NEW m \in Managers
  PROVE  /\ m.checking \in BOOLEAN /\ m.downloading \in BOOLEAN
         /\ m.available \in Offers \union {None} /\ m.downloaded \in Offers \union {None}
         /\ [m EXCEPT !.checking = TRUE] \in Managers
         /\ [m EXCEPT !.downloading = TRUE] \in Managers
         /\ [m EXCEPT !.available = None, !.downloaded = None] \in Managers
  BY DEF Managers

LEMMA FreshManager ==
  ASSUME NEW b \in BOOLEAN
  PROVE  /\ Fresh(b) \in Managers /\ Fresh(b).checking = b /\ Fresh(b).downloading = FALSE
         /\ Fresh(b).available = None /\ Fresh(b).downloaded = None
  BY DEF Fresh, Managers

\* What an event leaves of the manager.
LEMMA TakenShape ==
  ASSUME NEW m \in Managers, NEW e \in UpdateEvents
  PROVE  /\ Taken(m, e) \in Managers /\ Taken(m, e).checking = FALSE
         /\ Taken(m, e).downloading <=> (m.downloading /\ e.kind \notin {"Downloaded", "Error"})
         /\ Taken(m, e).available \in {m.available, None}
              \/ (e.kind = "Available" /\ Taken(m, e).available = e.offer)
         /\ Taken(m, e).downloaded \in {m.downloaded, None}
              \/ (e.kind = "Downloaded" /\ Taken(m, e).downloaded = e.offer)
<1>1. /\ e.kind \in {"Current", "Available", "Downloaded", "Error"}
      /\ e.kind \in {"Available", "Downloaded"} => e.offer \in Offers
  BY EventShape
<1>2. /\ m.checking \in BOOLEAN /\ m.downloading \in BOOLEAN
      /\ m.available \in Offers \union {None} /\ m.downloaded \in Offers \union {None}
  BY ManagerShape
<1> DEFINE a == CASE e.kind = "Current"   -> None
                  [] e.kind = "Available" -> e.offer
                  [] OTHER                -> m.available
           d == CASE e.kind = "Current"    -> None
                  [] e.kind = "Downloaded" -> e.offer
                  [] OTHER                 -> m.downloaded
           b == m.downloading /\ ~EndsDownload(e)
<1>3. Taken(m, e) = [checking |-> FALSE, downloading |-> b, available |-> a, downloaded |-> d]
  BY DEF Taken
<1>4. /\ a \in Offers \union {None} /\ d \in Offers \union {None} /\ b \in BOOLEAN
      /\ b <=> (m.downloading /\ e.kind \notin {"Downloaded", "Error"})
      /\ a \in {m.available, None} \/ (e.kind = "Available" /\ a = e.offer)
      /\ d \in {m.downloaded, None} \/ (e.kind = "Downloaded" /\ d = e.offer)
  BY <1>1, <1>2 DEF EndsDownload
<1> HIDE DEF a, b, d
<1>5. QED
  BY <1>3, <1>4 DEF Managers

LEMMA EventTaken ==
  ASSUME TypeOK, events # <<>>
  PROVE  /\ Head(events) \in UpdateEvents /\ Head(events) = events[1] /\ 1 \in 1 .. Len(events)
         /\ Tail(events) \in Seq(UpdateEvents) /\ Len(Tail(events)) = Len(events) - 1
         /\ Len(Tail(events)) <= MaxEvents
         /\ \A i \in 1 .. Len(Tail(events)) :
              i + 1 \in 1 .. Len(events) /\ Tail(events)[i] = events[i + 1]
<1>1. events \in Seq(UpdateEvents) /\ Len(events) <= MaxEvents /\ Len(events) \in Nat
  BY DEF TypeOK
<1>2. QED
  BY <1>1, Bounds

LEMMA EventPosted ==
  ASSUME TypeOK, NEW e \in UpdateEvents, Len(events) < MaxEvents
  PROVE  /\ Append(events, e) \in Seq(UpdateEvents)
         /\ Len(Append(events, e)) = Len(events) + 1 /\ Len(Append(events, e)) <= MaxEvents
         /\ Append(events, e)[Len(events) + 1] = e
         /\ \A i \in 1 .. Len(events) : Append(events, e)[i] = events[i]
<1>1. events \in Seq(UpdateEvents) /\ Len(events) \in Nat
  BY DEF TypeOK
<1>2. QED
  BY <1>1, Bounds

LEMMA ClosedThreads ==
  /\ NoThreads \in [Threads -> Tasks] /\ \A t \in Threads : NoThreads[t] = Idle
  /\ \A c \in Channels :
       /\ [NoThreads EXCEPT ![1] = Asking(c)] \in [Threads -> Tasks]
       /\ [NoThreads EXCEPT ![1] = Asking(c)][1] = Asking(c)
       /\ \A t \in Threads \ {1} : [NoThreads EXCEPT ![1] = Asking(c)][t] = Idle
  BY TasksMade, Bounds DEF NoThreads

LEMMA TypesStep ==
  ASSUME TypeOK, OpenFilesInv, [Next]_vars
  PROVE  TypeOK'
<1>0. /\ running \in Versions /\ feed \in [Channels -> Versions] /\ open \in BOOLEAN
      /\ channel \in Channels /\ manager \in Managers /\ thread \in [Threads -> Tasks]
      /\ events \in Seq(UpdateEvents) /\ Len(events) <= MaxEvents
      /\ temp \in Files /\ final \in Files
      /\ scheduled \in Versions \union {None} /\ crossed \subseteq {"check", "download"}
  BY DEF TypeOK, Managers, Files
<1>1. ASSUME running' \in Versions, feed' \in [Channels -> Versions], open' \in BOOLEAN,
             channel' \in Channels, manager' \in Managers, thread' \in [Threads -> Tasks],
             events' \in Seq(UpdateEvents), Len(events') <= MaxEvents,
             temp' \in Files, final' \in Files,
             scheduled' \in Versions \union {None}, crossed' \subseteq {"check", "download"}
      PROVE  TypeOK'
  BY <1>1 DEF TypeOK, Managers, Files
<1>2. ASSUME NEW t \in Threads, Check(t) \/ Download(t)
      PROVE  thread' \in [Threads -> Tasks] /\ manager' \in Managers
             /\ UNCHANGED <<outside, channel, events, files, crossed>>
  <2>1. CASE Check(t)
    BY <1>0, <2>1, SpawnShape, TasksMade, ManagerShape DEF Check, Advances
  <2>2. CASE Download(t)
    <3>1. manager.available \in Offers
      BY <1>0, <2>2, ManagerShape DEF Download
    <3>2. QED
      BY <1>0, <2>2, <3>1, SpawnShape, TasksMade, ManagerShape DEF Download, Advances
  <2>3. QED
    BY <1>2, <2>1, <2>2
<1>3. ASSUME NEW t \in Threads, Works(t)
      PROVE  thread' \in [Threads -> Tasks] /\ temp' \in Files /\ final' \in Files
             /\ UNCHANGED <<outside, channel, manager, crossed, events>>
  BY <1>3, WorkShape DEF Advances
<1>4. ASSUME NEW t \in Threads, Post(t)
      PROVE  /\ thread' \in [Threads -> Tasks] /\ events' \in Seq(UpdateEvents)
             /\ Len(events') <= MaxEvents /\ UNCHANGED <<outside, channel, manager, crossed, files>>
  <2>1. PICK e \in UpdateEvents :
           /\ events' = Append(events, e) /\ Len(events) < MaxEvents
           /\ Becomes(t, Idle) /\ Idle \in Tasks
    BY <1>4, PostShape
  <2>2. QED
    BY <1>4, <2>1, BecomesShape, EventPosted DEF Post, Untouched, Advances
<1>5. ASSUME NEW t \in Threads, Check(t) \/ Download(t) \/ ThreadStep(t)
      PROVE  TypeOK'
  <2>1. CASE Check(t) \/ Download(t)
    BY <1>0, <1>1, <1>2, <2>1 DEF outside, files
  <2>2. CASE Works(t)
    BY <1>0, <1>1, <1>3, <2>2 DEF outside
  <2>3. CASE Post(t)
    BY <1>0, <1>1, <1>4, <2>3 DEF outside, files
  <2>4. QED
    BY <1>5, <2>1, <2>2, <2>3 DEF ThreadStep, Works
<1>6. CASE Drain
  <2>1. manager' = Taken(manager, Head(events)) /\ events' = Tail(events)
        /\ crossed' = crossed \union Crosses(manager, Head(events)) /\ events # <<>>
        /\ UNCHANGED <<outside, channel, thread, files>>
    BY <1>6 DEF Drain
  <2>2. Crosses(manager, Head(events)) \subseteq {"check", "download"}
    BY DEF Crosses
  <2>3. QED
    BY <1>0, <1>1, <2>1, <2>2, EventTaken, TakenShape DEF outside, files
<1>7. CASE \E c \in Channels : SetChannel(c) \/ Publish(c)
  <2>1. PICK c \in Channels : SetChannel(c) \/ Publish(c)
    BY <1>7
  <2>2. CASE SetChannel(c)
    BY <1>0, <1>1, <2>2, ManagerShape DEF SetChannel, outside, files
  <2>3. CASE Publish(c)
    <3>1. PICK v \in Named[c] : feed' = [feed EXCEPT ![c] = v]
      BY <2>3 DEF Publish
    <3>2. feed' \in [Channels -> Versions]
      <4>1. v \in Versions
        BY <2>1, <3>1, UpdatesAssumption DEF Versions
      <4>2. QED
        BY <1>0, <3>1, <4>1
    <3>3. QED
      BY <1>0, <1>1, <2>3, <3>2 DEF Publish, files
  <2>4. QED
    BY <2>1, <2>2, <2>3
<1>8. CASE Install
  <2>1. manager.downloaded \in Offers
    BY <1>0, <1>8, ManagerShape DEF Install
  <2>2. scheduled' \in Versions
    BY <1>8, <2>1, OfferShape DEF Install
  <2>3. QED
    BY <1>0, <1>1, <1>8, <2>2 DEF Install, files
<1>9. CASE Exit
  <2>1. /\ open' = FALSE /\ manager' = Fresh(FALSE) /\ thread' = NoThreads /\ events' = <<>>
        /\ crossed' \in {{}, crossed} /\ UNCHANGED <<running, feed, scheduled, channel, files>>
    BY <1>9 DEF Exit
  <2>2. events' \in Seq(UpdateEvents) /\ Len(events') <= MaxEvents
    BY <2>1, Bounds
  <2>3. crossed' \subseteq {"check", "download"} /\ manager' \in Managers
    BY <1>0, <2>1, FreshManager
  <2>4. QED
    BY <1>0, <1>1, <2>1, <2>2, <2>3, ClosedThreads DEF files
<1>10. CASE InstallerRuns
  <2>1. /\ running' \in {running, scheduled} /\ scheduled # None /\ scheduled' = None /\ crossed' = {}
        /\ UNCHANGED <<feed, open, channel, manager, thread, events, files>>
    BY <1>10 DEF InstallerRuns
  <2>2. QED
    BY <1>0, <1>1, <2>1 DEF files
<1>11. CASE \E automatic \in BOOLEAN : Start(automatic)
  <2>1. PICK automatic \in BOOLEAN : Start(automatic)
    BY <1>11
  <2>2. /\ open' = TRUE /\ manager' = Fresh(automatic)
        /\ thread' \in {NoThreads, [NoThreads EXCEPT ![1] = Asking(channel)]}
        /\ UNCHANGED <<running, feed, scheduled, channel, events, files, crossed>>
    BY <2>1 DEF Start
  <2>3. thread' \in [Threads -> Tasks] /\ manager' \in Managers
    BY <1>0, <2>2, ClosedThreads, FreshManager
  <2>4. QED
    BY <1>0, <1>1, <2>2, <2>3 DEF files
<1>12. CASE UNCHANGED vars
  BY <1>12 DEF vars, outside, files, TypeOK
<1>13. QED
  BY <1>5, <1>6, <1>7, <1>8, <1>9, <1>10, <1>11, <1>12 DEF Next

LEMMA OpenFilesStep ==
  ASSUME TypeOK, OpenFilesInv, [Next]_vars
  PROVE  OpenFilesInv'
<1>1. ASSUME UNCHANGED files,
             \A u \in Threads : thread'[u] = thread[u] \/ thread'[u].phase # "write"
      PROVE  OpenFilesInv'
  BY <1>1 DEF OpenFilesInv, HasFile, files
<1>2. ASSUME NEW t \in Threads, Check(t) PROVE OpenFilesInv'
  <2>1. Asking(channel) \in Tasks /\ Asking(channel).phase = "check"
    BY TasksMade DEF TypeOK
  <2>2. QED
    BY <1>1, <1>2, <2>1, SpawnShape DEF Check, Advances
<1>3. ASSUME NEW t \in Threads, Download(t) PROVE OpenFilesInv'
  <2>1. manager.available \in Offers
    BY <1>3 DEF Download, TypeOK
  <2>2. Fetching(manager.available) \in Tasks /\ Fetching(manager.available).phase = "fetch"
    BY <2>1, TasksMade
  <2>3. QED
    BY <1>1, <1>3, <2>2, SpawnShape DEF Download, Advances
<1>4. ASSUME NEW t \in Threads, Post(t) PROVE OpenFilesInv'
  BY <1>1, <1>4, PostShape, BecomesShape, TasksMade DEF Advances
<1>5. ASSUME NEW t \in Threads, Works(t) PROVE OpenFilesInv'
  BY <1>5, WritersKeepFiles
<1>6. CASE Exit \/ \E automatic \in BOOLEAN : Start(automatic)
  <2>1. UNCHANGED files /\ thread' \in {NoThreads, [NoThreads EXCEPT ![1] = Asking(channel)]}
    BY <1>6 DEF Exit, Start
  <2>2. \A u \in Threads : thread'[u] \in {Idle, Asking(channel)}
    BY <2>1, ClosedThreads DEF TypeOK
  <2>3. QED
    BY <1>1, <2>1, <2>2, TasksMade DEF TypeOK
<1>7. CASE Drain \/ Install \/ InstallerRuns \/ UNCHANGED vars
            \/ \E c \in Channels : SetChannel(c) \/ Publish(c)
  BY <1>1, <1>7 DEF Drain, Install, InstallerRuns, vars, SetChannel, Publish
<1>8. QED
  BY <1>2, <1>3, <1>4, <1>5, <1>6, <1>7 DEF Next, ThreadStep, Works

\* Nothing runs while the application does not, and so no thread takes a step.
LEMMA OnlyWhileOpen ==
  ASSUME TypeOK, ClosedInv, NEW t \in Threads, thread[t].phase # "idle"
  PROVE  open = TRUE
<1>1. open \in BOOLEAN
  BY DEF TypeOK
<1>2. CASE ~open
  BY <1>2, ClosedThreads, TasksMade DEF ClosedInv
<1>3. QED
  BY <1>1, <1>2

LEMMA BusyThread ==
  ASSUME TypeOK, OpenFilesInv, NEW t \in Threads, Works(t) \/ Post(t)
  PROVE  thread[t].phase # "idle"
  BY DEF Works, Answer, CreateFile, PutPart, Put, Verify, Swaps, Mismatch, Rename, Fail, Post

LEMMA ClosedStep ==
  ASSUME TypeOK, OpenFilesInv, ClosedInv, [Next]_vars
  PROVE  ClosedInv'
<1>1. CASE \E t \in Threads : Works(t) \/ Post(t)
  <2>1. PICK t \in Threads : Works(t) \/ Post(t)
    BY <1>1
  <2>2. open = TRUE
    BY <2>1, BusyThread, OnlyWhileOpen
  <2>3. open' = open
    BY <2>1, WorkShape DEF Post, Untouched, outside
  <2>4. QED
    BY <2>2, <2>3 DEF ClosedInv
<1>2. CASE \E t \in Threads : Check(t) \/ Download(t)
  BY <1>2 DEF Check, Download, Clicked, WindowOpen, outside, ClosedInv
<1>3. CASE Drain \/ Install \/ \E c \in Channels : SetChannel(c)
  BY <1>3 DEF Drain, Install, SetChannel, Clicked, WindowOpen, outside, ClosedInv
<1>4. CASE Exit \/ \E automatic \in BOOLEAN : Start(automatic)
  BY <1>4 DEF Exit, Start, ClosedInv
<1>5. CASE InstallerRuns \/ UNCHANGED vars \/ \E c \in Channels : Publish(c)
  BY <1>5 DEF InstallerRuns, vars, outside, Publish, ClosedInv
<1>6. QED
  BY <1>1, <1>2, <1>3, <1>4, <1>5 DEF Next, ThreadStep, Works

LEMMA NewerStep ==
  ASSUME TypeOK, OpenFilesInv, ClosedInv, NewerInv, [Next]_vars
  PROVE  NewerInv'
<1>0. events \in Seq(UpdateEvents) /\ Len(events) \in Nat /\ manager \in Managers
  BY DEF TypeOK, Managers
\* The threads, after a step that installs nothing.
<1>1. ASSUME running' = running, NEW t \in Threads, NEW task \in Tasks, Advances(t, task),
             NewerTask(task)
      PROVE  \A u \in Threads : NewerTask(thread[u])'
  <2>1. SUFFICES ASSUME NEW u \in Threads PROVE NewerTask(thread[u])'
    OBVIOUS
  <2>2. NewerTask(thread'[u])
    <3>1. CASE u = t
      BY <1>1, <3>1 DEF Advances
    <3>2. CASE u # t
      BY <1>1, <3>2, AlikeTasks DEF Advances, TypeOK, NewerInv
    <3>3. QED
      BY <3>1, <3>2
  <2>3. QED
    BY <1>1, <2>2 DEF NewerTask, NewerEvent
\* The rest of the invariant, when neither events nor offers change.
<1>2. ASSUME UNCHANGED <<running, events, scheduled>>,
             manager'.available \in {manager.available, None},
             manager'.downloaded \in {manager.downloaded, None},
             \A u \in Threads : NewerTask(thread[u])'
      PROVE  NewerInv'
  BY <1>2 DEF NewerInv, NewerEvent
<1>3. ASSUME NEW t \in Threads, Works(t) PROVE NewerInv'
  <2>1. UNCHANGED <<running, events, scheduled, manager>>
    BY <1>3, WorkShape DEF outside
  <2>2. PICK task \in Tasks : Advances(t, task) /\ (NewerTask(thread[t]) => NewerTask(task))
    BY <1>3, WorkShape
  <2>3. \A u \in Threads : NewerTask(thread[u])'
    BY <1>1, <2>1, <2>2 DEF NewerInv
  <2>4. QED
    BY <1>2, <2>1, <2>3
<1>4. ASSUME NEW t \in Threads, Post(t) PROVE NewerInv'
  <2>1. PICK e \in UpdateEvents :
           /\ thread[t].phase = "post" /\ thread[t].event = e
           /\ events' = Append(events, e) /\ Len(events) < MaxEvents
           /\ Becomes(t, Idle) /\ Idle \in Tasks
    BY <1>4, PostShape
  <2>2. UNCHANGED <<running, scheduled, manager>>
    BY <1>4 DEF Post, Untouched, outside
  <2>3. Advances(t, Idle) /\ NewerTask(Idle) /\ NewerEvent(e)
    BY <2>1, BecomesShape, TasksMade DEF NewerTask, NewerInv
  <2>4. \A u \in Threads : NewerTask(thread[u])'
    BY <1>1, <2>1, <2>2, <2>3
  <2>5. \A i \in 1 .. Len(events') : NewerEvent(events'[i])
    BY <1>0, <2>1, <2>3, EventPosted DEF NewerInv
  <2>6. QED
    BY <2>2, <2>4, <2>5 DEF NewerInv, NewerEvent
<1>5. ASSUME NEW t \in Threads, Check(t) PROVE NewerInv'
  <2>1. Spawn(t, Asking(channel)) /\ UNCHANGED <<running, events, scheduled>>
        /\ manager' = [manager EXCEPT !.checking = TRUE]
    BY <1>5 DEF Check, outside
  <2>2. Asking(channel) \in Tasks /\ NewerTask(Asking(channel))
    BY TasksMade DEF TypeOK, NewerTask
  <2>3. \A u \in Threads : NewerTask(thread[u])'
    BY <1>1, <2>1, <2>2, SpawnShape
  <2>4. manager'.available = manager.available /\ manager'.downloaded = manager.downloaded
    BY <1>0, <2>1 DEF Managers
  <2>5. QED
    BY <1>2, <2>1, <2>3, <2>4
<1>6. ASSUME NEW t \in Threads, Download(t) PROVE NewerInv'
  <2> DEFINE o == manager.available
             task == Fetching(o)
  <2>1. Spawn(t, task) /\ UNCHANGED <<running, events, scheduled>> /\ o # None
        /\ manager' = [manager EXCEPT !.downloading = TRUE]
    BY <1>6 DEF Download, outside
  <2>2. o \in Offers /\ IsNewer(o.version, running)
    BY <1>0, <2>1 DEF Managers, NewerInv
  <2>3. task \in Tasks /\ task.phase = "fetch" /\ task.offer = o
    BY <2>2, TasksMade
  <2> HIDE DEF task
  <2>4. NewerTask(task)
    BY <2>2, <2>3 DEF NewerTask
  <2>5. \A u \in Threads : NewerTask(thread[u])'
    BY <1>1, <2>1, <2>3, <2>4, SpawnShape
  <2>6. manager'.available = manager.available /\ manager'.downloaded = manager.downloaded
    BY <1>0, <2>1 DEF Managers
  <2>7. QED
    BY <1>2, <2>1, <2>5, <2>6
<1>7. CASE Drain
  <2> DEFINE e == Head(events)
  <2>1. /\ manager' = Taken(manager, e) /\ events' = Tail(events) /\ events # <<>>
        /\ UNCHANGED <<running, scheduled, thread>>
    BY <1>7 DEF Drain, outside
  <2>2. e \in UpdateEvents /\ NewerEvent(e)
    BY <2>1, EventTaken DEF NewerInv
  <2> HIDE DEF e
  <2>3. /\ manager'.available # None => IsNewer(manager'.available.version, running)
        /\ manager'.downloaded # None => IsNewer(manager'.downloaded.version, running)
    BY <1>0, <2>1, <2>2, TakenShape DEF NewerInv, NewerEvent
  <2>4. \A i \in 1 .. Len(events') : NewerEvent(events'[i])
    BY <2>1, EventTaken DEF NewerInv
  <2>5. \A u \in Threads : NewerTask(thread[u])'
    BY <2>1 DEF NewerInv, NewerTask, NewerEvent
  <2>6. QED
    BY <2>1, <2>3, <2>4, <2>5 DEF NewerInv, NewerEvent
<1>8. CASE \E c \in Channels : SetChannel(c) \/ Publish(c)
  <2>1. /\ UNCHANGED <<running, events, scheduled, thread>>
        /\ manager' \in {manager, [manager EXCEPT !.available = None, !.downloaded = None]}
    BY <1>8 DEF SetChannel, Publish, outside
  <2>2. /\ manager'.available \in {manager.available, None}
        /\ manager'.downloaded \in {manager.downloaded, None}
    BY <1>0, <2>1 DEF Managers
  <2>3. \A u \in Threads : NewerTask(thread[u])'
    BY <2>1 DEF NewerInv, NewerTask, NewerEvent
  <2>4. QED
    BY <1>2, <2>1, <2>2, <2>3
<1>9. CASE Install
  <2>1. manager.downloaded # None /\ scheduled' = manager.downloaded.version
        /\ UNCHANGED <<running, manager, thread, events>>
    BY <1>9 DEF Install
  <2>2. QED
    BY <2>1 DEF NewerInv, NewerTask, NewerEvent
\* A process that starts or ends.
<1>10. ASSUME NEW b \in BOOLEAN, manager' = Fresh(b), events' = <<>>,
              thread' \in {NoThreads, [NoThreads EXCEPT ![1] = Asking(channel)]},
              scheduled' # None => IsNewer(scheduled', running')
       PROVE  NewerInv'
  <2>1. \A u \in Threads : thread'[u].phase \in {"idle", "check"}
    BY <1>10, ClosedThreads, TasksMade DEF TypeOK
  <2>2. manager'.available = None /\ manager'.downloaded = None
    BY <1>10, FreshManager
  <2>3. QED
    BY <1>10, <2>1, <2>2 DEF NewerInv, NewerTask, NewerEvent
<1>11. CASE Exit
  <2>1. UNCHANGED <<running, scheduled>> /\ manager' = Fresh(FALSE) /\ thread' = NoThreads
        /\ events' = <<>>
    BY <1>11 DEF Exit
  <2>2. QED
    BY <1>10, <2>1 DEF NewerInv
<1>12. CASE \E automatic \in BOOLEAN : Start(automatic)
  <2>1. PICK automatic \in BOOLEAN : Start(automatic)
    BY <1>12
  <2>2. /\ manager' = Fresh(automatic) /\ scheduled' = None /\ events' = <<>>
        /\ thread' \in {NoThreads, [NoThreads EXCEPT ![1] = Asking(channel)]}
    BY <2>1 DEF Start, ClosedInv
  <2>3. QED
    BY <1>10, <2>2
<1>13. CASE InstallerRuns
  <2>1. ~open /\ scheduled' = None /\ UNCHANGED <<manager, thread, events>>
    BY <1>13 DEF InstallerRuns
  <2>2. QED
    BY <1>10, <2>1 DEF ClosedInv
<1>14. CASE UNCHANGED vars
  BY <1>14 DEF vars, outside, NewerInv, NewerTask, NewerEvent
<1>15. QED
  BY <1>3, <1>4, <1>5, <1>6, <1>7, <1>8, <1>9, <1>11, <1>12, <1>13, <1>14
     DEF Next, ThreadStep, Works

LEMMA BasicStep ==
  ASSUME BasicInv, [Next]_vars
  PROVE  BasicInv'
  BY TypesStep, OpenFilesStep, ClosedStep, NewerStep DEF BasicInv

-----------------------------------------------------------------------------
(* Answers and spinners.                                                   *)

Kinds == {"check", "download"}

\* Who owes an answer after one thread has moved on.
LEMMA OwedAfter ==
  ASSUME TypeOK, NEW t \in Threads, NEW task \in Tasks, Advances(t, task), NEW kind \in Kinds
  PROVE  /\ Owes(thread'[t], kind) <=> Owes(task, kind)
         /\ \A u \in Threads \ {t} : Owes(thread'[u], kind) <=> Owes(thread[u], kind)
  BY AlikeTasks DEF Advances, TypeOK

LEMMA NewTasksOwe ==
  /\ \A kind \in Kinds : ~Owes(Idle, kind)
  /\ \A c \in Channels : Owes(Asking(c), "check") /\ ~Owes(Asking(c), "download")
  /\ \A o \in Offers : ~Owes(Fetching(o), "check") /\ Owes(Fetching(o), "download")
  BY TasksMade DEF Owes, Kinds

\* The same answers are owed, whoever owes them now.
LEMMA SameAnswers ==
  ASSUME NEW kind \in Kinds, events' = events,
         \A u \in Threads : Owes(thread'[u], kind) <=> Owes(thread[u], kind)
  PROVE  /\ OneAnswer(kind) => OneAnswer(kind)'
         /\ Outstanding(kind) <=> Outstanding(kind)'
  BY DEF OneAnswer, Outstanding

LEMMA PostedAnswers ==
  ASSUME TypeOK, NEW kind \in Kinds, NEW t \in Threads, Post(t)
  PROVE  /\ OneAnswer(kind) => OneAnswer(kind)'
         /\ Outstanding(kind) <=> Outstanding(kind)'
<1>1. PICK e \in UpdateEvents :
           /\ thread[t].phase = "post" /\ thread[t].event = e
           /\ events' = Append(events, e) /\ Len(events) < MaxEvents
           /\ Becomes(t, Idle) /\ Idle \in Tasks
  BY PostShape
<1>2. /\ Owes(thread[t], kind) <=> e.from = kind
      /\ ~Owes(thread'[t], kind)
      /\ \A u \in Threads \ {t} : Owes(thread'[u], kind) <=> Owes(thread[u], kind)
  BY <1>1, BecomesShape, OwedAfter, NewTasksOwe DEF Owes
<1> DEFINE n == Len(events)
<1>3. /\ n \in Nat /\ Len(events') = n + 1 /\ events'[n + 1] = e
      /\ \A i \in 1 .. n : events'[i] = events[i]
  BY <1>1, EventPosted DEF TypeOK
<1> HIDE DEF n
<1>4. \A i \in 1 .. Len(events') : (i \in 1 .. n /\ events'[i] = events[i]) \/ (i = n + 1 /\ events'[i] = e)
  BY <1>3
<1>5. n = Len(events)
  BY DEF n
<1>6. Outstanding(kind) <=> Outstanding(kind)'
  <2>1. ASSUME Outstanding(kind) PROVE Outstanding(kind)'
    <3>1. CASE \E i \in 1 .. n : events[i].from = kind
      <4>1. PICK i \in 1 .. n : events[i].from = kind
        BY <3>1
      <4>2. i \in 1 .. Len(events') /\ events'[i].from = kind
        BY <1>3, <4>1
      <4>3. QED
        BY <4>2 DEF Outstanding
    <3>2. CASE Owes(thread[t], kind)
      <4>1. n + 1 \in 1 .. Len(events') /\ events'[n + 1].from = kind
        BY <1>2, <1>3, <3>2
      <4>2. QED
        BY <4>1 DEF Outstanding
    <3>3. CASE \E u \in Threads \ {t} : Owes(thread[u], kind)
      BY <1>2, <3>3 DEF Outstanding
    <3>4. QED
      BY <1>5, <2>1, <3>1, <3>2, <3>3 DEF Outstanding
  <2>2. ASSUME Outstanding(kind)' PROVE Outstanding(kind)
    <3>1. CASE \E i \in 1 .. Len(events') : events'[i].from = kind
      <4>1. PICK i \in 1 .. Len(events') : events'[i].from = kind
        BY <3>1
      <4>2. CASE i \in 1 .. n /\ events'[i] = events[i]
        BY <1>5, <4>1, <4>2 DEF Outstanding
      <4>3. CASE i = n + 1 /\ events'[i] = e
        BY <1>2, <4>1, <4>3 DEF Outstanding
      <4>4. QED
        BY <1>4, <4>2, <4>3
    <3>2. CASE \E u \in Threads : Owes(thread'[u], kind)
      BY <1>2, <3>2 DEF Outstanding
    <3>3. QED
      BY <2>2, <3>1, <3>2 DEF Outstanding
  <2>3. QED
    BY <2>1, <2>2
<1>7. ASSUME OneAnswer(kind) PROVE OneAnswer(kind)'
  <2>1. /\ \A i, j \in 1 .. n : events[i].from = kind /\ events[j].from = kind => i = j
        /\ \A u, w \in Threads : Owes(thread[u], kind) /\ Owes(thread[w], kind) => u = w
        /\ \A i \in 1 .. n, u \in Threads : ~(events[i].from = kind /\ Owes(thread[u], kind))
    BY <1>5, <1>7 DEF OneAnswer
  <2>2. ASSUME NEW i \in 1 .. Len(events'), NEW j \in 1 .. Len(events'),
               events'[i].from = kind, events'[j].from = kind
        PROVE  i = j
    BY <1>2, <1>4, <2>1, <2>2
  <2>3. ASSUME NEW u \in Threads, NEW w \in Threads, Owes(thread'[u], kind), Owes(thread'[w], kind)
        PROVE  u = w
    BY <1>2, <2>1, <2>3
  <2>4. ASSUME NEW i \in 1 .. Len(events'), NEW u \in Threads
        PROVE  ~(events'[i].from = kind /\ Owes(thread'[u], kind))
    BY <1>2, <1>4, <2>1
  <2>5. QED
    BY <2>2, <2>3, <2>4 DEF OneAnswer
<1>8. QED
  BY <1>6, <1>7

\* What is still to come after the oldest event was taken.
LEMMA AnswersLeft ==
  ASSUME TypeOK, events # <<>>, events' = Tail(events), thread' = thread, NEW kind \in Kinds
  PROVE  /\ OneAnswer(kind) => OneAnswer(kind)'
         /\ Outstanding(kind)' => Outstanding(kind)
         /\ Head(events).from # kind /\ Outstanding(kind) => Outstanding(kind)'
         /\ Head(events).from = kind => Outstanding(kind)
         /\ OneAnswer(kind) /\ Head(events).from = kind => ~Outstanding(kind)'
<1>1. /\ Head(events) = events[1] /\ 1 \in 1 .. Len(events) /\ Len(events) \in Nat
      /\ Len(events') = Len(events) - 1
      /\ \A i \in 1 .. Len(events') : i + 1 \in 1 .. Len(events) /\ events'[i] = events[i + 1]
  BY EventTaken DEF TypeOK
<1>2. \A i \in 1 .. Len(events) : i # 1 => i - 1 \in 1 .. Len(events') /\ events'[i - 1] = events[i]
  BY <1>1
<1>3. OneAnswer(kind) => OneAnswer(kind)'
  <2>1. SUFFICES ASSUME OneAnswer(kind) PROVE OneAnswer(kind)'
    OBVIOUS
  <2>2. ASSUME NEW i \in 1 .. Len(events'), NEW j \in 1 .. Len(events'),
               events'[i].from = kind, events'[j].from = kind
        PROVE  i = j
    <3>1. i + 1 = j + 1
      BY <1>1, <2>1, <2>2 DEF OneAnswer
    <3>2. QED
      BY <3>1
  <2>3. ASSUME NEW i \in 1 .. Len(events'), NEW u \in Threads
        PROVE  ~(events'[i].from = kind /\ Owes(thread[u], kind))
    BY <1>1, <2>1 DEF OneAnswer
  <2>4. QED
    BY <2>1, <2>2, <2>3 DEF OneAnswer
<1>4. Outstanding(kind)' => Outstanding(kind)
  <2>1. ASSUME NEW i \in 1 .. Len(events'), events'[i].from = kind
        PROVE  \E j \in 1 .. Len(events) : events[j].from = kind
    BY <1>1, <2>1
  <2>2. QED
    BY <2>1 DEF Outstanding
<1>5. Head(events).from # kind /\ Outstanding(kind) => Outstanding(kind)'
  <2>1. ASSUME Head(events).from # kind, NEW i \in 1 .. Len(events), events[i].from = kind
        PROVE  \E j \in 1 .. Len(events') : events'[j].from = kind
    <3>1. i - 1 \in 1 .. Len(events') /\ events'[i - 1].from = kind
      BY <1>1, <1>2, <2>1
    <3>2. QED
      BY <3>1
  <2>2. QED
    BY <2>1 DEF Outstanding
<1>6. Head(events).from = kind => Outstanding(kind)
  BY <1>1 DEF Outstanding
<1>7. ASSUME OneAnswer(kind), Head(events).from = kind PROVE ~Outstanding(kind)'
  <2>1. ASSUME NEW i \in 1 .. Len(events'), events'[i].from = kind PROVE FALSE
    <3>1. i + 1 = 1
      BY <1>1, <1>7, <2>1 DEF OneAnswer
    <3>2. QED
      BY <3>1
  <2>2. \A u \in Threads : ~Owes(thread[u], kind)
    BY <1>1, <1>7 DEF OneAnswer
  <2>3. QED
    BY <2>1, <2>2 DEF Outstanding
<1>8. QED
  BY <1>3, <1>4, <1>5, <1>6, <1>7

\* A thread that starts while no answer of its kind is outstanding is the only one.
LEMMA FirstAnswer ==
  ASSUME TypeOK, NEW kind \in Kinds, NEW t \in Threads, NEW task \in Tasks, Spawn(t, task),
         Owes(task, kind), events' = events, ~Outstanding(kind)
  PROVE  OneAnswer(kind)' /\ Outstanding(kind)'
<1>1. /\ Owes(thread'[t], kind)
      /\ \A u \in Threads \ {t} : ~Owes(thread'[u], kind)
      /\ \A i \in 1 .. Len(events) : events[i].from # kind
  BY SpawnShape, OwedAfter DEF Outstanding
<1>2. QED
  BY <1>1 DEF OneAnswer, Outstanding

\* With no thread and no event there is no answer to wait for.
LEMMA NoAnswers ==
  ASSUME NEW kind \in Kinds, events' = <<>>,
         \A u \in Threads : ~Owes(thread'[u], kind)
  PROVE  OneAnswer(kind)' /\ ~Outstanding(kind)'
<1>1. \A i \in 1 .. Len(events') : FALSE
  BY DEF Kinds
<1>2. QED
  BY <1>1 DEF OneAnswer, Outstanding

LEMMA SpinnersStep ==
  ASSUME BasicInv, SpinnersInv, [Next]_vars
  PROVE  SpinnersInv'
<1>0. /\ TypeOK /\ OpenFilesInv /\ ClosedInv /\ manager \in Managers /\ open \in BOOLEAN
      /\ "check" \in Kinds /\ "download" \in Kinds
  BY DEF BasicInv, TypeOK, Managers, Kinds
\* The answers outstanding are those of before.
<1>1. ASSUME UNCHANGED <<open, crossed>>, manager'.checking = manager.checking,
             manager'.downloading = manager.downloading,
             \A kind \in Kinds : /\ OneAnswer(kind) => OneAnswer(kind)'
                                 /\ Outstanding(kind) <=> Outstanding(kind)'
      PROVE  SpinnersInv'
  BY <1>0, <1>1 DEF SpinnersInv, SpinnerInv
<1>2. ASSUME UNCHANGED <<open, crossed, events, thread>>, manager'.checking = manager.checking,
             manager'.downloading = manager.downloading
      PROVE  SpinnersInv'
  BY <1>1, <1>2, SameAnswers
<1>3. ASSUME NEW t \in Threads, Works(t) PROVE SpinnersInv'
  <2>1. UNCHANGED <<open, crossed, manager, events>>
    BY <1>0, <1>3, WorkShape DEF outside
  <2>2. PICK task \in Tasks : /\ Advances(t, task)
                              /\ \A kind \in Kinds : Owes(task, kind) <=> Owes(thread[t], kind)
    BY <1>0, <1>3, WorkShape DEF Kinds
  <2>3. \A kind \in Kinds, u \in Threads : Owes(thread'[u], kind) <=> Owes(thread[u], kind)
    BY <1>0, <2>2, OwedAfter
  <2>4. QED
    BY <1>1, <2>1, <2>3, SameAnswers
<1>4. ASSUME NEW t \in Threads, Post(t) PROVE SpinnersInv'
  <2>1. UNCHANGED <<open, crossed, manager>>
    BY <1>4 DEF Post, Untouched, outside
  <2>2. QED
    BY <1>0, <1>1, <1>4, <2>1, PostedAnswers
<1>5. ASSUME NEW t \in Threads, Check(t) PROVE SpinnersInv'
  <2> DEFINE task == Asking(channel)
  <2>1. /\ open /\ ~manager.checking /\ Spawn(t, task) /\ UNCHANGED <<open, crossed, events>>
        /\ manager' = [manager EXCEPT !.checking = TRUE]
    BY <1>5 DEF Check, Clicked, WindowOpen, outside
  <2>2. task \in Tasks /\ Owes(task, "check") /\ ~Owes(task, "download") /\ ~Owes(Idle, "download")
    BY <1>0, TasksMade, NewTasksOwe DEF TypeOK
  <2> HIDE DEF task
  <2>3. manager'.checking = TRUE /\ manager'.downloading = manager.downloading
    BY <1>0, <2>1 DEF Managers
  <2>4. SpinnerInv("check", manager.checking)'
    <3>1. CASE "check" \in crossed
      BY <2>1, <3>1 DEF SpinnerInv
    <3>2. CASE ~Outstanding("check")
      BY <1>0, <2>1, <2>2, <2>3, <3>2, FirstAnswer DEF SpinnerInv
    <3>3. QED
      BY <2>1, <3>1, <3>2 DEF SpinnersInv, SpinnerInv
  <2>5. SpinnerInv("download", manager.downloading)'
    <3>1. \A u \in Threads : Owes(thread'[u], "download") <=> Owes(thread[u], "download")
      BY <1>0, <2>1, <2>2, SpawnShape, OwedAfter
    <3>2. QED
      BY <1>0, <2>1, <2>3, <3>1, SameAnswers DEF SpinnersInv, SpinnerInv
  <2>6. QED
    BY <2>4, <2>5 DEF SpinnersInv
<1>6. ASSUME NEW t \in Threads, Download(t) PROVE SpinnersInv'
  <2> DEFINE task == Fetching(manager.available)
  <2>1. /\ open /\ ~manager.downloading /\ Spawn(t, task) /\ UNCHANGED <<open, crossed, events>>
        /\ manager' = [manager EXCEPT !.downloading = TRUE] /\ manager.available \in Offers
    BY <1>0, <1>6 DEF Download, Clicked, WindowOpen, outside, Managers
  <2>2. task \in Tasks /\ Owes(task, "download") /\ ~Owes(task, "check") /\ ~Owes(Idle, "check")
    BY <1>0, <2>1, TasksMade, NewTasksOwe
  <2> HIDE DEF task
  <2>3. manager'.downloading = TRUE /\ manager'.checking = manager.checking
    BY <1>0, <2>1 DEF Managers
  <2>4. SpinnerInv("download", manager.downloading)'
    <3>1. CASE "download" \in crossed
      BY <2>1, <3>1 DEF SpinnerInv
    <3>2. CASE ~Outstanding("download")
      BY <1>0, <2>1, <2>2, <2>3, <3>2, FirstAnswer DEF SpinnerInv
    <3>3. QED
      BY <2>1, <3>1, <3>2 DEF SpinnersInv, SpinnerInv
  <2>5. SpinnerInv("check", manager.checking)'
    <3>1. \A u \in Threads : Owes(thread'[u], "check") <=> Owes(thread[u], "check")
      BY <1>0, <2>1, <2>2, SpawnShape, OwedAfter
    <3>2. QED
      BY <1>0, <2>1, <2>3, <3>1, SameAnswers DEF SpinnersInv, SpinnerInv
  <2>6. QED
    BY <2>4, <2>5 DEF SpinnersInv
<1>7. CASE Drain
  <2> DEFINE e == Head(events)
  <2>1. /\ open /\ events # <<>> /\ manager' = Taken(manager, e) /\ events' = Tail(events)
        /\ crossed' = crossed \union Crosses(manager, e) /\ UNCHANGED <<open, thread>>
    BY <1>7 DEF Drain, WindowOpen, outside
  <2>2. e \in UpdateEvents
    BY <1>0, <2>1, EventTaken
  <2>3. /\ manager'.checking = FALSE
        /\ manager'.downloading <=> (manager.downloading /\ e.kind \notin {"Downloaded", "Error"})
    BY <1>0, <2>1, <2>2, TakenShape
  <2>4. /\ e.from = "download" /\ manager.checking => "check" \in crossed'
        /\ e.from = "check" /\ e.kind = "Error" /\ manager.downloading => "download" \in crossed'
    BY <2>1 DEF Crosses
  <2>5. /\ e.from \in {"check", "download"}
        /\ e.from = "download" => e.kind \in {"Downloaded", "Error"}
        /\ e.from = "check" => e.kind # "Downloaded"
    BY <2>2, EventShape
  <2>6. ASSUME NEW kind \in Kinds
        PROVE  /\ OneAnswer(kind) => OneAnswer(kind)'
               /\ Outstanding(kind)' => Outstanding(kind)
               /\ e.from # kind /\ Outstanding(kind) => Outstanding(kind)'
               /\ OneAnswer(kind) /\ e.from = kind => ~Outstanding(kind)'
    BY <1>0, <2>1, AnswersLeft
  <2> HIDE DEF e
  <2>7. SpinnerInv("check", manager.checking)'
    <3>1. CASE "check" \in crossed \/ "check" \in crossed'
      BY <2>1, <3>1 DEF SpinnerInv
    <3>2. CASE "check" \notin crossed /\ "check" \notin crossed'
      <4>1. OneAnswer("check") /\ (manager.checking <=> Outstanding("check"))
        BY <2>1, <3>2 DEF SpinnersInv, SpinnerInv
      <4>2. ~Outstanding("check")'
        BY <1>0, <2>4, <2>5, <2>6, <3>2, <4>1
      <4>3. QED
        BY <1>0, <2>3, <2>6, <4>1, <4>2 DEF SpinnerInv
    <3>3. QED
      BY <3>1, <3>2
  <2>8. SpinnerInv("download", manager.downloading)'
    <3>1. CASE "download" \in crossed \/ "download" \in crossed'
      BY <2>1, <3>1 DEF SpinnerInv
    <3>2. CASE "download" \notin crossed /\ "download" \notin crossed'
      <4>1. OneAnswer("download") /\ (manager.downloading <=> Outstanding("download"))
        BY <2>1, <3>2 DEF SpinnersInv, SpinnerInv
      <4>2. manager'.downloading <=> Outstanding("download")'
        BY <1>0, <2>3, <2>4, <2>5, <2>6, <3>2, <4>1
      <4>3. QED
        BY <1>0, <2>6, <4>1, <4>2 DEF SpinnerInv
    <3>3. QED
      BY <3>1, <3>2
  <2>9. QED
    BY <2>7, <2>8 DEF SpinnersInv
<1>8. CASE \E c \in Channels : SetChannel(c) \/ Publish(c)
  <2>1. /\ UNCHANGED <<open, crossed, events, thread>>
        /\ manager' \in {manager, [manager EXCEPT !.available = None, !.downloaded = None]}
    BY <1>8 DEF SetChannel, Publish, outside
  <2>2. manager'.checking = manager.checking /\ manager'.downloading = manager.downloading
    BY <1>0, <2>1 DEF Managers
  <2>3. QED
    BY <1>2, <2>1, <2>2
<1>9. CASE Install \/ UNCHANGED vars
  BY <1>2, <1>9 DEF Install, vars, outside
\* No process, or one that has just started.
<1>10. ASSUME events' = <<>>, thread' = NoThreads, ~open' \/ manager' = Fresh(FALSE)
       PROVE  SpinnersInv'
  <2>1. \A kind \in Kinds, u \in Threads : ~Owes(thread'[u], kind)
    BY <1>10, ClosedThreads, NewTasksOwe
  <2>2. \A kind \in Kinds : OneAnswer(kind)' /\ ~Outstanding(kind)'
    BY <1>10, <2>1, NoAnswers
  <2>3. manager' = Fresh(FALSE) => manager'.checking = FALSE /\ manager'.downloading = FALSE
    BY FreshManager
  <2>4. QED
    BY <1>0, <1>10, <2>2, <2>3 DEF SpinnersInv, SpinnerInv
<1>11. CASE Exit
  BY <1>10, <1>11 DEF Exit
<1>12. CASE InstallerRuns
  BY <1>0, <1>10, <1>12 DEF InstallerRuns, ClosedInv
<1>13. CASE \E automatic \in BOOLEAN : Start(automatic)
  <2>1. PICK automatic \in BOOLEAN : Start(automatic)
    BY <1>13
  <2>2. ~open /\ events = <<>> /\ thread = NoThreads /\ events' = <<>> /\ manager' = Fresh(automatic)
    BY <1>0, <2>1 DEF Start, ClosedInv
  <2>3. CASE automatic
    <3>1. thread' = [NoThreads EXCEPT ![1] = Asking(channel)] /\ channel \in Channels
      BY <1>0, <2>1, <2>3 DEF Start, TypeOK
    <3>2. /\ Owes(thread'[1], "check")
          /\ \A u \in Threads \ {1} : ~Owes(thread'[u], "check")
          /\ \A u \in Threads : ~Owes(thread'[u], "download")
      BY <1>0, <3>1, ClosedThreads, NewTasksOwe
    <3>3. \A i \in 1 .. Len(events') : FALSE
      BY <2>2
    <3>4. OneAnswer("check")' /\ Outstanding("check")'
      BY <3>2, <3>3, Bounds DEF OneAnswer, Outstanding
    <3>5. OneAnswer("download")' /\ ~Outstanding("download")'
      BY <1>0, <2>2, <3>2, NoAnswers
    <3>6. manager'.checking = TRUE /\ manager'.downloading = FALSE
      BY <2>2, <2>3, FreshManager
    <3>7. QED
      BY <3>4, <3>5, <3>6 DEF SpinnersInv, SpinnerInv
  <2>4. CASE ~automatic
    BY <1>10, <2>1, <2>2, <2>4 DEF Start
  <2>5. QED
    BY <2>3, <2>4
<1>14. QED
  BY <1>3, <1>4, <1>5, <1>6, <1>7, <1>8, <1>9, <1>11, <1>12, <1>13
     DEF Next, ThreadStep, Works

-----------------------------------------------------------------------------
(* The files of a download.                                                *)

\* A thread or an event that is not about a download says nothing of a file.
LEMMA NoFile ==
  /\ \A u \in Threads : thread'[u] \in Tasks /\ ~Owes(thread'[u], "download") => FileOf(thread[u])'
  /\ \A e \in UpdateEvents : e.from # "download" => e.kind # "Downloaded"
<1>1. \A e \in UpdateEvents : e.from # "download" => e.kind # "Downloaded"
  BY EventShape
<1>2. ASSUME NEW u \in Threads, thread'[u] \in Tasks, ~Owes(thread'[u], "download")
      PROVE  FileOf(thread[u])'
  <2>1. thread'[u].phase \notin {"fetch", "write", "swap"}
        /\ (thread'[u].phase = "post" => thread'[u].event.from # "download")
    BY <1>2 DEF Owes
  <2>2. thread'[u].phase = "post" => thread'[u].event \in UpdateEvents
    BY <1>2, TaskShape
  <2>3. thread'[u].phase = "post" => thread'[u].event.kind # "Downloaded"
    BY <1>1, <2>1, <2>2
  <2>4. QED
    BY <2>1, <2>3 DEF FileOf, Loaded
<1>3. QED
  BY <1>1, <1>2

\* The step of the one thread that downloads keeps the promise about its own file.
LEMMA OwnFile ==
  ASSUME TypeOK, OpenFilesInv, NEW t \in Threads, Works(t), FileOf(thread[t])
  PROVE  FileOf(thread[t])'
<1>a. temp \in Files /\ final \in Files
  BY FilesTyped
<1>b. \A task \in Tasks : Advances(t, task) => thread'[t] = task
  BY DEF Advances
<1>c. \A v, x : temp' = [temp EXCEPT ![v] = x] /\ v \in Versions => temp'[v] = x
  BY <1>a DEF Files
<1>d. \A v, x : final' = [final EXCEPT ![v] = x] /\ v \in Versions => final'[v] = x
  BY <1>a DEF Files
\* An answer that is not a finished download says nothing of a file.
<1>1. ASSUME NEW e \in UpdateEvents, thread'[t] = Posting(e), e.kind # "Downloaded"
      PROVE  FileOf(thread[t])'
  <2>1. thread'[t].phase = "post" /\ thread'[t].event = e
    BY <1>1, TasksMade
  <2>2. QED
    BY <1>1, <2>1 DEF FileOf, Loaded
<1>2. CASE Answer(t)
  <2>1. PICK e \in UpdateEvents : Becomes(t, Posting(e)) /\ e.kind # "Downloaded"
    BY <1>2, AnswerShape
  <2>2. thread'[t] = Posting(e)
    BY <2>1, BecomesShape, TasksMade DEF Advances
  <2>3. QED
    BY <1>1, <2>1, <2>2
<1>3. CASE CreateFile(t)
  <2>1. PICK o \in Offers :
           /\ Becomes(t, Writing(o, 0, "temp")) /\ Writing(o, 0, "temp") \in Tasks
           /\ temp' = [temp EXCEPT ![o.version] = {}]
    BY <1>3, CreateShape
  <2>2. thread'[t] = Writing(o, 0, "temp") /\ o.version \in Versions
    BY <2>1, BecomesShape, OfferShape DEF Advances
  <2>3. /\ thread'[t].phase = "write" /\ thread'[t].offer = o
        /\ thread'[t].at = 0 /\ thread'[t].file = "temp"
    BY <2>2, WritingMade, Bounds DEF Places
  <2>4. temp'[o.version] = {}
    BY <1>c, <2>1, <2>2
  <2>5. {} = 1 .. 0
    OBVIOUS
  <2>6. QED
    BY <2>3, <2>4, <2>5 DEF FileOf
<1>4. CASE PutPart(t)
  <2>1. PICK o \in Offers, n \in 0 .. Parts, p \in Places :
           /\ thread[t] = Writing(o, n, p) /\ n + 1 \in 0 .. Parts
           /\ Becomes(t, Writing(o, n + 1, p))
           /\ p = "temp" => temp' = [temp EXCEPT ![o.version] = temp[o.version] \union {n + 1}]
    BY <1>4, PutShape DEF OpenFilesInv
  <2>2. /\ thread[t].phase = "write" /\ thread[t].offer = o /\ thread[t].at = n
        /\ thread[t].file = p /\ o.version \in Versions
    BY <2>1, WritingMade, OfferShape
  <2>3. p = "temp" /\ temp[o.version] = 1 .. n
    BY <2>2 DEF FileOf
  <2>4. Writing(o, n + 1, p) \in Tasks
    BY <2>1, WritingMade
  <2>5. thread'[t] = Writing(o, n + 1, p)
    BY <2>1, <2>4, BecomesShape DEF Advances
  <2>6. /\ thread'[t].phase = "write" /\ thread'[t].offer = o
        /\ thread'[t].at = n + 1 /\ thread'[t].file = "temp"
    BY <2>1, <2>3, <2>5, WritingMade
  <2>7. temp'[o.version] = (1 .. n) \union {n + 1}
    <3> DEFINE x == (1 .. n) \union {n + 1}
    <3>1. temp' = [temp EXCEPT ![o.version] = x]
      BY <2>1, <2>3
    <3> HIDE DEF x
    <3>2. temp'[o.version] = x
      BY <1>c, <2>2, <3>1
    <3>3. QED
      BY <3>2 DEF x
  <2>8. (1 .. n) \union {n + 1} = 1 .. n + 1
    BY <2>1
  <2>9. QED
    BY <2>6, <2>7, <2>8 DEF FileOf
<1>5. CASE Verify(t)
  <2>1. PICK o \in Offers, p \in Places :
           /\ thread[t] = Writing(o, Parts, p) /\ temp' = temp /\ thread'[t] = Swapping(o)
    BY <1>5, VerifyShape DEF Advances
  <2>2. temp[o.version] = Whole
    <3>1. Parts \in 0 .. Parts
      BY Bounds
    <3>2. thread[t].phase = "write" /\ thread[t].offer = o /\ thread[t].at = Parts
      BY <2>1, <3>1, WritingMade
    <3>3. QED
      BY <3>2 DEF FileOf, Whole
  <2>3. thread'[t].phase = "swap" /\ thread'[t].offer = o
    BY <2>1, TasksMade
  <2>4. QED
    BY <2>1, <2>2, <2>3 DEF FileOf, Whole
<1>6. CASE Mismatch(t)
  BY <1>1, <1>6, MismatchShape, EventsMade DEF Advances
<1>7. CASE Fail(t)
  BY <1>1, <1>7, FailShape, BecomesShape, EventsMade DEF Advances
<1>8. CASE Rename(t)
  <2>1. PICK o \in Offers :
           /\ thread[t].phase = "swap" /\ thread[t].offer = o
           /\ final' = [final EXCEPT ![o.version] = temp[o.version]]
           /\ thread'[t] = Posting(Downloaded(o))
    BY <1>8, RenameShape DEF Advances
  <2>2. o.version \in Versions /\ temp[o.version] = Whole
    BY <2>1, OfferShape DEF FileOf
  <2>3. final'[o.version] = Whole
    BY <1>d, <2>1, <2>2
  <2>4. Downloaded(o) \in UpdateEvents /\ Downloaded(o).offer = o
    BY EventsMade
  <2>5. thread'[t].phase = "post" /\ thread'[t].event = Downloaded(o)
    BY <2>1, <2>4, TasksMade
  <2>6. QED
    BY <2>3, <2>4, <2>5 DEF FileOf, Loaded, Whole
<1>9. QED
  BY <1>2, <1>3, <1>4, <1>5, <1>6, <1>7, <1>8 DEF Works

LEMMA FilesStep ==
  ASSUME BasicInv, SpinnersInv, FilesInv, [Next]_vars
  PROVE  FilesInv'
<1>0. /\ TypeOK /\ OpenFilesInv /\ ClosedInv /\ manager \in Managers
      /\ thread \in [Threads -> Tasks] /\ "download" \in Kinds /\ events \in Seq(UpdateEvents)
  BY DEF BasicInv, TypeOK, Managers, Kinds
\* What the invariant says as long as no failed check has hidden a download.
<1>a. ASSUME "download" \notin crossed
      PROVE  /\ OneAnswer("download") /\ \A u \in Threads : FileOf(thread[u])
             /\ \A i \in 1 .. Len(events) : Loaded(events[i])
             /\ manager.downloaded # None => Ready(manager.downloaded.version)
             /\ scheduled # None => Ready(scheduled)
             /\ open => (manager.downloading <=> Outstanding("download"))
  BY <1>a DEF SpinnersInv, SpinnerInv, FilesInv
\* Threads that stay, or owe no download.
<1>b. ASSUME UNCHANGED files, NEW u \in Threads, FileOf(thread[u]), thread'[u] = thread[u]
      PROVE  FileOf(thread[u])'
  BY <1>b DEF FileOf, Loaded, files
<1>c. ASSUME UNCHANGED files, UNCHANGED events, \A i \in 1 .. Len(events) : Loaded(events[i])
      PROVE  \A i \in 1 .. Len(events') : Loaded(events[i])'
  BY <1>c DEF Loaded, files
\* A step that leaves files, threads and events, and offers nothing new.
<1>1. ASSUME UNCHANGED <<files, thread, events, crossed>>,
             manager'.downloaded \in {manager.downloaded, None},
             \/ scheduled' \in {scheduled, None}
             \/ manager.downloaded # None /\ scheduled' = manager.downloaded.version
      PROVE  FilesInv'
  <2>1. CASE "download" \in crossed
    BY <1>1, <2>1 DEF FilesInv
  <2>2. CASE "download" \notin crossed
    <3>1. Outstanding("download")' => Outstanding("download")
      BY <1>1 DEF Outstanding, Owes
    <3>2. manager'.downloaded # None => Ready(manager.downloaded.version)'
      <4>1. SUFFICES ASSUME manager'.downloaded # None PROVE Ready(manager.downloaded.version)'
        OBVIOUS
      <4>2. manager'.downloaded = manager.downloaded /\ manager.downloaded # None
        BY <1>1, <4>1
      <4>3. Ready(manager.downloaded.version)
        BY <1>a, <2>2, <4>2
      <4>4. final'[manager.downloaded.version] = Whole /\ ~Outstanding("download")'
        BY <1>1, <3>1, <4>3 DEF Ready, files
      <4>5. QED
        BY <4>2, <4>4 DEF Ready, Whole
    <3>3. scheduled' # None => Ready(scheduled)'
      <4>1. SUFFICES ASSUME scheduled' # None PROVE Ready(scheduled)'
        OBVIOUS
      <4>2. Ready(scheduled')
        BY <1>a, <1>1, <2>2, <4>1
      <4>3. final'[scheduled'] = Whole /\ ~Outstanding("download")'
        BY <1>1, <3>1, <4>2 DEF Ready, files
      <4>4. QED
        BY <4>3 DEF Ready, Whole
    <3>4. \A u \in Threads : FileOf(thread[u])'
      BY <1>a, <1>b, <1>1, <2>2
    <3>5. \A i \in 1 .. Len(events') : Loaded(events[i])'
      BY <1>a, <1>c, <1>1, <2>2
    <3>6. QED
      BY <3>2, <3>3, <3>4, <3>5 DEF FilesInv
  <2>3. QED
    BY <2>1, <2>2
\* Nothing but what is scheduled survives a process.
<1>2. ASSUME events' = <<>>, thread' = NoThreads \/ thread' = [NoThreads EXCEPT ![1] = Asking(channel)],
             manager'.downloaded = None, UNCHANGED files,
             scheduled' # None => scheduled' = scheduled /\ crossed' = crossed
      PROVE  FilesInv'
  <2>1. \A u \in Threads : thread'[u] \in Tasks /\ ~Owes(thread'[u], "download")
    BY <1>0, <1>2, ClosedThreads, NewTasksOwe, TasksMade DEF TypeOK
  <2>2. ~Outstanding("download")' /\ \A i \in 1 .. Len(events') : FALSE
    BY <1>0, <1>2, <2>1, NoAnswers
  <2>3. \A u \in Threads : FileOf(thread[u])'
    BY <2>1, NoFile
  <2>4. "download" \in crossed' \/ (scheduled' # None => Ready(scheduled)')
    BY <1>a, <1>2, <2>2 DEF Ready, files, Whole
  <2>5. QED
    BY <1>2, <2>2, <2>3, <2>4 DEF FilesInv
<1>3. ASSUME NEW t \in Threads, Works(t) PROVE FilesInv'
  <2>1. UNCHANGED <<outside, channel, manager, crossed, events>>
    BY <1>0, <1>3, WorkShape
  <2>2. PICK task \in Tasks : /\ Advances(t, task)
                              /\ \A kind \in Kinds : Owes(task, kind) <=> Owes(thread[t], kind)
    BY <1>0, <1>3, WorkShape DEF Kinds
  <2>3. \A u \in Threads : Owes(thread'[u], "download") <=> Owes(thread[u], "download")
    BY <1>0, <2>2, OwedAfter
  <2>4. Outstanding("download")' <=> Outstanding("download")
    BY <1>0, <2>1, <2>3, SameAnswers
  <2>5. CASE "download" \in crossed
    BY <2>1, <2>5 DEF FilesInv
  <2>6. CASE "download" \notin crossed /\ Owes(thread[t], "download")
    \* The one download: there is nothing it could spoil but its own files.
    <3>1. Outstanding("download")
      BY <2>6 DEF Outstanding
    <3>2. manager'.downloaded = None /\ scheduled' = None
      BY <1>a, <2>1, <2>6, <3>1 DEF Ready, outside
    <3>3. ASSUME NEW u \in Threads, u # t PROVE FileOf(thread[u])'
      <4>1. ~Owes(thread'[u], "download") /\ thread'[u] \in Tasks
        BY <1>a, <2>2, <2>3, <2>6, <3>3 DEF OneAnswer, Advances
      <4>2. QED
        BY <4>1, NoFile
    <3>4. FileOf(thread[t])'
      BY <1>0, <1>a, <1>3, <2>6, OwnFile
    <3>5. ASSUME NEW i \in 1 .. Len(events') PROVE Loaded(events[i])'
      <4>1. events'[i] \in UpdateEvents /\ events'[i].from # "download"
        BY <1>0, <1>a, <2>1, <2>6 DEF OneAnswer
      <4>2. QED
        BY <4>1, NoFile DEF Loaded
    <3>6. QED
      BY <3>2, <3>3, <3>4, <3>5 DEF FilesInv
  <2>7. CASE "download" \notin crossed /\ ~Owes(thread[t], "download")
    \* A check touches no file.
    <3>1. Answer(t)
      BY <1>3, <2>7 DEF Works, Owes, CreateFile, PutPart, Put, Verify, Swaps, Mismatch, Rename, Fail
    <3>2. UNCHANGED files /\ \A u \in Threads \ {t} : thread'[u] = thread[u]
      BY <1>0, <3>1, AnswerShape, BecomesShape, TasksMade
    <3>3. thread'[t] \in Tasks /\ ~Owes(thread'[t], "download")
      BY <2>2, <2>3, <2>7 DEF Advances
    <3>4. \A u \in Threads : FileOf(thread[u])'
      BY <1>a, <1>b, <2>7, <3>2, <3>3, NoFile
    <3>5. \A i \in 1 .. Len(events') : Loaded(events[i])'
      BY <1>a, <1>c, <2>1, <2>7, <3>2
    <3>6. /\ manager'.downloaded # None => Ready(manager.downloaded.version)'
          /\ scheduled' # None => Ready(scheduled)'
      BY <1>a, <2>1, <2>4, <2>7, <3>2 DEF Ready, outside, files, Whole
    <3>7. QED
      BY <3>4, <3>5, <3>6 DEF FilesInv
  <2>8. QED
    BY <2>5, <2>6, <2>7
<1>4. ASSUME NEW t \in Threads, Post(t) PROVE FilesInv'
  <2>1. UNCHANGED <<outside, channel, manager, crossed, files>>
    BY <1>4 DEF Post, Untouched
  <2>2. Outstanding("download")' <=> Outstanding("download")
    BY <1>0, <1>4, PostedAnswers
  <2>3. PICK e \in UpdateEvents :
           /\ thread[t].phase = "post" /\ thread[t].event = e
           /\ events' = Append(events, e) /\ Len(events) < MaxEvents
           /\ Becomes(t, Idle) /\ Idle \in Tasks
    BY <1>0, <1>4, PostShape
  <2>4. CASE "download" \in crossed
    BY <2>1, <2>4 DEF FilesInv
  <2>5. CASE "download" \notin crossed
    <3>1. \A i \in 1 .. Len(events) : Loaded(events[i])'
      BY <1>a, <2>1, <2>5, <1>0, <2>3, EventPosted DEF Loaded, files
    <3>2. Loaded(e) /\ Loaded(e)'
      BY <1>a, <2>1, <2>3, <2>5 DEF FileOf, Loaded, files, Whole
    <3>3. \A i \in 1 .. Len(events') : Loaded(events[i])'
      <4>1. /\ Len(events) \in Nat /\ Len(events') = Len(events) + 1 /\ events'[Len(events) + 1] = e
            /\ \A i \in 1 .. Len(events) : events'[i] = events[i]
        BY <1>0, <2>3, EventPosted
      <4>2. QED
        BY <3>1, <3>2, <4>1 DEF Loaded
    <3>4. \A u \in Threads : FileOf(thread[u])'
      <4>1. \A u \in Threads \ {t} : thread'[u] = thread[u]
        BY <1>0, <2>3, BecomesShape
      <4>2. thread'[t] \in Tasks /\ ~Owes(thread'[t], "download")
        BY <1>0, <2>3, BecomesShape, NewTasksOwe DEF Advances
      <4>3. QED
        BY <1>a, <1>b, <2>1, <2>5, <4>1, <4>2, NoFile
    <3>5. /\ manager'.downloaded # None => Ready(manager.downloaded.version)'
          /\ scheduled' # None => Ready(scheduled)'
      BY <1>a, <2>1, <2>2, <2>5 DEF Ready, outside, files, Whole
    <3>6. QED
      BY <3>3, <3>4, <3>5 DEF FilesInv
  <2>6. QED
    BY <2>4, <2>5
<1>5. ASSUME NEW t \in Threads, Check(t) PROVE FilesInv'
  <2>1. /\ Spawn(t, Asking(channel)) /\ UNCHANGED <<scheduled, crossed, events, files>>
        /\ manager' = [manager EXCEPT !.checking = TRUE]
    BY <1>5 DEF Check, outside
  <2>2. Asking(channel) \in Tasks /\ ~Owes(Asking(channel), "download") /\ ~Owes(Idle, "download")
    BY <1>0, TasksMade, NewTasksOwe DEF TypeOK
  <2>3. \A u \in Threads : Owes(thread'[u], "download") <=> Owes(thread[u], "download")
    BY <1>0, <2>1, <2>2, SpawnShape, OwedAfter
  <2>4. Outstanding("download")' <=> Outstanding("download")
    BY <1>0, <2>1, <2>3, SameAnswers
  <2>5. /\ thread'[t] = Asking(channel) /\ \A u \in Threads \ {t} : thread'[u] = thread[u]
        /\ manager'.downloaded = manager.downloaded
    BY <1>0, <2>1, <2>2, SpawnShape DEF Advances, Managers
  <2>6. CASE "download" \in crossed
    BY <2>1, <2>6 DEF FilesInv
  <2>7. CASE "download" \notin crossed
    <3>1. \A u \in Threads : FileOf(thread[u])'
      BY <1>a, <1>b, <2>1, <2>2, <2>5, <2>7, NoFile
    <3>2. \A i \in 1 .. Len(events') : Loaded(events[i])'
      BY <1>a, <1>c, <2>1, <2>7
    <3>3. /\ manager'.downloaded # None => Ready(manager.downloaded.version)'
          /\ scheduled' # None => Ready(scheduled)'
      BY <1>a, <2>1, <2>4, <2>5, <2>7 DEF Ready, files, Whole
    <3>4. QED
      BY <3>1, <3>2, <3>3 DEF FilesInv
  <2>8. QED
    BY <2>6, <2>7
<1>6. ASSUME NEW t \in Threads, Download(t) PROVE FilesInv'
  <2> DEFINE task == Fetching(manager.available)
  <2>1. /\ Spawn(t, task) /\ UNCHANGED <<scheduled, crossed, events, files>>
        /\ scheduled = None /\ manager.downloaded = None
        /\ manager' = [manager EXCEPT !.downloading = TRUE] /\ manager.available \in Offers
    BY <1>0, <1>6 DEF Download, Clicked, WindowOpen, outside, Managers
  <2>2. task \in Tasks /\ task.phase = "fetch"
    BY <2>1, TasksMade
  <2> HIDE DEF task
  <2>3. /\ thread'[t] = task /\ \A u \in Threads \ {t} : thread'[u] = thread[u]
        /\ manager'.downloaded = None
    BY <1>0, <2>1, <2>2, SpawnShape DEF Advances, Managers
  <2>4. CASE "download" \in crossed
    BY <2>1, <2>4 DEF FilesInv
  <2>5. CASE "download" \notin crossed
    <3>1. FileOf(thread[t])'
      BY <2>2, <2>3 DEF FileOf
    <3>2. \A u \in Threads : FileOf(thread[u])'
      BY <1>a, <1>b, <2>1, <2>3, <2>5, <3>1
    <3>3. \A i \in 1 .. Len(events') : Loaded(events[i])'
      BY <1>a, <1>c, <2>1, <2>5
    <3>4. QED
      BY <2>1, <2>3, <3>2, <3>3 DEF FilesInv
  <2>6. QED
    BY <2>4, <2>5
<1>7. CASE Drain
  <2> DEFINE e == Head(events)
  <2>1. /\ scheduled = None /\ scheduled' = None /\ events # <<>> /\ events' = Tail(events)
        /\ manager' = Taken(manager, e) /\ crossed \subseteq crossed'
        /\ UNCHANGED <<thread, files>>
    BY <1>7 DEF Drain, WindowOpen, outside
  <2>2. e \in UpdateEvents /\ e = events[1] /\ 1 \in 1 .. Len(events)
    BY <1>0, <2>1, EventTaken
  <2>3. CASE "download" \in crossed
    BY <2>1, <2>3 DEF FilesInv
  <2>4. CASE "download" \notin crossed
    <3>1. \A u \in Threads : FileOf(thread[u])'
      BY <1>a, <1>b, <2>1, <2>4
    <3>2. \A i \in 1 .. Len(events') : Loaded(events[i])'
      <4>1. \A i \in 1 .. Len(events') : i + 1 \in 1 .. Len(events) /\ events'[i] = events[i + 1]
        BY <1>0, <2>1, EventTaken
      <4>2. QED
        BY <1>a, <2>1, <2>4, <4>1 DEF Loaded, files
    <3>3. /\ Outstanding("download")' => Outstanding("download")
          /\ e.from = "download" => ~Outstanding("download")'
      BY <1>0, <1>a, <2>1, <2>4, AnswersLeft
    <3>4. manager'.downloaded # None => Ready(manager.downloaded.version)'
      <4>1. manager'.downloaded \in {manager.downloaded, None}
              \/ (e.kind = "Downloaded" /\ manager'.downloaded = e.offer)
        BY <1>0, <2>1, <2>2, TakenShape
      <4>2. CASE manager'.downloaded = manager.downloaded
        BY <1>a, <2>1, <2>4, <3>3, <4>2 DEF Ready, files, Whole
      <4>3. CASE e.kind = "Downloaded" /\ manager'.downloaded = e.offer
        <5>1. Loaded(e) /\ e.from = "download"
          BY <1>a, <2>2, <2>4, <4>3, EventShape
        <5>2. QED
          BY <2>1, <3>3, <4>3, <5>1 DEF Loaded, Ready, files, Whole
      <4>4. QED
        BY <4>1, <4>2, <4>3
    <3>5. QED
      BY <2>1, <3>1, <3>2, <3>4 DEF FilesInv
  <2>5. QED
    BY <2>3, <2>4
<1>8. CASE \E c \in Channels : SetChannel(c) \/ Publish(c)
  <2>1. /\ UNCHANGED <<files, thread, events, crossed, scheduled>>
        /\ manager' \in {manager, [manager EXCEPT !.available = None, !.downloaded = None]}
    BY <1>8 DEF SetChannel, Publish, outside
  <2>2. manager'.downloaded \in {manager.downloaded, None}
    BY <1>0, <2>1 DEF Managers
  <2>3. QED
    BY <1>1, <2>1, <2>2
<1>9. CASE Install \/ UNCHANGED vars
  BY <1>1, <1>9 DEF Install, vars, outside
<1>10. CASE Exit
  <2>1. /\ manager' = Fresh(FALSE) /\ thread' = NoThreads /\ events' = <<>>
        /\ scheduled' = scheduled /\ UNCHANGED files
        /\ scheduled # None => crossed' = crossed
    BY <1>10 DEF Exit
  <2>2. QED
    BY <1>2, <2>1, FreshManager
<1>11. CASE InstallerRuns
  <2>1. /\ scheduled' = None /\ UNCHANGED files
        /\ manager' = Fresh(FALSE) /\ thread' = NoThreads /\ events' = <<>>
    BY <1>0, <1>11 DEF InstallerRuns, ClosedInv
  <2>2. QED
    BY <1>2, <2>1, FreshManager
<1>12. CASE \E automatic \in BOOLEAN : Start(automatic)
  <2>1. PICK automatic \in BOOLEAN : Start(automatic)
    BY <1>12
  <2>2. /\ scheduled' = None /\ UNCHANGED files /\ manager' = Fresh(automatic) /\ events' = <<>>
        /\ thread' = NoThreads \/ thread' = [NoThreads EXCEPT ![1] = Asking(channel)]
    BY <1>0, <2>1 DEF Start, ClosedInv
  <2>3. QED
    BY <1>2, <2>2, FreshManager
<1>13. QED
  BY <1>3, <1>4, <1>5, <1>6, <1>7, <1>8, <1>9, <1>10, <1>11, <1>12
     DEF Next, ThreadStep, Works

-----------------------------------------------------------------------------
(* The theorems.                                                           *)

LEMMA UpdatesStart ==
  ASSUME Init
  PROVE  UpdatesInv
<1>1. /\ running \in Versions /\ feed \in [Channels -> Versions]
      /\ open = FALSE /\ channel \in Channels
      /\ manager = Fresh(FALSE) /\ thread = NoThreads /\ events = <<>>
      /\ temp = [v \in Versions |-> None] /\ final = [v \in Versions |-> None]
      /\ scheduled = None /\ crossed = {}
  BY DEF Init
<1>2. /\ manager \in Managers /\ manager.checking = FALSE /\ manager.downloading = FALSE
      /\ manager.available = None /\ manager.downloaded = None
  BY <1>1, FreshManager
<1>3. /\ thread \in [Threads -> Tasks]
      /\ \A t \in Threads : thread[t] = Idle /\ thread[t].phase = "idle"
  BY <1>1, ClosedThreads, TasksMade
<1>4. /\ events \in Seq(UpdateEvents) /\ Len(events) <= MaxEvents
      /\ \A i \in 1 .. Len(events) : FALSE
  BY <1>1, Bounds
<1>5. TypeOK
  BY <1>1, <1>2, <1>3, <1>4, Bounds DEF TypeOK, Managers
<1>6. OpenFilesInv /\ ClosedInv /\ NewerInv
  BY <1>1, <1>2, <1>3, <1>4 DEF OpenFilesInv, HasFile, ClosedInv, NewerInv, NewerTask
<1>7. \A kind \in Kinds, t \in Threads : ~Owes(thread[t], kind)
  BY <1>3, NewTasksOwe
<1>8. SpinnersInv
  BY <1>1, <1>4, <1>7 DEF SpinnersInv, SpinnerInv, OneAnswer, Kinds
<1>9. FilesInv
  BY <1>1, <1>2, <1>3, <1>4 DEF FilesInv, FileOf
<1>10. QED
  BY <1>5, <1>6, <1>8, <1>9 DEF UpdatesInv, BasicInv

\* The state of the updates, over every order in which checks, downloads, clicks,
\* crashes and installations may come (updates.rs, all of it).
THEOREM UpdatesInvariant == Spec => []UpdatesInv
<1>1. Init => UpdatesInv
  BY UpdatesStart
<1>2. UpdatesInv /\ [Next]_vars => UpdatesInv'
  BY BasicStep, SpinnersStep, FilesStep DEF UpdatesInv
<1>3. QED
  BY <1>1, <1>2, PTL DEF Spec

\* Two kinds of threads answer over one channel (updates.rs:76-138); whatever is
\* asked, answered, dropped or restarted, every part of the state has its type, and
\* the channel never holds more than it has room for.
THEOREM UpdatesTypeCorrect == Spec => []TypeOK
<1>1. UpdatesInv => TypeOK
  BY DEF UpdatesInv, BasicInv
<1>2. QED
  BY <1>1, UpdatesInvariant, PTL

\* The flags that UpdateManager sets when it starts a thread and drain clears by the
\* event that comes first (updates.rs:80, 101, 113-138) say what the threads really
\* do, but for the one crossing that the code has.
THEOREM SpinnersAreTrue == Spec => []SpinnersTellTruth
<1>1. UpdatesInv => SpinnersTellTruth
  BY DEF UpdatesInv, SpinnersInv, SpinnerInv, SpinnersTellTruth
<1>2. QED
  BY <1>1, UpdatesInvariant, PTL

\* What drain calls downloaded, and what the script starts after the process has
\* gone (updates.rs:126-129, 140-171), is the file whose hash download_update has
\* compared (207-259): nobody has written to it since.
THEOREM VerifiedIsLaunched == Spec => []InstallerIsVerified
<1>1. UpdatesInv => InstallerIsVerified
  BY DEF UpdatesInv, FilesInv, Ready, InstallerIsVerified
<1>2. QED
  BY <1>1, UpdatesInvariant, PTL

-----------------------------------------------------------------------------
(* The order of versions.                                                  *)

LEMMA ReleaseShape ==
  ASSUME NEW v \in Versions
  PROVE  Release[v].core \in Seq(Nat) /\ Release[v].suffix \in Seq(Nat)
  BY UpdatesAssumption DEF Versions

LEMMA NothingAboveItself == \A a \in Seq(Nat) : ~Above(a, a)
  BY DEF Above

\* A sequence is above another one by its first number, or both begin with the same.
LEMMA AboveStarts ==
  ASSUME NEW a \in Seq(Nat), NEW b \in Seq(Nat), a # <<>>, b # <<>>
  PROVE  /\ a[1] > b[1] => Above(a, b)
         /\ Above(a, b) => a[1] > b[1] \/ a[1] = b[1]
<1>1. Len(a) \in Nat \ {0} /\ Len(b) \in Nat \ {0} /\ a[1] \in Nat /\ b[1] \in Nat
  BY EmptySeq
<1>2. ASSUME a[1] > b[1] PROVE Above(a, b)
  <2>1. 1 \in 1 .. Len(a) /\ \A j \in 1 .. 1 - 1 : FALSE
    BY <1>1
  <2>2. QED
    BY <1>2, <2>1 DEF Above
<1>3. ASSUME Above(a, b) PROVE a[1] > b[1] \/ a[1] = b[1]
  <2>1. PICK i \in 1 .. Len(a) : /\ \A j \in 1 .. i - 1 : j <= Len(b) /\ a[j] = b[j]
                                 /\ i > Len(b) \/ a[i] > b[i]
    BY <1>3 DEF Above
  <2>2. CASE i = 1
    BY <1>1, <2>1, <2>2
  <2>3. CASE i # 1
    <3>1. 1 \in 1 .. i - 1
      BY <1>1, <2>1, <2>3
    <3>2. QED
      BY <2>1, <3>1
  <2>4. QED
    BY <2>2, <2>3
<1>4. QED
  BY <1>2, <1>3

\* The comparison of is_newer (updates.rs:293-319), cores as numbers and suffixes as
\* text, is the precedence of semantic versioning for every two versions but
\* previews of one release and stage whose numbers differ in length.
THEOREM NewerIsByPrecedence ==
  ASSUME NEW v \in Versions, NEW w \in Versions
  PROVE  /\ IsNewer(v, w) => Outranks(v, w) \/ MisreadNumbers(v, w)
         /\ Outranks(v, w) => IsNewer(v, w) \/ MisreadNumbers(v, w)
<1> DEFINE a == Release[v]
           b == Release[w]
<1>1. /\ a.core \in Seq(Nat) /\ a.suffix \in Seq(Nat) /\ b.core \in Seq(Nat) /\ b.suffix \in Seq(Nat)
      /\ ~Above(b.core, b.core) /\ ~Above(b.suffix, b.suffix)
  BY ReleaseShape, NothingAboveItself
<1>2. CASE a.core # b.core
  BY <1>2 DEF IsNewer, Outranks
<1>3. CASE a.core = b.core /\ (a.suffix = <<>> \/ b.suffix = <<>>)
  <2>1. ~Above(a.core, b.core)
    BY <1>1, <1>3
  <2>2. a.suffix = b.suffix => ~Above(a.suffix, b.suffix)
    BY <1>1
  <2>3. QED
    BY <1>3, <2>1, <2>2 DEF IsNewer, Outranks
<1>4. CASE a.core = b.core /\ a.suffix # <<>> /\ b.suffix # <<>>
  <2>1. ~Above(a.core, b.core)
    BY <1>1, <1>4
  <2>2. IsNewer(v, w) <=> Above(a.suffix, b.suffix)
    BY <1>4 DEF IsNewer
  <2>3. /\ a.suffix[1] > b.suffix[1] => Above(a.suffix, b.suffix)
        /\ Above(a.suffix, b.suffix) => a.suffix[1] > b.suffix[1] \/ a.suffix[1] = b.suffix[1]
    BY <1>1, <1>4, AboveStarts
  <2>4. Outranks(v, w) <=>
          \/ a.suffix[1] > b.suffix[1]
          \/ /\ a.suffix[1] = b.suffix[1]
             /\ \/ Len(a.suffix) > Len(b.suffix)
                \/ Len(a.suffix) = Len(b.suffix) /\ Above(a.suffix, b.suffix)
    BY <1>4, <2>1 DEF Outranks
  <2>5. MisreadNumbers(v, w) <=>
          a.suffix[1] = b.suffix[1] /\ Len(a.suffix) # Len(b.suffix)
    BY <1>4 DEF MisreadNumbers
  <2>6. Len(a.suffix) \in Nat /\ Len(b.suffix) \in Nat
    BY <1>1
  <2> HIDE DEF a, b
  <2>7. Len(a.suffix) > Len(b.suffix) => Len(a.suffix) # Len(b.suffix)
    BY <2>6
  <2>8. QED
    BY <2>2, <2>3, <2>4, <2>5, <2>7
<1>5. QED
  BY <1>2, <1>3, <1>4

\* is_newer is asked once, when the manifest comes (updates.rs:204); the answer is
\* still about the version that is installed when an installer runs, however long
\* that takes and whatever is published or withdrawn meanwhile.
THEOREM NoDowngrade == Spec => NeverDowngrades
<1>1. UpdatesInv /\ [Next]_vars
        => [Outranks(running', running) \/ MisreadNumbers(running', running)]_running
  <2>1. SUFFICES ASSUME UpdatesInv, [Next]_vars, running' # running
                 PROVE  Outranks(running', running) \/ MisreadNumbers(running', running)
    OBVIOUS
  <2>2. /\ TypeOK /\ OpenFilesInv /\ NewerInv
    BY <2>1 DEF UpdatesInv, BasicInv
  <2>3. \A t \in Threads : Works(t) => running' = running
    BY <2>2, WorkShape DEF outside
  <2>4. InstallerRuns
    BY <2>1, <2>3 DEF Next, ThreadStep, Works, Check, Download, Post, Untouched, SetChannel,
         Publish, Drain, Install, Exit, Start, vars, outside
  <2>5. scheduled # None /\ running' = scheduled
    BY <2>1, <2>4 DEF InstallerRuns
  <2>6. IsNewer(running', running)
    BY <2>2, <2>5 DEF NewerInv
  <2>7. running \in Versions /\ running' \in Versions
    BY <2>2, <2>5 DEF TypeOK
  <2>8. QED
    BY <2>6, <2>7, NewerIsByPrecedence
<1>2. QED
  BY <1>1, UpdatesInvariant, PTL DEF Spec, NeverDowngrades
================================================================================
