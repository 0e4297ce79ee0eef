------------------------ MODULE ListeningSystemProofs ------------------------
(***************************************************************************)
(* What ListeningSystem guarantees for any number of connect attempts and  *)
(* launches of the server: its types, the agreement of screen, service and *)
(* engine, and that the server runs until it is asked to end.              *)
(***************************************************************************)
EXTENDS ListeningSystem, TLAPS

\* What makes the safety properties inductive.  An attempt is live while the
\* composition that made it waits for it;
Live(n) == job[n].at \in Running /\ ~job[n].cancelled

LiveBound ==
  /\ \A n \in Sessions : job[n].at # "none" => n <= attempts
  /\ \A n \in Sessions : Live(n) => screen.bound /\ ~job[n].orphan
  /\ ~screen.bound => /\ ~screen.connected /\ ~screen.connecting /\ ~screen.seen
                      /\ screen.client = NoSession
  /\ service.playing <=> service.client # NoSession

\* one live attempt at a time finds the service silent, and one that lost its
\* composition has lost its service too;
AttemptAlone ==
  ~Hurried =>
    /\ \A n \in Sessions : Live(n) =>
         /\ screen.connecting /\ ~screen.connected /\ ~screen.seen /\ ~service.playing
         /\ job[n].at = "ready" => screen.client = n
    /\ \A n, m \in Sessions : Live(n) /\ Live(m) => n = m
    /\ \A n \in Sessions : job[n].at \in Running /\ job[n].cancelled => job[n].orphan
    /\ service.started => service.playing

\* the button is one frame behind the service at most;
ScreenFollows ==
  ~Hurried /\ screen.bound =>
    /\ screen.seen /\ service.playing => screen.connected
    /\ ~screen.seen /\ ~service.playing => ~screen.connected
    /\ screen.connected /\ service.playing => screen.client = service.client

\* and the engine is the attempt's from prepare to commit, else the service's.
EngineFollows ==
  mishaps = {} =>
    /\ \A n \in Sessions : job[n].at \in Running => ~job[n].cancelled
    /\ Idle => engine = service.client
    /\ \A n \in Sessions :
         /\ job[n].at \in {"stale", "prepare", "leaveThenFail", "failed"} => engine = NoSession
         /\ job[n].at \in {"leaveThenJoin", "join", "joined", "ready"} => engine = n

ScreenInv == TypeOK /\ LiveBound /\ AttemptAlone /\ ScreenFollows /\ EngineFollows

-----------------------------------------------------------------------------
USE ServiceAssumption DEF Sessions, NoSession

-----------------------------------------------------------------------------
\* What the operations do to the records they change.

\* A step of an attempt changes where that one attempt is.
LEMMA JobGoes ==
  ASSUME job \in [Sessions -> JobState], NEW n \in Sessions, NEW step \in Steps, Goes(n, step)
  PROVE  /\ job' \in [Sessions -> JobState]
         /\ \A m \in Sessions : m # n => job'[m] = job[m]
         /\ job'[n].at = step /\ job'[n].orphan = job[n].orphan
         /\ job'[n].cancelled = job[n].cancelled /\ job'[n].stale = job[n].stale
BY DEF Goes, JobState

LEMMA JobEnds ==
  ASSUME job \in [Sessions -> JobState], NEW n \in Sessions, Ends(n)
  PROVE  /\ job' \in [Sessions -> JobState]
         /\ \A m \in Sessions : m # n => job'[m] = job[m]
         /\ job'[n].at = "done" /\ ~job'[n].orphan /\ ~job'[n].cancelled
<1>1. Fresh("done") \in JobState
  BY DEF Fresh, JobState, Steps
<1> QED BY <1>1 DEF Ends, Fresh

\* What an attempt does to the service is done by the live instance: commit
\* starts a session, the rest end one.
LEMMA ServiceOps ==
  ASSUME ServiceTypeOK
  PROVE  /\ FreshService \in ServiceState
         /\ ~FreshService.playing /\ FreshService.client = NoSession /\ ~FreshService.started
         /\ Silent(service) \in ServiceState
         /\ ~Silent(service).playing /\ Silent(service).client = NoSession
         /\ Silent(service).started = service.started
BY DEF ServiceTypeOK, ServiceState, FreshService, Silent

LEMMA Commits ==
  ASSUME ServiceTypeOK, NEW n \in Sessions, CommitPlayback(n),
         service.playing <=> service.client # NoSession
  PROVE  /\ ServiceTypeOK' /\ service'.playing /\ service'.client # NoSession
         /\ engine' = engine
         /\ service'.client = IF service.playing THEN service.client ELSE n
<1> USE DEF ServiceTypeOK, ServiceState
<1>1. CASE service.playing
  <2>1. service' = [service EXCEPT !.started = TRUE] /\ engine' = engine
    BY <1>1 DEF CommitPlayback
  <2>2. service'.playing = service.playing /\ service'.client = service.client
    BY <2>1
  <2> QED BY <1>1, <2>1, <2>2
<1>2. CASE ~service.playing
  BY <1>2 DEF CommitPlayback
<1> QED BY <1>1, <1>2

LEMMA BlankScreen ==
  ASSUME NEW shown \in BOOLEAN
  PROVE  /\ Blank(shown) \in ScreenState
         /\ Blank(shown).shown = shown /\ ~Blank(shown).bound /\ ~Blank(shown).connected
         /\ ~Blank(shown).connecting /\ ~Blank(shown).seen /\ Blank(shown).client = NoSession
BY DEF Blank, ScreenState

-----------------------------------------------------------------------------
\* What each step that changes the screen or an attempt leaves behind, field
\* by field.

LEMMA Shows ==
  ASSUME TypeOK, Show
  PROVE  /\ TypeOK'
         /\ ~screen'.bound /\ ~screen'.connected /\ ~screen'.connecting
         /\ ~screen'.seen /\ screen'.client = NoSession
<1>1. screen' = Blank(TRUE)
  BY DEF Show
<1> QED BY <1>1, BlankScreen DEF Show, TypeOK, ServiceTypeOK

LEMMA Binds ==
  ASSUME TypeOK, OnServiceConnected
  PROVE  /\ TypeOK' /\ screen'.bound
         /\ screen'.connected = screen.connected /\ screen'.connecting = screen.connecting
         /\ screen'.seen = screen.seen /\ screen'.client = screen.client
BY DEF OnServiceConnected, TypeOK, ServiceTypeOK, ScreenState

LEMMA Recomposes ==
  ASSUME TypeOK, Recompose
  PROVE  /\ TypeOK' /\ screen'.bound /\ (screen'.seen <=> service.playing)
         /\ service.playing /\ ~screen.connected =>
              screen'.connected /\ ~screen'.connecting /\ screen'.client = service.client
         /\ ~service.playing /\ screen.connected =>
              ~screen'.connected /\ ~screen'.connecting /\ screen'.client = NoSession
         /\ (service.playing <=> screen.connected) =>
              /\ screen'.connected = screen.connected
              /\ screen'.connecting = screen.connecting /\ screen'.client = screen.client
<1> USE DEF TypeOK, ServiceTypeOK, ServiceState, ScreenState
<1>1. screen.bound /\ screen.shown
  BY DEF Recompose
<1>2. leaving' \subseteq Sessions
  BY DEF Recompose, Launch
<1>3. CASE service.playing /\ ~screen.connected
  <2>1. screen' = [screen EXCEPT !.client = service.client, !.connected = TRUE,
                                 !.connecting = FALSE, !.seen = service.playing]
    BY <1>3 DEF Recompose, Adopted
  <2> QED BY <1>1, <1>2, <1>3, <2>1 DEF Recompose
<1>4. CASE ~service.playing /\ screen.connected
  <2>1. screen' = [screen EXCEPT !.client = NoSession, !.connected = FALSE,
                                 !.connecting = FALSE, !.seen = service.playing]
    BY <1>4 DEF Recompose, StoppedExternally
  <2> QED BY <1>1, <1>2, <1>4, <2>1 DEF Recompose
<1>5. CASE service.playing <=> screen.connected
  <2>1. screen' = [screen EXCEPT !.seen = service.playing]
    BY <1>5 DEF Recompose
  <2> QED BY <1>1, <1>2, <1>5, <2>1 DEF Recompose
<1> QED BY <1>3, <1>4, <1>5

\* An attempt of the screen that goes is cancelled; it keeps its service only
\* if that is started.
LEMMA Leaves ==
  ASSUME TypeOK, Leave
  PROVE  /\ TypeOK'
         /\ ~screen'.bound /\ ~screen'.connected /\ ~screen'.connecting
         /\ ~screen'.seen /\ screen'.client = NoSession
         /\ \A n \in Sessions : /\ job'[n].at = job[n].at
                                /\ job'[n].cancelled <=> job[n].cancelled \/ job[n].at \in Running
                                /\ job'[n].orphan <=>
                                     job[n].orphan \/ (job[n].at \in Running /\ ~service.started)
         /\ IF service.started THEN engine' = engine /\ service' = service
            ELSE engine' = NoSession /\ service' = FreshService
<1>1. screen' = Blank(FALSE)
  BY DEF Leave
<1>2. screen' \in ScreenState /\ ~screen'.bound
  BY <1>1, BlankScreen
<1>3. job' \in [Sessions -> JobState]
  BY DEF Leave, TypeOK, JobState
<1>4. \A n \in Sessions : /\ job'[n].at = job[n].at
                          /\ job'[n].cancelled <=> job[n].cancelled \/ job[n].at \in Running
                          /\ job'[n].orphan <=>
                                     job[n].orphan \/ (job[n].at \in Running /\ ~service.started)
  BY DEF Leave, TypeOK, JobState
<1>5. IF service.started THEN engine' = engine /\ service' = service
      ELSE engine' = NoSession /\ service' = FreshService
  BY DEF Leave, Unbound
<1>6. ServiceTypeOK'
  BY <1>5, ServiceOps DEF TypeOK, ServiceTypeOK
<1>7. mishaps' \subseteq Mishaps
  BY DEF Leave, TypeOK, Mishaps
<1> QED BY <1>1, <1>2, <1>3, <1>4, <1>5, <1>6, <1>7, BlankScreen DEF Leave, TypeOK

LEMMA Connects ==
  ASSUME TypeOK, Connect
  PROVE  /\ TypeOK'
         /\ attempts + 1 \in Sessions /\ attempts' = attempts + 1
         /\ screen'.bound /\ ~screen'.connected /\ screen'.connecting
         /\ screen'.seen = screen.seen /\ screen'.client = screen.client
         /\ \A n \in Sessions : n # attempts + 1 => job'[n] = job[n]
         /\ job'[attempts + 1].at = "stale" /\ ~job'[attempts + 1].orphan
         /\ ~job'[attempts + 1].cancelled
<1> USE DEF TypeOK
<1>1. attempts + 1 \in Sessions /\ attempts' = attempts + 1
  BY DEF Connect
<1>2. screen' = [screen EXCEPT !.connecting = TRUE] /\ screen.bound /\ ~screen.connected
  BY DEF Connect
<1>3. /\ screen' \in ScreenState /\ screen'.bound = screen.bound
      /\ screen'.shown = screen.shown /\ screen'.connected = screen.connected
      /\ screen'.connecting = TRUE /\ screen'.seen = screen.seen
      /\ screen'.client = screen.client
  BY <1>2 DEF ScreenState
<1>4. job' = [job EXCEPT ![attempts + 1] = Fresh("stale")]
  BY DEF Connect
<1>5. /\ Fresh("stale") \in JobState /\ Fresh("stale").at = "stale"
      /\ ~Fresh("stale").orphan /\ ~Fresh("stale").cancelled
  BY DEF Fresh, JobState, Steps, Running, OnIO
<1>6. job' \in [Sessions -> JobState]
  BY <1>1, <1>4, <1>5
<1>7. /\ \A n \in Sessions : n # attempts + 1 => job'[n] = job[n]
      /\ job'[attempts + 1] = Fresh("stale")
  BY <1>1, <1>4
<1>8. mishaps' \subseteq Mishaps
  BY DEF Connect, Input, Mishaps
<1>9. ServiceTypeOK' /\ leaving' \subseteq Sessions /\ registered' \subseteq 1 .. attempts'
  BY <1>1 DEF Connect, ServiceTypeOK
<1> QED BY <1>1, <1>2, <1>3, <1>5, <1>6, <1>7, <1>8, <1>9 DEF Connect

LEMMA Disconnects ==
  ASSUME TypeOK, Disconnect
  PROVE  /\ TypeOK'
         /\ screen'.bound = screen.bound /\ ~screen'.connected /\ ~screen'.connecting
         /\ screen'.seen = screen.seen /\ screen'.client = NoSession
         /\ engine' = NoSession /\ service' = FreshService
<1> USE DEF TypeOK
<1>1. screen' = [screen EXCEPT !.client = NoSession, !.connected = FALSE, !.connecting = FALSE]
  BY DEF Disconnect, StoppedExternally
<1>2. /\ screen' \in ScreenState /\ screen'.bound = screen.bound /\ screen'.shown = screen.shown
      /\ ~screen'.connected /\ ~screen'.connecting
      /\ screen'.seen = screen.seen /\ screen'.client = NoSession
  BY <1>1 DEF ScreenState
<1>3. engine' = NoSession /\ service' = FreshService
  BY DEF Disconnect, StopPlayback
<1>4. ServiceTypeOK'
  BY <1>3, ServiceOps DEF ServiceTypeOK
<1>5. mishaps' \subseteq Mishaps
  BY DEF Disconnect, Input, Mishaps
<1>6. leaving' \subseteq Sessions
  BY DEF Disconnect, Launch, ScreenState
<1> QED BY <1>2, <1>3, <1>4, <1>5, <1>6 DEF Disconnect

LEMMA StopsOutside ==
  ASSUME TypeOK, ExternalStop
  PROVE  /\ TypeOK'
         /\ engine' = NoSession /\ service' = FreshService
         /\ \A n \in Sessions : /\ job'[n].at = job[n].at
                                /\ job'[n].cancelled = job[n].cancelled
                                /\ job'[n].orphan <=>
                                     job[n].orphan \/ (job[n].at \in Running /\ ~screen.shown)
<1> USE DEF TypeOK
<1>1. engine' = NoSession /\ service' = FreshService
  BY DEF ExternalStop, StopPlayback
<1>2. ServiceTypeOK'
  BY <1>1, ServiceOps DEF ServiceTypeOK
<1>3. job' \in [Sessions -> JobState]
  BY DEF ExternalStop, JobState
<1>4. \A n \in Sessions : /\ job'[n].at = job[n].at
                          /\ job'[n].cancelled = job[n].cancelled
                          /\ job'[n].orphan <=>
                               job[n].orphan \/ (job[n].at \in Running /\ ~screen.shown)
  BY DEF ExternalStop, JobState
<1>5. mishaps' \subseteq Mishaps
  BY DEF ExternalStop, Input, Mishaps
<1> QED BY <1>1, <1>2, <1>3, <1>4, <1>5 DEF ExternalStop

LEMMA Drops ==
  ASSUME TypeOK, DeviceDrops
  PROVE  TypeOK' /\ "dropped" \in mishaps'
BY DEF DeviceDrops, EngineDies, TypeOK, ServiceTypeOK, Mishaps

\* A step of an attempt moves that attempt alone.
LEMMA Moves ==
  ASSUME TypeOK, NEW n \in Sessions, JobStep(n)
  PROVE  /\ job' \in [Sessions -> JobState]
         /\ \A m \in Sessions : m # n => job'[m] = job[m]
         /\ job'[n].at # "done" =>
              job'[n].orphan = job[n].orphan /\ job'[n].cancelled = job[n].cancelled
         /\ UNCHANGED <<attempts, leaving, mishaps>>
<1> USE DEF TypeOK
<1>1. CASE JobReadsStale(n)
  <2>1. service.client \in Sessions \cup {NoSession}
    BY DEF ServiceTypeOK, ServiceState
  <2>2. "prepare" \in Steps
    BY DEF Steps, Running, OnIO
  <2>3. PICK id \in Sessions \cup {NoSession} :
          job' = [job EXCEPT ![n].at = "prepare", ![n].stale = id]
    BY <1>1, <2>1 DEF JobReadsStale
  <2>4. job[n] \in JobState
    OBVIOUS
  <2>5. /\ \A m \in Sessions : m # n => job'[m] = job[m]
        /\ job'[n] = [at |-> "prepare", stale |-> id, orphan |-> job[n].orphan,
                      cancelled |-> job[n].cancelled]
        /\ DOMAIN job' = Sessions /\ job' = [m \in Sessions |-> job'[m]]
    BY <2>3, <2>4 DEF JobState
  <2>6. job'[n] \in JobState
    BY <2>2, <2>4, <2>5 DEF JobState
  <2>7. job' \in [Sessions -> JobState]
    BY <2>5, <2>6
  <2> QED BY <1>1, <2>5, <2>7 DEF JobReadsStale
<1>2. CASE \E step \in Steps : Goes(n, step) /\ UNCHANGED <<attempts, leaving, mishaps>>
  BY <1>2, JobGoes
<1>3. CASE Ends(n) /\ UNCHANGED <<attempts, leaving, mishaps>>
  BY <1>3, JobEnds
<1>4. JobStep(n) =>
        \/ JobReadsStale(n)
        \/ Ends(n) /\ UNCHANGED <<attempts, leaving, mishaps>>
        \/ \E step \in Steps : Goes(n, step) /\ UNCHANGED <<attempts, leaving, mishaps>>
  <2>1. {"join", "failed", "leaveThenJoin", "leaveThenFail", "joined", "ready",
         "abort"} \subseteq Steps
    BY DEF Steps, Running, OnIO
  <2>2. CASE JobPrepares(n)
    BY <2>1, <2>2 DEF JobPrepares
  <2>3. CASE JobLeavesStale(n)
    BY <2>1, <2>3 DEF JobLeavesStale
  <2>4. CASE JobJoins(n) \/ JobSucceeds(n) \/ JobFails(n) \/ JobAborts(n)
    BY <2>1, <2>4 DEF JobJoins, JobSucceeds, JobFails, JobAborts
  <2>5. CASE JobCommits(n) \/ JobShowsError(n) \/ JobCancelled(n)
    BY <2>1, <2>5 DEF JobCommits, JobShowsError, JobCancelled
  <2> QED BY <2>2, <2>3, <2>4, <2>5 DEF JobStep
<1> QED BY <1>1, <1>2, <1>4, <1>3

\* What it leaves of the screen: an answer sets the client, the rest only
\* end "connecting".
LEMMA Succeeds ==
  ASSUME TypeOK, NEW n \in Sessions, JobSucceeds(n)
  PROVE  /\ screen' \in ScreenState /\ screen'.shown = screen.shown
         /\ screen'.bound = screen.bound /\ screen'.connected = screen.connected
         /\ screen'.connecting = screen.connecting /\ screen'.seen = screen.seen
         /\ screen'.client = IF job[n].cancelled THEN screen.client ELSE n
<1>1. CASE job[n].cancelled
  BY <1>1 DEF JobSucceeds, TypeOK
<1>2. CASE ~job[n].cancelled
  BY <1>2 DEF JobSucceeds, TypeOK, ScreenState
<1> QED BY <1>1, <1>2

LEMMA CommitsScreen ==
  ASSUME TypeOK, NEW n \in Sessions, JobCommits(n)
  PROVE  /\ screen' \in ScreenState /\ screen'.shown = screen.shown
         /\ screen'.bound = screen.bound /\ ~screen'.connecting
         /\ screen'.seen = screen.seen /\ screen'.client = screen.client
         /\ screen.client = NoSession =>
              screen'.connected = screen.connected /\ UNCHANGED <<engine, service>>
         /\ screen.client # NoSession => screen'.connected /\ CommitPlayback(screen.client)
<1>1. CASE screen.client = NoSession
  BY <1>1 DEF JobCommits, TypeOK, ScreenState
<1>2. CASE screen.client # NoSession
  BY <1>2 DEF JobCommits, TypeOK, ScreenState
<1> QED BY <1>1, <1>2

LEMMA ShowsError ==
  ASSUME TypeOK, NEW n \in Sessions, JobShowsError(n)
  PROVE  /\ screen' \in ScreenState /\ screen'.shown = screen.shown
         /\ screen'.bound = screen.bound /\ ~screen'.connecting
         /\ screen'.connected = screen.connected
         /\ screen'.seen = screen.seen /\ screen'.client = screen.client
BY DEF JobShowsError, TypeOK, ScreenState

LEMMA Prepares ==
  ASSUME TypeOK, NEW n \in Sessions, JobPrepares(n)
  PROVE  /\ ServiceTypeOK' /\ engine' \in {n, NoSession}
         /\ job[n].orphan \/ ~service.playing => service' = service
         /\ ~job[n].orphan /\ service.playing => service' = Silent(service)
         /\ Goes(n, IF job[n].stale = NoSession
                    THEN (IF engine' = n THEN "join" ELSE "failed")
                    ELSE IF engine' = n THEN "leaveThenJoin" ELSE "leaveThenFail")
<1>1. PICK ok \in BOOLEAN :
        /\ engine' = (IF ok THEN n ELSE NoSession)
        /\ service' = IF ~job[n].orphan /\ service.playing THEN Silent(service) ELSE service
        /\ Goes(n, IF job[n].stale = NoSession THEN (IF ok THEN "join" ELSE "failed")
                   ELSE IF ok THEN "leaveThenJoin" ELSE "leaveThenFail")
  BY DEF JobPrepares, PreparePlayback
<1>2. ok <=> engine' = n
  BY <1>1
<1>3. ServiceTypeOK'
  BY <1>1, ServiceOps DEF TypeOK, ServiceTypeOK
<1> QED BY <1>1, <1>2, <1>3

LEMMA Aborts ==
  ASSUME TypeOK, NEW n \in Sessions, JobAborts(n)
  PROVE  /\ ServiceTypeOK' /\ engine' = NoSession
         /\ service' = IF job[n].orphan THEN service ELSE Silent(service)
<1>1. engine' = NoSession /\ service' = IF job[n].orphan THEN service ELSE Silent(service)
  BY DEF JobAborts, AbortPlayback
<1> QED BY <1>1, ServiceOps DEF TypeOK, ServiceTypeOK

-----------------------------------------------------------------------------
\* The steps of an attempt keep the types; those of the screen do by the lemmas
\* above.
LEMMA AttemptTypes ==
  ASSUME TypeOK, LiveBound, NEW n \in Sessions, JobStep(n)
  PROVE  TypeOK'
<1>1. /\ job' \in [Sessions -> JobState] /\ leaving' \subseteq Sessions
      /\ attempts' \in 0 .. MaxConnects /\ mishaps' \subseteq Mishaps
  BY Moves DEF TypeOK
<1>2. registered' \subseteq 1 .. attempts'
  <2>1. CASE JobJoins(n)
    <3>1. n \in 1 .. attempts
      BY <2>1 DEF LiveBound, JobJoins, TypeOK
    <3> QED BY <2>1, <3>1 DEF JobJoins, TypeOK
  <2>2. CASE JobLeavesStale(n)
    BY <2>2 DEF JobLeavesStale, TypeOK
  <2>3. CASE registered' = registered
    BY <2>3, Moves DEF TypeOK
  <2> QED BY <2>1, <2>2, <2>3
         DEF JobStep, JobReadsStale, JobPrepares, JobSucceeds, JobFails, JobAborts,
             JobCommits, JobShowsError, JobCancelled
<1>3. screen' \in ScreenState /\ (screen'.bound => screen'.shown)
  <2>1. CASE JobSucceeds(n)
    BY <2>1, Succeeds DEF TypeOK
  <2>2. CASE JobCommits(n)
    BY <2>2, CommitsScreen DEF TypeOK
  <2>3. CASE JobShowsError(n)
    BY <2>3, ShowsError DEF TypeOK
  <2>4. CASE screen' = screen
    BY <2>4 DEF TypeOK
  <2> QED BY <2>1, <2>2, <2>3, <2>4
         DEF JobStep, JobReadsStale, JobPrepares, JobLeavesStale, JobJoins, JobFails,
             JobAborts, JobCancelled
<1>4. ServiceTypeOK'
  <2>1. CASE JobPrepares(n)
    BY <2>1, Prepares
  <2>2. CASE JobAborts(n)
    BY <2>2, Aborts
  <2>3. CASE JobCommits(n)
    <3>1. screen.client \in Sessions \cup {NoSession}
      BY DEF TypeOK, ScreenState
    <3> QED BY <2>3, <3>1, CommitsScreen, Commits DEF TypeOK, LiveBound, ServiceTypeOK
  <2>4. CASE UNCHANGED <<engine, service>>
    BY <2>4 DEF TypeOK, ServiceTypeOK
  <2> QED BY <2>1, <2>2, <2>3, <2>4
         DEF JobStep, JobReadsStale, JobLeavesStale, JobJoins, JobSucceeds, JobFails,
             JobShowsError, JobCancelled
<1> QED BY <1>1, <1>2, <1>3, <1>4 DEF TypeOK

-----------------------------------------------------------------------------
\* Where each step of an attempt takes it.
LEMMA Arrives ==
  ASSUME TypeOK, NEW n \in Sessions, NEW step, Goes(n, step)
  PROVE  job'[n].at = step
BY DEF Goes, TypeOK, JobState

LEMMA WhereTo ==
  ASSUME TypeOK, NEW n \in Sessions
  PROVE  /\ JobReadsStale(n) => job[n].at = "stale" /\ job'[n].at = "prepare"
         /\ JobPrepares(n) =>
              /\ job[n].at = "prepare"
              /\ job'[n].at \in IF engine' = n THEN {"join", "leaveThenJoin"}
                                ELSE {"failed", "leaveThenFail"}
         /\ JobLeavesStale(n) =>
              \/ job[n].at = "leaveThenJoin" /\ job'[n].at = "join"
              \/ job[n].at = "leaveThenFail" /\ job'[n].at = "failed"
         /\ JobJoins(n) => job[n].at = "join" /\ job'[n].at = "joined"
         /\ JobSucceeds(n) => job[n].at = "joined" /\ job'[n].at = "ready"
         /\ JobFails(n) => job[n].at \in {"join", "joined"} /\ job'[n].at = "abort"
         /\ JobAborts(n) => job[n].at = "abort" /\ job'[n].at = "failed"
         /\ JobCommits(n) => job[n].at = "ready" /\ job'[n].at = "done"
         /\ JobShowsError(n) => job[n].at = "failed" /\ job'[n].at = "done"
         /\ JobCancelled(n) => job[n].at \in {"ready", "failed"} /\ job'[n].at = "done"
<1>1. JobReadsStale(n) => job'[n].at = "prepare"
  BY DEF JobReadsStale, TypeOK, JobState
<1>2. JobPrepares(n) => job'[n].at \in IF engine' = n THEN {"join", "leaveThenJoin"}
                                       ELSE {"failed", "leaveThenFail"}
  BY Prepares, Arrives
<1>3. JobLeavesStale(n) => job'[n].at = IF job[n].at = "leaveThenJoin" THEN "join" ELSE "failed"
  BY Arrives DEF JobLeavesStale
<1>4. /\ JobJoins(n) => job'[n].at = "joined"
      /\ JobSucceeds(n) => job'[n].at = "ready"
      /\ JobFails(n) => job'[n].at = "abort"
  BY Arrives DEF JobJoins, JobSucceeds, JobFails
<1>5. /\ JobAborts(n) => job'[n].at = "failed"
      /\ JobCommits(n) \/ JobShowsError(n) \/ JobCancelled(n) => job'[n].at = "done"
  BY Arrives, JobEnds DEF TypeOK, JobAborts, JobCommits, JobShowsError, JobCancelled
<1> QED BY <1>1, <1>2, <1>3, <1>4, <1>5
        DEF JobReadsStale, JobPrepares, JobLeavesStale, JobJoins, JobSucceeds, JobFails,
            JobAborts, JobCommits, JobShowsError, JobCancelled

\* An attempt that its composition waits for has the service bound.
LEMMA ScreenLiveBound ==
  ASSUME ScreenInv,
         \/ Show \/ OnServiceConnected \/ Recompose \/ Leave
         \/ Connect \/ Disconnect \/ ExternalStop \/ DeviceDrops
  PROVE  LiveBound'
<1> USE DEF ScreenInv, LiveBound, Live
<1>1. CASE Show
  BY <1>1, Shows DEF Show, TypeOK
<1>2. CASE OnServiceConnected
  BY <1>2, Binds DEF OnServiceConnected
<1>3. CASE Recompose
  BY <1>3, Recomposes DEF Recompose
<1>4. CASE Leave
  BY <1>4, Leaves, ServiceOps DEF Leave, TypeOK
<1>5. CASE Connect
  BY <1>5, Connects DEF Connect, TypeOK
<1>6. CASE Disconnect
  BY <1>6, Disconnects, ServiceOps DEF Disconnect, TypeOK
<1>7. CASE ExternalStop
  BY <1>7, StopsOutside, ServiceOps DEF ExternalStop, TypeOK
<1>8. CASE DeviceDrops
  BY <1>8, Drops DEF DeviceDrops, EngineDies
<1> QED BY <1>1, <1>2, <1>3, <1>4, <1>5, <1>6, <1>7, <1>8

LEMMA AttemptLiveBound ==
  ASSUME ScreenInv, NEW n \in Sessions, JobStep(n)
  PROVE  LiveBound'
<1> USE DEF ScreenInv, LiveBound, Live
<1> USE Moves, WhereTo DEF Running, OnIO
<1>1. CASE JobReadsStale(n)
  BY <1>1 DEF JobReadsStale
<1>2. CASE JobPrepares(n)
  <2>1. service'.playing <=> service'.client # NoSession
    BY <1>2, Prepares, ServiceOps DEF TypeOK
  <2>2. screen' = screen
    BY <1>2 DEF JobPrepares
  <2> QED BY <1>2, <2>1, <2>2
<1>3. CASE JobLeavesStale(n)
  BY <1>3 DEF JobLeavesStale, Goes
<1>4. CASE JobJoins(n)
  BY <1>4 DEF JobJoins, Goes
<1>5. CASE JobSucceeds(n)
  BY <1>5, Succeeds DEF JobSucceeds
<1>6. CASE JobFails(n)
  BY <1>6 DEF JobFails
<1>7. CASE JobAborts(n)
  <2>1. service'.playing <=> service'.client # NoSession
    BY <1>7, Aborts, ServiceOps DEF TypeOK
  <2>2. screen' = screen
    BY <1>7 DEF JobAborts
  <2> QED BY <1>7, <2>1, <2>2
<1>8. CASE JobCommits(n)
  <2>1. screen.client \in Sessions \cup {NoSession}
    BY DEF TypeOK, ScreenState
  <2>2. service'.playing <=> service'.client # NoSession
    BY <1>8, <2>1, CommitsScreen, Commits DEF TypeOK
  <2>3. screen'.bound
    BY <1>8, CommitsScreen DEF JobCommits
  <2>4. job[n].at = "ready" /\ job'[n].at = "done"
    BY <1>8
  <2> QED BY <2>2, <2>3, <2>4
<1>9. CASE JobShowsError(n)
  BY <1>9, ShowsError DEF JobShowsError
<1>10. CASE JobCancelled(n)
  BY <1>10 DEF JobCancelled
<1> QED BY <1>1, <1>2, <1>3, <1>4, <1>5, <1>6, <1>7, <1>8, <1>9, <1>10 DEF JobStep

-----------------------------------------------------------------------------
\* No step takes a mishap back, and an input that is not hurried waits for the
\* frame.
LEMMA Unhurried ==
  ASSUME TypeOK, ~Hurried', Next
  PROVE  /\ ~Hurried
         /\ Connect \/ Disconnect \/ ExternalStop => Drawn
<1>1. CASE Show \/ OnServiceConnected \/ Recompose \/ Leave \/ Hide \/ Reappear
  BY <1>1 DEF Show, OnServiceConnected, Recompose, Leave, Hide, Reappear, Hurried, Connect,
              Disconnect, ExternalStop, Input
<1>2. CASE Connect \/ Disconnect \/ ExternalStop
  BY <1>2 DEF Connect, Disconnect, ExternalStop, Input, Hurried
<1>3. CASE DeviceDrops
  BY <1>3 DEF DeviceDrops, Hurried, Connect, Disconnect, ExternalStop, Input
<1>4. CASE \E n \in Sessions : JobStep(n) \/ LeaveEnds(n) \/ Reap(n)
  BY <1>4, Moves DEF LeaveEnds, Reap, Hurried, Connect, Disconnect, ExternalStop, Input
<1> QED BY <1>1, <1>2, <1>3, <1>4 DEF Next

\* Unhurried, it is the only one and finds the service silent: the button is
\* enabled only when the screen neither is nor becomes connected.
LEMMA ScreenAlone ==
  ASSUME ScreenInv,
         \/ Show \/ OnServiceConnected \/ Recompose \/ Leave
         \/ Connect \/ Disconnect \/ ExternalStop \/ DeviceDrops
  PROVE  AttemptAlone'
<1> SUFFICES ASSUME ~Hurried' PROVE AttemptAlone'
  BY DEF AttemptAlone
<1>0. ~Hurried /\ (Connect \/ Disconnect \/ ExternalStop => Drawn)
  BY Unhurried DEF ScreenInv, Next
<1> USE DEF ScreenInv, AttemptAlone, Live
<1>1. CASE Show
  BY <1>0, <1>1, Shows DEF Show, LiveBound, TypeOK
<1>2. CASE OnServiceConnected
  BY <1>0, <1>2, Binds DEF OnServiceConnected, LiveBound
<1>3. CASE Recompose
  BY <1>0, <1>3, Recomposes DEF Recompose, LiveBound
<1>4. CASE Leave
  BY <1>0, <1>4, Leaves, ServiceOps DEF Leave, TypeOK, LiveBound
<1>5. CASE Connect
  <2>1. screen.bound /\ ~screen.connected /\ ~screen.connecting /\ UNCHANGED service
    BY <1>5 DEF Connect
  <2>2. \A m \in Sessions : ~Live(m)
    BY <1>0, <2>1
  <2>3. screen.seen <=> service.playing
    BY <1>0, <1>5, <2>1 DEF Drawn
  <2>4. ~screen.seen /\ ~service.playing
    BY <1>0, <2>1, <2>3 DEF ScreenFollows
  <2>5. /\ \A m \in Sessions : Live(m)' => m = attempts + 1
        /\ \A m \in Sessions : Live(m)' => job'[m].at = "stale"
        /\ \A m \in Sessions : job'[m].at \in Running /\ job'[m].cancelled => job'[m].orphan
    BY <1>0, <1>5, <2>2, Connects
  <2> QED BY <1>0, <1>5, <2>1, <2>4, <2>5, Connects
<1>6. CASE Disconnect
  BY <1>0, <1>6, Disconnects, ServiceOps DEF Disconnect, TypeOK, LiveBound
<1>7. CASE ExternalStop
  <2>1. \A m \in Sessions : ~Live(m)
    BY <1>0, <1>7 DEF ExternalStop
  <2>2. \A m \in Sessions : /\ job'[m].at = job[m].at /\ job'[m].cancelled = job[m].cancelled
                            /\ job[m].orphan => job'[m].orphan
    BY <1>7, StopsOutside
  <2>3. ~service'.started
    BY <1>7, StopsOutside, ServiceOps DEF TypeOK
  <2> QED BY <1>0, <2>1, <2>2, <2>3
<1>8. CASE DeviceDrops
  BY <1>0, <1>8, Drops DEF DeviceDrops, EngineDies, LiveBound
<1> QED BY <1>1, <1>2, <1>3, <1>4, <1>5, <1>6, <1>7, <1>8

LEMMA AttemptsAlone ==
  ASSUME ScreenInv, NEW n \in Sessions, JobStep(n)
  PROVE  AttemptAlone'
<1> SUFFICES ASSUME ~Hurried' PROVE AttemptAlone'
  BY DEF AttemptAlone
<1>0. ~Hurried /\ (Connect \/ Disconnect \/ ExternalStop => Drawn)
  BY Unhurried DEF ScreenInv, Next
<1> USE DEF ScreenInv, AttemptAlone, Live
<1> USE Moves, WhereTo DEF Running, OnIO
<1>1. CASE JobReadsStale(n)
  BY <1>0, <1>1 DEF JobReadsStale, LiveBound
<1>2. CASE JobPrepares(n)
  <2>1. service' = service /\ screen' = screen
    BY <1>0, <1>2, Prepares DEF JobPrepares, LiveBound
  <2> QED BY <1>0, <1>2, <2>1
<1>3. CASE JobLeavesStale(n)
  BY <1>0, <1>3 DEF JobLeavesStale, Goes, LiveBound
<1>4. CASE JobJoins(n)
  BY <1>0, <1>4 DEF JobJoins, Goes, LiveBound
<1>5. CASE JobSucceeds(n)
  BY <1>0, <1>5, Succeeds DEF JobSucceeds, LiveBound
<1>6. CASE JobFails(n)
  BY <1>0, <1>6 DEF JobFails, LiveBound
<1>7. CASE JobAborts(n)
  <2>1. /\ service'.playing => service.playing
        /\ service'.started => service'.playing
    BY <1>0, <1>7, Aborts, ServiceOps DEF TypeOK
  <2>2. screen' = screen
    BY <1>7 DEF JobAborts
  <2> QED BY <1>0, <1>7, <2>1, <2>2
<1>8. CASE JobCommits(n)
  <2>1. Live(n) /\ screen.client = n
    BY <1>0, <1>8 DEF JobCommits
  <2>2. service'.playing
    BY <1>8, <2>1, CommitsScreen, Commits DEF TypeOK, LiveBound
  <2>3. \A m \in Sessions : ~Live(m)'
    BY <1>0, <1>8, <2>1
  <2> QED BY <1>0, <1>8, <2>2, <2>3
<1>9. CASE JobShowsError(n)
  BY <1>0, <1>9, ShowsError DEF JobShowsError, LiveBound
<1>10. CASE JobCancelled(n)
  BY <1>0, <1>10 DEF JobCancelled, LiveBound
<1> QED BY <1>1, <1>2, <1>3, <1>4, <1>5, <1>6, <1>7, <1>8, <1>9, <1>10 DEF JobStep

-----------------------------------------------------------------------------
\* The button is one frame behind the service at most.
LEMMA ScreenFollowsOn ==
  ASSUME ScreenInv,
         \/ Show \/ OnServiceConnected \/ Recompose \/ Leave
         \/ Connect \/ Disconnect \/ ExternalStop \/ DeviceDrops
  PROVE  ScreenFollows'
<1> SUFFICES ASSUME ~Hurried' PROVE ScreenFollows'
  BY DEF ScreenFollows
<1>0. ~Hurried /\ (Connect \/ Disconnect \/ ExternalStop => Drawn)
  BY Unhurried DEF ScreenInv, Next
<1> USE DEF ScreenInv, ScreenFollows, Live
<1>1. CASE Show
  BY <1>0, <1>1, Shows DEF Show, LiveBound, AttemptAlone
<1>2. CASE OnServiceConnected
  BY <1>0, <1>2, Binds DEF OnServiceConnected, LiveBound, AttemptAlone
<1>3. CASE Recompose
  BY <1>0, <1>3, Recomposes DEF Recompose, LiveBound, AttemptAlone
<1>4. CASE Leave
  BY <1>0, <1>4, Leaves, ServiceOps DEF Leave, TypeOK, LiveBound, AttemptAlone
<1>5. CASE Connect
  BY <1>0, <1>5, Connects DEF Connect, TypeOK, LiveBound, AttemptAlone
<1>6. CASE Disconnect
  BY <1>0, <1>6, Disconnects, ServiceOps DEF Disconnect, TypeOK, LiveBound, AttemptAlone
<1>7. CASE ExternalStop
  <2>1. screen' = screen /\ (screen.bound => screen.seen)
    BY <1>0, <1>7 DEF ExternalStop, Drawn
  <2>2. ~service'.playing
    BY <1>7, StopsOutside, ServiceOps DEF TypeOK
  <2> QED BY <2>1, <2>2
<1>8. CASE DeviceDrops
  BY <1>0, <1>8, Drops DEF DeviceDrops, EngineDies, LiveBound, AttemptAlone
<1> QED BY <1>1, <1>2, <1>3, <1>4, <1>5, <1>6, <1>7, <1>8

LEMMA AttemptFollowsOn ==
  ASSUME ScreenInv, NEW n \in Sessions, JobStep(n)
  PROVE  ScreenFollows'
<1> SUFFICES ASSUME ~Hurried' PROVE ScreenFollows'
  BY DEF ScreenFollows
<1>0. ~Hurried /\ (Connect \/ Disconnect \/ ExternalStop => Drawn)
  BY Unhurried DEF ScreenInv, Next
<1> USE DEF ScreenInv, ScreenFollows, Live
<1> USE Moves, WhereTo DEF Running, OnIO
<1>1. CASE JobReadsStale(n)
  BY <1>0, <1>1 DEF JobReadsStale, LiveBound, AttemptAlone
<1>2. CASE JobPrepares(n)
  <2>1. service' = service /\ screen' = screen
    BY <1>0, <1>2, Prepares DEF JobPrepares, LiveBound, AttemptAlone
  <2> QED BY <1>0, <2>1
<1>3. CASE JobLeavesStale(n)
  BY <1>0, <1>3 DEF JobLeavesStale, Goes, LiveBound, AttemptAlone
<1>4. CASE JobJoins(n)
  BY <1>0, <1>4 DEF JobJoins, Goes, LiveBound, AttemptAlone
<1>5. CASE JobSucceeds(n)
  BY <1>0, <1>5, Succeeds DEF JobSucceeds, LiveBound, AttemptAlone
<1>6. CASE JobFails(n)
  BY <1>0, <1>6 DEF JobFails, LiveBound, AttemptAlone
<1>7. CASE JobAborts(n)
  BY <1>0, <1>7, Aborts DEF JobAborts, LiveBound, AttemptAlone
<1>8. CASE JobCommits(n)
  <2>1. /\ screen.client = n /\ screen.bound /\ ~screen.seen /\ ~service.playing
    BY <1>0, <1>8 DEF JobCommits, LiveBound, AttemptAlone
  <2>2. n # NoSession
    OBVIOUS
  <2>3. screen'.connected /\ screen'.client = n /\ ~screen'.seen
    BY <1>8, <2>1, <2>2, CommitsScreen
  <2>4. CommitPlayback(n)
    BY <1>8, <2>1, <2>2, CommitsScreen
  <2>5. service'.playing /\ service'.client = n
    BY <2>1, <2>4, Commits DEF TypeOK, LiveBound
  <2> QED BY <2>3, <2>5
<1>9. CASE JobShowsError(n)
  BY <1>0, <1>9, ShowsError DEF JobShowsError, LiveBound, AttemptAlone
<1>10. CASE JobCancelled(n)
  BY <1>0, <1>10 DEF JobCancelled, LiveBound, AttemptAlone
<1> QED BY <1>1, <1>2, <1>3, <1>4, <1>5, <1>6, <1>7, <1>8, <1>9, <1>10 DEF JobStep

-----------------------------------------------------------------------------
\* Without a mishap an attempt under way is alone, and the service silent.
LEMMA NoMishap ==
  ASSUME TypeOK, mishaps' = {}, Next
  PROVE  /\ mishaps = {} /\ ~Hurried /\ ~DeviceDrops
         /\ Connect \/ Disconnect \/ ExternalStop => Drawn
         /\ Leave => Idle
<1>1. mishaps = {} /\ ~DeviceDrops
  <2>1. mishaps \subseteq mishaps'
    <3>1. CASE Show \/ OnServiceConnected \/ Recompose \/ Leave \/ Hide \/ Reappear
      BY <3>1 DEF Show, OnServiceConnected, Recompose, Leave, Hide, Reappear
    <3>2. CASE Connect \/ Disconnect \/ ExternalStop \/ DeviceDrops
      BY <3>2 DEF Connect, Disconnect, ExternalStop, DeviceDrops, Input
    <3>3. CASE \E n \in Sessions : JobStep(n) \/ LeaveEnds(n) \/ Reap(n)
      BY <3>3, Moves DEF LeaveEnds, Reap
    <3> QED BY <3>1, <3>2, <3>3 DEF Next
  <2> QED BY <2>1 DEF DeviceDrops
<1>2. ~Hurried /\ ~Hurried'
  BY <1>1 DEF Hurried
<1>3. Leave => Idle
  BY DEF Leave, Idle
<1> QED BY <1>1, <1>2, <1>3, Unhurried

LEMMA OneRunning ==
  ASSUME ScreenInv, mishaps = {}
  PROVE  /\ \A n \in Sessions : job[n].at \in Running =>
              /\ screen.connecting
              /\ ~screen.connected /\ ~service.playing /\ service.client = NoSession
              /\ ~job[n].cancelled /\ ~job[n].orphan
              /\ job[n].at = "ready" => screen.client = n
         /\ \A n, m \in Sessions : job[n].at \in Running /\ job[m].at \in Running => n = m
<1>1. ~Hurried
  BY DEF Hurried
<1>2. \A n \in Sessions : job[n].at \in Running => Live(n)
  BY DEF ScreenInv, EngineFollows, Live
<1> QED BY <1>1, <1>2 DEF ScreenInv, AttemptAlone, LiveBound, Live

\* The engine passes from the attempt to the session it becomes.
LEMMA ScreenEngine ==
  ASSUME ScreenInv,
         \/ Show \/ OnServiceConnected \/ Recompose \/ Leave
         \/ Connect \/ Disconnect \/ ExternalStop \/ DeviceDrops
  PROVE  EngineFollows'
<1> SUFFICES ASSUME mishaps' = {} PROVE EngineFollows'
  BY DEF EngineFollows
<1>0. /\ mishaps = {} /\ ~Hurried /\ ~DeviceDrops /\ (Leave => Idle)
      /\ Connect \/ Disconnect \/ ExternalStop => Drawn
  BY NoMishap DEF ScreenInv, Next
<1> USE DEF ScreenInv, EngineFollows, Running, OnIO
<1>1. CASE Show
  BY <1>0, OneRunning, <1>1, Shows DEF Show, Idle
<1>2. CASE OnServiceConnected
  BY <1>0, OneRunning, <1>2, Binds DEF OnServiceConnected, Idle
<1>3. CASE Recompose
  BY <1>0, OneRunning, <1>3, Recomposes DEF Recompose, Idle
<1>4. CASE Leave
  <2>1. \A m \in Sessions : job'[m].at \notin Running
    BY <1>0, <1>4, Leaves DEF Idle
  <2>2. engine' = service'.client
    BY <1>0, <1>4, Leaves, ServiceOps DEF TypeOK
  <2> QED BY <2>1, <2>2
<1>5. CASE Connect
  <2>1. screen.bound /\ ~screen.connected /\ ~screen.connecting /\ UNCHANGED <<engine, service>>
    BY <1>5 DEF Connect
  <2>2. Idle
    BY <1>0, <2>1, OneRunning DEF Idle
  <2>3. screen.seen <=> service.playing
    BY <1>0, <1>5, <2>1 DEF Drawn
  <2>4. engine = NoSession
    BY <1>0, <2>1, <2>2, <2>3 DEF ScreenFollows, LiveBound
  <2>5. /\ \A m \in Sessions : job'[m].at \in Running => m = attempts + 1
        /\ attempts + 1 \in Sessions /\ job'[attempts + 1].at = "stale"
        /\ ~job'[attempts + 1].cancelled
    BY <1>5, <2>2, Connects DEF Idle
  <2>6. ~Idle'
    BY <2>5 DEF Idle
  <2> QED BY <2>1, <2>4, <2>5, <2>6
<1>6. CASE Disconnect
  BY <1>0, OneRunning, <1>6, Disconnects, ServiceOps DEF Disconnect, TypeOK, Idle
<1>7. CASE ExternalStop
  <2>1. \A m \in Sessions : job[m].at \notin Running
    BY <1>0, <1>7, OneRunning DEF ExternalStop
  <2>2. \A m \in Sessions : job'[m].at \notin Running
    BY <1>7, <2>1, StopsOutside
  <2>3. engine' = service'.client
    BY <1>7, StopsOutside, ServiceOps DEF TypeOK
  <2> QED BY <2>2, <2>3
<1>8. CASE DeviceDrops
  BY <1>0, OneRunning, <1>8, Drops DEF DeviceDrops, EngineDies, Idle
<1> QED BY <1>1, <1>2, <1>3, <1>4, <1>5, <1>6, <1>7, <1>8

LEMMA AttemptEngine ==
  ASSUME ScreenInv, NEW n \in Sessions, JobStep(n)
  PROVE  EngineFollows'
<1> SUFFICES ASSUME mishaps' = {} PROVE EngineFollows'
  BY DEF EngineFollows
<1>0. /\ mishaps = {} /\ ~Hurried /\ ~DeviceDrops /\ (Leave => Idle)
      /\ Connect \/ Disconnect \/ ExternalStop => Drawn
  BY NoMishap DEF ScreenInv, Next
<1> USE DEF ScreenInv, EngineFollows, Running, OnIO
<1> USE Moves, WhereTo
<1>1. CASE JobReadsStale(n)
  BY <1>0, OneRunning, <1>1 DEF JobReadsStale, Idle
<1>2. CASE JobPrepares(n)
  BY <1>0, OneRunning, <1>2, Prepares, ServiceOps, JobGoes DEF TypeOK, Idle
<1>3. CASE JobLeavesStale(n)
  BY <1>0, OneRunning, <1>3 DEF JobLeavesStale, Goes, Idle
<1>4. CASE JobJoins(n)
  BY <1>0, OneRunning, <1>4 DEF JobJoins, Goes, Idle
<1>5. CASE JobSucceeds(n)
  BY <1>0, OneRunning, <1>5, Succeeds DEF JobSucceeds, Idle
<1>6. CASE JobFails(n)
  BY <1>0, OneRunning, <1>6 DEF JobFails, Idle
<1>7. CASE JobAborts(n)
  BY <1>0, OneRunning, <1>7, Aborts DEF JobAborts, Idle
<1>8. CASE JobCommits(n)
  <2>1. screen.client = n /\ ~service.playing /\ engine = n /\ n # NoSession
    BY <1>0, <1>8, OneRunning
  <2>2. CommitPlayback(n)
    BY <1>8, <2>1, CommitsScreen
  <2>3. engine' = service'.client
    BY <2>1, <2>2, Commits DEF TypeOK, LiveBound
  <2>4. \A m \in Sessions : job'[m].at \notin Running
    BY <1>0, <1>8, OneRunning
  <2> QED BY <2>3, <2>4
<1>9. CASE JobShowsError(n)
  BY <1>0, OneRunning, <1>9, ShowsError DEF JobShowsError, Idle
<1>10. CASE JobCancelled(n)
  BY <1>0, OneRunning, <1>10 DEF JobCancelled, Idle
<1> QED BY <1>1, <1>2, <1>3, <1>4, <1>5, <1>6, <1>7, <1>8, <1>9, <1>10 DEF JobStep

-----------------------------------------------------------------------------
\* Every step of the screen keeps the invariant: what the calls, the network
\* and the server do of themselves touches no part of it but the types.
LEMMA Untouched ==
  ASSUME ScreenInv, UNCHANGED <<engine, service, screen, attempts, job, mishaps>>,
         leaving' \subseteq leaving, registered' \subseteq registered
  PROVE  ScreenInv'
<1>1. TypeOK'
  BY DEF ScreenInv, TypeOK, ServiceTypeOK
<1>2. LiveBound' /\ AttemptAlone' /\ ScreenFollows' /\ EngineFollows'
  BY DEF ScreenInv, LiveBound, AttemptAlone, ScreenFollows, EngineFollows, Live, Idle, Hurried
<1> QED BY <1>1, <1>2 DEF ScreenInv

\* Nor does the activity when it stops or starts: it only holds frames back.
LEMMA Frames ==
  ASSUME ScreenInv, Hide \/ Reappear
  PROVE  ScreenInv'
<1>1. /\ screen' \in ScreenState /\ screen'.shown = screen.shown
      /\ screen'.bound = screen.bound /\ screen'.connected = screen.connected
      /\ screen'.connecting = screen.connecting /\ screen'.seen = screen.seen
      /\ screen'.client = screen.client
  BY DEF Hide, Reappear, ScreenInv, TypeOK, ScreenState
<1>2. UNCHANGED <<engine, service, attempts, job, leaving, registered, mishaps>>
  BY DEF Hide, Reappear
<1>3. TypeOK'
  BY <1>1, <1>2 DEF ScreenInv, TypeOK, ServiceTypeOK
<1>4. LiveBound' /\ AttemptAlone' /\ ScreenFollows' /\ EngineFollows'
  BY <1>1, <1>2 DEF ScreenInv, LiveBound, AttemptAlone, ScreenFollows, EngineFollows, Live,
                    Idle, Hurried
<1> QED BY <1>3, <1>4 DEF ScreenInv

LEMMA ScreenNext == ScreenInv /\ Next => ScreenInv'
<1> SUFFICES ASSUME ScreenInv, Next PROVE ScreenInv'
  OBVIOUS
<1>1. CASE \/ Show \/ OnServiceConnected \/ Recompose \/ Leave
           \/ Connect \/ Disconnect \/ ExternalStop \/ DeviceDrops
  <2>1. TypeOK'
    BY <1>1, Shows, Binds, Recomposes, Leaves, Connects, Disconnects, StopsOutside, Drops
       DEF ScreenInv
  <2> QED BY <1>1, <2>1, ScreenLiveBound, ScreenAlone, ScreenFollowsOn, ScreenEngine
          DEF ScreenInv
<1>2. CASE \E n \in Sessions : JobStep(n)
  <2>1. PICK n \in Sessions : JobStep(n)
    BY <1>2
  <2>2. TypeOK'
    BY <2>1, AttemptTypes DEF ScreenInv
  <2> QED BY <2>1, <2>2, AttemptLiveBound, AttemptsAlone, AttemptFollowsOn,
             AttemptEngine
          DEF ScreenInv
<1>3. CASE \E n \in Sessions : LeaveEnds(n) \/ Reap(n)
  BY <1>3, Untouched DEF LeaveEnds, Reap
<1>4. CASE Hide \/ Reappear
  BY <1>4, Frames
<1> QED BY <1>1, <1>2, <1>3, <1>4 DEF Next

LEMMA ScreenInit == Init => ScreenInv
<1> SUFFICES ASSUME Init PROVE ScreenInv
  OBVIOUS
<1>1. /\ screen = Blank(TRUE) /\ engine = NoSession /\ service = FreshService
      /\ attempts = 0 /\ leaving = {} /\ registered = {} /\ mishaps = {}
  BY DEF Init, ServiceInit
<1>2. service \in ServiceState /\ ~service.playing /\ service.client = NoSession /\ ~service.started
  BY <1>1 DEF FreshService, ServiceState
<1>3. \A n \in Sessions : job[n].at = "none"
  BY DEF Init, Fresh
<1>4. job \in [Sessions -> JobState]
  BY DEF Init, Fresh, JobState, Steps
<1>5. /\ screen \in ScreenState /\ ~screen.bound /\ ~screen.connected /\ ~screen.connecting
      /\ ~screen.seen /\ screen.client = NoSession
  BY <1>1, BlankScreen
<1>6. TypeOK
  <2>1. ServiceTypeOK
    BY <1>1, <1>2 DEF ServiceTypeOK
  <2>2. attempts \in 0 .. MaxConnects
    BY <1>1
  <2> QED BY <1>1, <1>4, <1>5, <2>1, <2>2 DEF TypeOK
<1>7. LiveBound /\ AttemptAlone /\ ScreenFollows /\ EngineFollows
  BY <1>1, <1>2, <1>3, <1>5
     DEF LiveBound, AttemptAlone, ScreenFollows, EngineFollows, Live, Running, OnIO
<1> QED BY <1>6, <1>7 DEF ScreenInv

-----------------------------------------------------------------------------
\* The server's steps forget sessions at most.
LEMMA ServerKeeps == ScreenInv /\ ServerDoes => ScreenInv'
BY Untouched DEF ServerDoes, ScreenInv, TypeOK

LEMMA ServerTypes == Server!TypeOK /\ Server!Next => Server!TypeOK'
BY DEF Server!TypeOK, Server!Next, Server!MainStep, Server!StartsCapture, Server!Spawns,
       Server!Binds, Server!Drains, Server!Dies, Server!Fresh, Server!Then, Server!TrayEnds,
       Server!Signal, Server!ShutsDown, Server!WebStep, Server!WebBinds, Server!WebFails,
       Server!WebStops, Server!WebGoes, Server!Relaunch

LEMMA SystemInvariant == SystemSpec => [](ScreenInv /\ Server!TypeOK)
<1>1. SystemInit => ScreenInv /\ Server!TypeOK
  BY ScreenInit DEF SystemInit, Server!Init, Server!TypeOK
<1>2. ScreenInv /\ Server!TypeOK /\ [SystemNext]_systemVars => (ScreenInv /\ Server!TypeOK)'
  <2> SUFFICES ASSUME ScreenInv, Server!TypeOK, [SystemNext]_systemVars
               PROVE  (ScreenInv /\ Server!TypeOK)'
    OBVIOUS
  <2>1. CASE AppDoes(Next)
    BY <2>1, ScreenNext DEF AppDoes, serverVars, Server!TypeOK
  <2>2. CASE ServerDoes
    BY <2>2, ServerKeeps, ServerTypes DEF ServerDoes
  <2>3. CASE UNCHANGED systemVars
    BY <2>3, Untouched DEF systemVars, vars, serverVars, Server!TypeOK
  <2> QED BY <2>1, <2>2, <2>3 DEF SystemNext
<1> QED BY <1>1, <1>2, PTL DEF SystemSpec

-----------------------------------------------------------------------------
\* Screen, service, attempts and server keep to their types, for any number of
\* attempts (ListeningScreen.kt, PlaybackService.kt, main.rs).
THEOREM SystemTypes == SystemSpec => []SystemTypeOK
<1>1. ScreenInv /\ Server!TypeOK => SystemTypeOK
  BY DEF ScreenInv, SystemTypeOK
<1> QED BY <1>1, SystemInvariant, PTL

\* Once a frame is drawn the button shows what the service does, for the
\* session the service has: a composition that went and came back, an external
\* stop and a failed or slow attempt included.
THEOREM Agrees == SystemSpec => []ScreenAgrees
<1>1. ScreenInv => ScreenAgrees
  <2> SUFFICES ASSUME ScreenInv, screen.bound, Drawn, ~Hurried
               PROVE  /\ screen.connected <=> service.playing
                      /\ screen.connected => screen.client = service.client
    BY DEF ScreenAgrees
  <2>1. screen.seen <=> service.playing
    BY DEF Drawn
  <2>2. screen.connected <=> service.playing
    BY <2>1 DEF ScreenInv, ScreenFollows
  <2> QED BY <2>2 DEF ScreenInv, ScreenFollows
<1> QED BY <1>1, SystemInvariant, PTL

\* With no attempt under way and no mishap, the engine that runs is that of the
\* session the service plays, and none runs when it plays none: abortPlayback,
\* stopPlayback and the next preparePlayback leave no engine behind.
THEOREM Owned == SystemSpec => []EngineOwned
<1>1. ScreenInv => EngineOwned
  <2> SUFFICES ASSUME ScreenInv, Idle, mishaps = {}
               PROVE  engine = IF service.playing THEN service.client ELSE NoSession
    BY DEF EngineOwned
  <2>1. engine = service.client
    BY DEF ScreenInv, EngineFollows
  <2> QED BY <2>1 DEF ScreenInv, LiveBound
<1> QED BY <1>1, SystemInvariant, PTL

\* The server shuts down only when Quit, Ctrl+C or SIGTERM asked it to: of the
\* two senders of the watch channel the shutdown task owns one until it is done,
\* so that the end of the tray is no reason.
THEOREM Serves == SystemSpec => []ServesUntilAsked
<1> DEFINE Inv == ServesUntilAsked /\ Server!StartsAfresh
<1> USE DEF ServesUntilAsked, Server!ServesUntilAsked, Server!Asked, Server!StartsAfresh
<1>1. SystemInit => Inv
  BY DEF SystemInit, Server!Init
<1>2. Inv /\ Server!Next => Inv'
  <2> SUFFICES ASSUME Inv, Server!Next PROVE Inv'
    OBVIOUS
  <2>1. CASE Server!MainStep \/ Server!Dies
    BY <2>1 DEF Server!MainStep, Server!StartsCapture, Server!Spawns, Server!Binds,
                Server!Drains, Server!Dies, Server!Fresh, Server!Then
  <2>2. CASE Server!TrayEnds
    BY <2>2 DEF Server!TrayEnds
  <2>3. CASE Server!Signal
    BY <2>3 DEF Server!Signal
  <2>4. CASE Server!ShutsDown
    <3>1. Server!SenderLeft /\ ~stopping
      BY <2>4 DEF Server!ShutsDown, Server!Waiting, Server!SenderLeft
    <3> QED BY <2>4, <3>1 DEF Server!ShutsDown, Server!Sent, Server!Waiting
  <2>5. CASE Server!WebStep \/ Server!Relaunch
    BY <2>5 DEF Server!WebStep, Server!WebBinds, Server!WebFails, Server!WebStops,
                Server!WebGoes, Server!Relaunch, Server!Alive
  <2> QED BY <2>1, <2>2, <2>3, <2>4, <2>5 DEF Server!Next
<1>3. Inv /\ [SystemNext]_systemVars => Inv'
  BY <1>2 DEF SystemNext, AppDoes, ServerDoes, systemVars, serverVars
<1>4. Inv => ServesUntilAsked
  OBVIOUS
<1> QED BY <1>1, <1>3, <1>4, PTL DEF SystemSpec

=============================================================================
