----------------------------- MODULE MCSurfaces -----------------------------
(***************************************************************************)
(* Small instances of what looks at a page or a desktop, and of what lets   *)
(* planners do so - Observation, Sampling, NetworkEvidence, VideoWait,      *)
(* Controls, Desktop, McpServer - in one run: a behaviour is a behaviour of *)
(* one of them, chosen initially, while the others hold nothing.            *)
(***************************************************************************)
EXTENDS McpServer, TLC

CONSTANTS Page, MaxNode, IdentOf, Limit, Keep, MaxAge, MaxClock, MaxGeneration, MaxObservations,
          blank, t, base, Texts, Baselines, MaxSamples, Blank, Lease, Required,
          Requests, Meant, Wants, LogLimit, MaxRecords, MaxTime, MaxUnheard,
          Element, Source, Length, MaxTurns,
          Label, Asked, Query, Name, MaxRenders,
          c1, c2, c3, pe, Handle, Pid, Program, User, UserApps, Caller, Plan

VARIABLES browser, active, dom, born, enabled, tokens, clock, txn, kept, disk, attestations
VARIABLES monitor, adapter, seen, ms, real, log, record, op, lost, win, desk, run, part
VARIABLES video, samples, wait, turns, watched
VARIABLES field, options, combo, inputs, shown, upload, renders, past

O == INSTANCE Observation WITH generation <- browser
S == INSTANCE Sampling
N == INSTANCE NetworkEvidence WITH Request <- Requests
V == INSTANCE VideoWait WITH tokens <- samples
C == INSTANCE Controls
D == INSTANCE Desktop

observationVars == <<browser, active, dom, born, enabled, tokens, clock, txn, kept, disk, attestations>>
samplingVars == <<monitor, adapter, seen>>
videoVars    == <<video, samples, wait, turns, watched>>
controlVars  == <<field, options, combo, inputs, shown, upload, renders, past>>
networkVars  == <<ms, real, log, record, op, lost>>
desktopVars  == <<win, desk, run>>

\* The constants of the instances are as they want them.
ASSUME SurfacesInstance ==
    /\ O!ObservationAssumption /\ S!SamplingAssumption /\ D!DesktopAssumption
    /\ N!NetworkAssumption /\ V!LengthAssumption /\ C!ControlsAssumption

\* A request and its status, its duration, its being unanswered, and an answer alone.
Expected(request, response, status, elapsed) ==
    [request |-> request, response |-> response, status |-> status, elapsed |-> elapsed]
Expectations ==
    {Expected(TRUE, None, TRUE, None), Expected(TRUE, None, FALSE, 0),
     Expected(TRUE, "no", FALSE, None), Expected(FALSE, "yes", FALSE, None)}

\* Both nodes look alike.
MCIdentOf == [n \in 1..MaxNode |-> "x"]

\* One caller launches Explorer, navigates, and activates what opens Notepad; another
\* closes a Notepad window of the session.
MCProgram == (pe :> "explorer")
Operation(id, kind, app, present, shot) ==
    [id |-> id, kind |-> kind, app |-> app, owned |-> TRUE, unique |-> TRUE, present |-> present, shot |-> shot]
MCPlan ==
    (c1 :> << Operation("a", "launch", "explorer", TRUE, FALSE), Operation("b", "open", None, TRUE, FALSE),
              Operation("c", "activate", "explorer", TRUE, TRUE) >>)
    @@ (c2 :> << Operation("a", "close", "notepad", FALSE, FALSE) >>)

MCSymmetry == Permutations(Page) \cup Permutations(Handle)

\* Three calls over two connections, with room for one handle: one that asks for a handle,
\* one that uses it, and one that commits it, or what became of it, as well.
Calls    == {c1, c2, c3}
Asks     == {"observe", "prepare", "speculate"}
Uses     == {"reobserve", "execute", "commit", "continue", "select"}
Offered  == (c1 :> Asks) @@ (c2 :> Uses) @@ (c3 :> {"commit"})

\* A part that does not run holds nothing.
NoObservation ==
    /\ browser = None /\ active = None /\ dom = None /\ born = None /\ enabled = None /\ tokens = None
    /\ clock = None /\ txn = None /\ kept = None /\ disk = None /\ attestations = None
NoSampling == monitor = None /\ adapter = None /\ seen = None
NoNetwork  == ms = None /\ real = None /\ log = None /\ record = None /\ op = None /\ lost = None
NoVideo    == video = None /\ samples = None /\ wait = None /\ turns = None /\ watched = None
NoControls ==
    /\ field = None /\ options = None /\ combo = None /\ inputs = None
    /\ shown = None /\ upload = None /\ renders = None /\ past = None
NoServer   == Init /\ ~serial
NoDesktop  == win = None /\ desk = None /\ run = None

SurfacesInit ==
    \/ part = "observation" /\ O!Init /\ NoSampling /\ NoDesktop /\ NoServer /\ NoNetwork /\ NoVideo /\ NoControls
    \/ part = "sampling" /\ S!Init /\ NoObservation /\ NoDesktop /\ NoServer /\ NoNetwork /\ NoVideo /\ NoControls
    \/ part = "network" /\ N!Init /\ NoObservation /\ NoSampling /\ NoVideo /\ NoDesktop /\ NoServer /\ NoControls
    \/ part = "video" /\ V!Init /\ NoObservation /\ NoSampling /\ NoNetwork /\ NoDesktop /\ NoServer /\ NoControls
    \/ part = "desktop" /\ D!Init /\ NoObservation /\ NoSampling /\ NoServer /\ NoNetwork /\ NoVideo /\ NoControls
    \/ part = "server" /\ Init /\ NoObservation /\ NoSampling /\ NoDesktop /\ NoNetwork /\ NoVideo /\ NoControls
    \/ part = "controls" /\ C!Init /\ NoObservation /\ NoSampling /\ NoNetwork /\ NoVideo /\ NoDesktop /\ NoServer

SurfacesNext ==
    \/ part = "observation" /\ O!Next /\ UNCHANGED <<controlVars, samplingVars, networkVars, videoVars, desktopVars, vars, part>>
    \/ part = "sampling" /\ S!Next /\ UNCHANGED <<controlVars, observationVars, networkVars, videoVars, desktopVars, vars, part>>
    \/ part = "network" /\ N!Next /\ UNCHANGED <<controlVars, observationVars, samplingVars, videoVars, desktopVars, vars, part>>
    \/ part = "video" /\ V!Next /\ UNCHANGED <<controlVars, observationVars, samplingVars, networkVars, desktopVars, vars, part>>
    \/ part = "desktop" /\ D!Next /\ UNCHANGED <<controlVars, observationVars, samplingVars, networkVars, videoVars, vars, part>>
    \/ part = "server" /\ Next /\ UNCHANGED <<controlVars, observationVars, samplingVars, networkVars, videoVars, desktopVars, part>>
    \/ part = "controls" /\ C!Next /\ UNCHANGED <<observationVars, samplingVars, networkVars, videoVars, desktopVars, vars, part>>

surfacesVars ==
    <<observationVars, samplingVars, networkVars, videoVars, controlVars, desktopVars, vars, part>>

SurfacesSpec == SurfacesInit /\ [][SurfacesNext]_surfacesVars
-----------------------------------------------------------------------------
\* As Sampling, NetworkEvidence, VideoWait and Controls state it: monitor and adapter say what the
\* samples amount to (runtime/generation_monitor.py), a verdict on the network what happened
\* after the action (runtime/verifier.py), a wait for a video what it saw of it, and a chosen
\* option or an upload what the page made of it (backends/playwright_backend.py).
JudgedAsSampled ==
    /\ part = "sampling" => S!JudgedAsSampled
    /\ part = "network" => N!JudgedAsItHappened
    /\ part = "video" => V!PlayedAsWatched
    /\ part = "controls" => C!ControlsTellTheTruth

\* As Observation states them: what is remembered is of this browser, on disk and whole,
\* and an operation with a fresh reference acts on the node that was observed.
RememberedIsOfThisBrowser == part = "observation" => O!RememberedIsOfThisBrowser
ActsOnTheObserved         == [][part = "observation" => O!UseStep]_observationVars

\* As Desktop states them: the clean-up leaves no adopted window in view, and the windows
\* the user kept in view are never closed.
StoppedMeansClosed == part = "desktop" => D!StoppedMeansClosed
SparesOthers       == [][part = "desktop" => D!SparesStep]_desktopVars
=============================================================================
