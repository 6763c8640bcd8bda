----------------------------- MODULE Advertising -----------------------------
(***************************************************************************)
(* What one board tells of itself: the Trickle timer (mesh/trickle.py) and *)
(* the advertisements of mesh/dodag.py, the presence and topology reports  *)
(* of mesh/reports.py.  They share the frames that go on air: any frame    *)
(* suppresses, one with DODAG information answers, one with a presence     *)
(* reports its flags.                                                      *)
(*                                                                         *)
(* A frame is packed, then sent when the channel is free: what it holds    *)
(* may be replaced, dropped or added to in the meantime.                   *)
(*                                                                         *)
(* Times are left open: a timer that is set may be due at any moment.      *)
(***************************************************************************)
EXTENDS Integers, FiniteSets

CONSTANTS
  K,      \* redundancy constant (2)
  TOP,    \* doublings from Imin to Imax
  FLAGS,  \* flags of a presence that the board raises
  FIRST,  \* first report since boot
  None

ASSUME AdvertisingAssumption ==
  K \in Nat \ {0} /\ TOP \in Nat /\ FIRST \notin FLAGS /\ None \notin 0 .. TOP

VARIABLES
  attached,
  trickle,    \* Off, or [level, first, decided, count, infos, sent, infoSent, need]
  advert,     \* advertisement queued: None, "urgent" or "beacon" (priority 1 or 2)
  raised,     \* flags observed since the last presence was generated
  sticky,     \* flags not yet carried by a presence on air
  carried,    \* of them, those the queued presence carries
  presence,   \* flags of the queued presence, or None
  timers,     \* armed ones of "presence" and "topology"
  probe,      \* the forward of the presence on air is awaited
  packed,     \* frame waiting for the channel: None, or its [info, fresh, report, same]
  asked,      \* history: a need for information that nothing has met yet
  unreported  \* history: flags raised and not on air since

advertVars == <<attached, trickle, advert, raised, sticky, carried, presence, timers,
                probe, packed, asked, unreported>>
reports == <<raised, sticky, carried, presence, timers, probe, unreported>>
adverts == <<trickle, advert, asked>>

Off == [level |-> None]
Running == trickle # Off

Interval(level, first, need) ==
  [level |-> level, first |-> first, decided |-> FALSE, count |-> 0, infos |-> 0,
   sent |-> FALSE, infoSent |-> FALSE, need |-> need]

AdvertInit ==
  /\ attached = FALSE /\ trickle = Off /\ advert = None
  /\ raised = {} /\ sticky = {FIRST} /\ carried = {} /\ presence = None
  /\ timers = {} /\ probe = FALSE /\ packed = None /\ asked = FALSE /\ unreported = {FIRST}

------------------------------------------------------------------------------
(* Trickle. *)

\* reset: Imin again, unless the first advertisement is still to come.
Reset(t, need) ==
  LET needed == need \/ (t # Off /\ t.need)
  IN  IF t # Off /\ t.level = 0 /\ t.first /\ ~t.decided
        THEN [t EXCEPT !.need = needed] ELSE Interval(0, TRUE, needed)

AtImax(t) == ~t.first /\ t.level = TOP

\* A mutant of Decides: any frame sent or heard answers a need.
DecidesAnyFrame(t) ==
  IF t.need THEN ~t.sent /\ t.count < K ELSE ~AtImax(t) /\ ~t.sent /\ t.count < K

\* _decide: is an advertisement due?
Decides(t) ==
  IF t.need THEN ~t.infoSent /\ t.infos < K
  ELSE ~AtImax(t) /\ ~t.sent /\ t.count < K

\* The next interval, doubled up to Imax.
Doubled(t) == Interval(IF t.level < TOP THEN t.level + 1 ELSE TOP, FALSE, t.need)

\* _advertise: queued, refused, or merged with the one queued, raised to urgent.
AdvertQueued(urgent) ==
  IF advert # None THEN {IF urgent THEN "urgent" ELSE advert}
  ELSE {None, IF urgent THEN "urgent" ELSE "beacon"}

\* poll at the decision time of the interval, then perhaps past its end and the
\* decision of the next one: at most one advertisement.
Poll ==
  /\ Running
  /\ \E late \in BOOLEAN :
       LET t == trickle
           now == ~t.decided /\ Decides(t)
           decided == [t EXCEPT !.decided = TRUE, !.need = @ /\ t.decided]
           next == Doubled(decided)
           then == [next EXCEPT !.decided = TRUE, !.need = @ /\ now]
           due == now \/ (late /\ Decides(next))
       IN  /\ trickle' = IF late THEN then ELSE IF t.decided THEN next ELSE decided
           /\ advert' \in IF due THEN AdvertQueued(TRUE) ELSE {advert}
           /\ asked' = (asked /\ ~due)
  /\ UNCHANGED <<attached, packed, reports>>

\* A reset of Trickle; a need is recorded unless information was already sent or
\* heard in the interval that goes on.
Resets(need) ==
  /\ trickle' = Reset(trickle, need)
  /\ asked' = IF need THEN asked \/ (~trickle'.infoSent /\ trickle'.infos = 0) ELSE asked

\* One frame more, up to K: the code only compares its counts with it.
Another(count) == IF count < K THEN count + 1 ELSE K

\* A frame of the own version from a neighbour with a route, with or without DODAG
\* information (_heard, _on_info).
HearSame(info) ==
  /\ attached /\ Running
  /\ trickle' = [trickle EXCEPT !.count = Another(@), !.infos = IF info THEN Another(@) ELSE @]
  /\ asked' = (asked /\ trickle'.infos < K)
  /\ UNCHANGED <<attached, advert, packed, reports>>

\* A solicitation, or a frame of an older version.
HearNeed == attached /\ Resets(TRUE) /\ UNCHANGED <<attached, advert, packed, reports>>

\* An increase of the rank, or a rank error, which also advertises at once.
RankError(atOnce) ==
  /\ attached /\ Resets(FALSE)
  /\ advert' \in IF atOnce THEN AdvertQueued(TRUE) ELSE {advert}
  /\ UNCHANGED <<attached, packed, reports>>

\* The root's beacon, on its own timer.
Beacon == attached /\ advert' \in AdvertQueued(FALSE) /\ UNCHANGED <<attached, trickle, asked, packed, reports>>

\* _poison: the advertisement of rank 255 at once.
Detach ==
  /\ attached /\ attached' = FALSE
  /\ trickle' = Reset(trickle, FALSE)
  /\ advert' \in AdvertQueued(TRUE) /\ asked' = FALSE
  /\ UNCHANGED <<packed, reports>>

\* _routing: the solicitation of a board without route stops Trickle.
SolicitStop ==
  /\ ~attached /\ Running
  /\ trickle' = Off /\ asked' = FALSE
  /\ UNCHANGED <<attached, advert, packed, reports>>

------------------------------------------------------------------------------
(* Reports. *)

\* parent_changed: a presence soon, and the first topology report.
Armed == timers \cup {"presence", "topology"}

\* _apply: the first parent, after an adoption or not.
Attach ==
  /\ ~attached /\ attached' = TRUE
  /\ \E owed \in BOOLEAN : Resets(owed)
  /\ timers' = Armed
  /\ UNCHANGED <<advert, raised, sticky, carried, presence, probe, packed, unreported>>

\* Another preferred parent.
Switch ==
  /\ attached /\ timers' = Armed
  /\ UNCHANGED <<attached, adverts, raised, sticky, carried, presence, probe, packed, unreported>>

Raise(f) ==
  /\ raised' = raised \cup {f} /\ unreported' = unreported \cup {f}
  /\ UNCHANGED <<attached, adverts, sticky, carried, presence, timers, probe, packed>>

\* _send_presence: the flags are read; the queue takes the message in place of the
\* one queued, or refuses it.
SendPresence ==
  /\ attached /\ "presence" \in timers
  /\ raised' = {} /\ sticky' = sticky \cup raised
  /\ \/ /\ presence' = sticky' /\ carried' = sticky'
        /\ packed' = IF packed = None THEN None ELSE [packed EXCEPT !.same = FALSE]
     \/ UNCHANGED <<presence, carried, packed>>
  /\ UNCHANGED <<attached, adverts, timers, probe, unreported>>

\* A timer due without route is stopped, until the next parent.
StopTimer(timer) ==
  /\ ~attached /\ timer \in timers
  /\ timers' = timers \ {timer}
  /\ UNCHANGED <<attached, adverts, raised, sticky, carried, presence, probe, packed, unreported>>

\* The queue drops a message (evicted, refused by the duty cycle, no route).
DropPresence ==
  /\ presence # None /\ presence' = None
  /\ UNCHANGED <<attached, adverts, raised, sticky, carried, timers, probe, packed, unreported>>
DropAdvert ==
  /\ advert # None /\ advert' = None
  /\ packed' = IF packed = None THEN None ELSE [packed EXCEPT !.fresh = FALSE]
  /\ UNCHANGED <<attached, trickle, asked, reports>>

\* pack: a frame with the queued advertisement or not, the queued presence or not;
\* a frame given up is packed again.
Pack(info, report) ==
  /\ info => advert # None
  /\ report => presence # None
  /\ packed' = [info |-> info, fresh |-> info,
                report |-> IF report THEN presence ELSE None, same |-> report]
  /\ UNCHANGED <<attached, adverts, reports>>

\* The flags left once the queued presence is on air.
Cleared == sticky \ carried

\* A mutant of IsReport: any presence on air stands for the last one generated.
IsReportAny == packed.report # None

\* Is the presence of the frame the last one generated?
IsReport == packed.report # None /\ packed.same

\* sent, at the start of the transmission: the hooks of Trickle and of the reports,
\* then commit, which leaves a message queued since; the frame goes to a relay
\* without class 1 message (sampled) or not.
Send(sampled) ==
  /\ packed # None /\ packed' = None
  /\ advert' = IF packed.fresh THEN None ELSE advert
  /\ trickle' = IF Running
                 THEN [trickle EXCEPT !.sent = TRUE, !.infoSent = @ \/ packed.info] ELSE trickle
  /\ asked' = (asked /\ ~packed.info)
  /\ unreported' = IF packed.report = None THEN unreported ELSE unreported \ packed.report
  /\ IF IsReport
       THEN sticky' = Cleared /\ carried' = {} /\ presence' = None /\ probe' = sampled
       ELSE UNCHANGED <<sticky, carried, presence, probe>>
  /\ UNCHANGED <<attached, raised, timers>>

\* _probe: the forward is overheard, or its time is over.
ProbeOver ==
  /\ probe /\ probe' = FALSE
  /\ UNCHANGED <<attached, adverts, raised, sticky, carried, presence, timers, packed, unreported>>

AdvertNext ==
  \/ Poll \/ HearNeed \/ Beacon \/ Detach \/ SolicitStop \/ Attach \/ Switch
  \/ \E b \in BOOLEAN : HearSame(b) \/ RankError(b)
  \/ \E f \in FLAGS : Raise(f)
  \/ SendPresence \/ DropPresence \/ DropAdvert \/ ProbeOver
  \/ \E timer \in {"presence", "topology"} : StopTimer(timer)
  \/ \E info, report \in BOOLEAN : Pack(info, report)
  \/ \E sampled \in BOOLEAN : Send(sampled)

AdvertSpec == AdvertInit /\ [][AdvertNext]_advertVars

------------------------------------------------------------------------------
\* A flag is never lost: until a presence that holds it is on air it waits for the
\* next one, whatever is refused, dropped, replaced or raised meanwhile, even between
\* the packing of a presence and its transmission (reports.py, flags,
\* _send_presence, _sent).
FlagsKept == unreported \subseteq raised \cup sticky

\* A need for DODAG information is met while the board has a route: it leaves the
\* timer only when an advertisement was asked for, sent, or K of them heard, as long
\* as none was sent or heard earlier in the interval (trickle.py, reset, _decide).
NeedKept == asked => Running /\ trickle.need
==============================================================================
