---------------------------- MODULE MagicLink ----------------------------
(***************************************************************************)
(* The access links of talent-api: staff issue, extend, revoke and         *)
(* regenerate a client's link; whoever holds the link redeems it for a     *)
(* short session and reads the client's workspace, the link being checked  *)
(* again on every request.  Redeeming passes a fixed-window rate limiter.  *)
(*                                                                         *)
(* A request loads the link in one step and commits in a later one; its    *)
(* UPDATE writes only the columns it changed in its own copy.  The clock   *)
(* is read before it is acted on: what a commit writes was stamped at some *)
(* time since the load, and a call of the limiter may wait for its lock.   *)
(* Time counts in ticks: days for the links, minutes for the limiter; an   *)
(* instance need not keep their ratio.                                     *)
(***************************************************************************)
EXTENDS Integers, FiniteSets, FiniteSetsExt

CONSTANTS
  Links,          \* the ids links are given
  Clients,
  Staff,
  Portfolio,      \* the clients each member of staff may act for
  Workers,        \* requests handled at the same time
  Sources,        \* addresses redeem attempts come from
  MinExpiry, DefaultExpiry, MaxExpiry,  \* ticks from now, inclusive
  Window, SourceLimit, GlobalLimit,     \* the limiter
  MaxTime,        \* bound: the clock stops there
  MaxRequests     \* bound: no redeem attempt or staff request after so many

ASSUME PortfolioAssumption == Portfolio \in [Staff -> SUBSET Clients]

ASSUME ExpiryAssumption ==
  /\ {MinExpiry, DefaultExpiry, MaxExpiry} \subseteq Nat \ {0}
  /\ MinExpiry <= DefaultExpiry /\ DefaultExpiry <= MaxExpiry

ASSUME LimiterAssumption == {Window, SourceLimit, GlobalLimit} \subseteq Nat \ {0}

ASSUME SourceAssumption == IsFiniteSet(Sources)

ASSUME BoundAssumption == {MaxTime, MaxRequests} \subseteq Nat

VARIABLES
  link,      \* the magic_link_grants table
  sessions,  \* the links of the unexpired session tokens
  desk,      \* the request each worker handles
  now,
  source,    \* the limiter's window of each address
  overall,   \* and of all of them together
  passed,    \* how many attempts the limiter let pass, per address and tick
  redeemed,  \* how often each link was redeemed
  requests,  \* redeem attempts and staff requests started
  late,      \* history: when a call opened a window on an older reading
  raced,     \* history: links extended on a copy another extension had outdated
  cut        \* history: when the revocation of each link was committed

limiter == <<source, overall, passed, late>>

vars == <<link, sessions, desk, now, limiter, redeemed, requests, raced, cut>>

Never == -1  \* revoked_at of a link that is not revoked

NoLink == [client |-> "none", expires |-> 0, revoked |-> Never, uses |-> 0]

Link == [client : Clients, expires : Nat, revoked : Nat \cup {Never}, uses : Nat]

Idle == [op |-> "idle"]

\* A request that has loaded a link: the copy, and when it was loaded.
Request ==
  [op : {"redeem", "extend", "revoke", "regenerate"}, on : Links, loaded : Link, at : Nat]

\* A redeem attempt that has read the clock and waits for the limiter's lock.
Call == [op : {"attempt"}, from : Sources, at : Nat]

\* A request of the portal that was let in, and when.
Visit == [op : {"visit"}, on : Links, client : Clients, at : Nat]

\* A window of the limiter: calls counted, and when the next one starts.
Counter == [count : Nat, reset : Nat]

TypeOK ==
  /\ link \in [Links -> Link \cup {NoLink}]
  /\ sessions \subseteq Links
  /\ desk \in [Workers -> Request \cup Call \cup Visit \cup {Idle}]
  /\ now \in 0..MaxTime
  /\ source \in [Sources -> Counter]
  /\ overall \in Counter
  /\ passed \in [Sources -> [0..MaxTime -> Nat]]
  /\ redeemed \in [Links -> Nat]
  /\ requests \in Nat
  /\ late \subseteq 0..MaxTime
  /\ raced \subseteq Links
  /\ cut \in [Links -> (0..MaxTime) \cup {Never}]

-----------------------------------------------------------------------------
\* The link

Issued == {g \in Links : link[g] # NoLink}

\* MagicLinkGrant.is_valid: derived from the row on every read.
Valid(row, t) == row.revoked = Never /\ row.expires > t

Live == {g \in Issued : Valid(link[g], now)}

\* _resolve_expiry: a date or a number of days, bounded from both sides.
Expiries(t) == t + MinExpiry .. t + MaxExpiry

\* Mutant: the UPDATE writes every column.
WrittenWhole(row, loaded, copy) == copy

\* The row after an UPDATE of the columns changed in the request's copy.
Written(row, loaded, copy) ==
  [c \in DOMAIN row |-> IF copy[c] # loaded[c] THEN copy[c] ELSE row[c]]

Take(w, request) == desk' = [desk EXCEPT ![w] = request]

Leave(w) == desk' = [desk EXCEPT ![w] = Idle]

-----------------------------------------------------------------------------
\* The limiter

\* Mutant: only the calls within the limit are counted, and a full window
\* starts the next one.
BumpAndReopen(c, limit, t) ==
  IF t >= c.reset \/ c.count >= limit THEN [count |-> 1, reset |-> t + Window]
                                      ELSE [c EXCEPT !.count = @ + 1]

\* _bump: every call counts, the rejected ones too.
Bump(c, limit, t) ==
  IF t >= c.reset THEN [count |-> 1, reset |-> t + Window] ELSE [c EXCEPT !.count = @ + 1]

\* allow under its lock, for a call of s that read the clock at t; both windows
\* count the call before either decides.  Dropping windows that are over from a
\* crowded table is left out.
Attempt(s, t, allowed) ==
  LET mine == Bump(source[s], SourceLimit, t)
      all  == Bump(overall, GlobalLimit, t)
  IN  /\ allowed = (mine.count <= SourceLimit /\ all.count <= GlobalLimit)
      /\ source' = [source EXCEPT ![s] = mine]
      /\ overall' = all
      /\ passed' = IF allowed THEN [passed EXCEPT ![s][now] = @ + 1] ELSE passed
      /\ late' = IF t < now /\ (t >= source[s].reset \/ t >= overall.reset)
                 THEN late \cup {now} ELSE late

-----------------------------------------------------------------------------
\* The portal

\* allow reads the clock before it asks for the lock.
Arrive(w, s) ==
  /\ desk[w] = Idle
  /\ requests < MaxRequests
  /\ Take(w, [op |-> "attempt", from |-> s, at |-> now])
  /\ requests' = requests + 1
  /\ UNCHANGED <<link, sessions, now, limiter, redeemed, raced, cut>>

\* redeem_access_link from the lock until its commit.  A link that is unknown,
\* expired or revoked, and an attempt over the limit, change nothing but the
\* counters.
Redeem(w, g) ==
  LET d == desk[w]
  IN  /\ d.op = "attempt"
      /\ g \in Links
      /\ \E allowed \in BOOLEAN :
           /\ Attempt(d.from, d.at, allowed)
           /\ IF allowed /\ g \in Live
              THEN Take(w, [op |-> "redeem", on |-> g, loaded |-> link[g], at |-> now])
              ELSE Leave(w)
      /\ UNCHANGED <<link, sessions, now, redeemed, requests, raced, cut>>

\* Mutant: looking the link up counts as a use, too.
CountedTwice(loaded) == [loaded EXCEPT !.uses = @ + 2]

\* What redeem makes of its copy.
Counted(loaded) == [loaded EXCEPT !.uses = @ + 1]

CommitRedeem(w) ==
  LET d == desk[w]
  IN  /\ d.op = "redeem"
      /\ link' = [link EXCEPT ![d.on] = Written(@, d.loaded, Counted(d.loaded))]
      /\ redeemed' = [redeemed EXCEPT ![d.on] = @ + 1]
      /\ sessions' = sessions \cup {d.on}
      /\ Leave(w)
      /\ UNCHANGED <<now, limiter, requests, raced, cut>>

\* Mutant: the session is trusted until it expires.
AdmitsOnToken(g) == g \in sessions

\* get_talent_external_scope: the session leads to the link, the link decides.
Admits(g) == g \in sessions /\ g \in Live

\* A request of the portal; its client is the link's.
Visits(w, g) ==
  /\ desk[w] = Idle
  /\ Admits(g)
  /\ Take(w, [op |-> "visit", on |-> g, client |-> link[g].client, at |-> now])
  /\ UNCHANGED <<link, sessions, now, limiter, redeemed, requests, raced, cut>>

Answer(w) ==
  /\ desk[w].op = "visit"
  /\ Leave(w)
  /\ UNCHANGED <<link, sessions, now, limiter, redeemed, requests, raced, cut>>

-----------------------------------------------------------------------------
\* Staff

InPortfolio(a, c) == c \in Portfolio[a]

New(c, expires) == [client |-> c, expires |-> expires, revoked |-> Never, uses |-> 0]

\* create_grant: no row is read that another request could change.  The expiry
\* was resolved when the request began.
Create(a, g, c, t, expires) ==
  /\ requests < MaxRequests
  /\ InPortfolio(a, c)
  /\ g \in Links \ Issued
  /\ t \in 0..now /\ expires \in Expiries(t)
  /\ link' = [link EXCEPT ![g] = New(c, expires)]
  /\ requests' = requests + 1
  /\ UNCHANGED <<sessions, desk, now, limiter, redeemed, raced, cut>>

\* _load_in_scope, then the operation on the loaded row.
Handle(w, a, g, op) ==
  /\ desk[w] = Idle
  /\ requests < MaxRequests
  /\ g \in Issued
  /\ InPortfolio(a, link[g].client)
  /\ Take(w, [op |-> op, on |-> g, loaded |-> link[g], at |-> now])
  /\ requests' = requests + 1
  /\ UNCHANGED <<link, sessions, now, limiter, redeemed, raced, cut>>

\* extend_grant: a revoked link is refused.
Extend(w, a, g) ==
  /\ link[g].revoked = Never
  /\ Handle(w, a, g, "extend")

\* Mutant: any expiry within the bounds will do.
ExtensionsEitherWay(row, t) == Expiries(t)

\* The new expiry must be later than the one of the copy.
Extensions(row, t) == {to \in Expiries(t) : to > row.expires}

CommitExtend(w, t, to) ==
  LET d == desk[w]
  IN  /\ d.op = "extend"
      /\ t \in d.at..now /\ to \in Extensions(d.loaded, t)
      /\ link' = [link EXCEPT ![d.on] = Written(@, d.loaded, [d.loaded EXCEPT !.expires = to])]
      /\ raced' = IF link[d.on].expires = d.loaded.expires THEN raced ELSE raced \cup {d.on}
      /\ Leave(w)
      /\ UNCHANGED <<sessions, now, limiter, redeemed, requests, cut>>

\* revoke_grant on a copy at time t: once revoked, the link stays as it is.
Revoked(row, t) == IF row.revoked = Never THEN [row EXCEPT !.revoked = t] ELSE row

\* From its commit on the link is revoked, whatever revoked_at says.
Cut(g) == cut' = [cut EXCEPT ![g] = IF @ = Never THEN now ELSE @]

\* revoked_at is stamped before the audit call and the commit.
CommitRevoke(w, t) ==
  LET d == desk[w]
  IN  /\ d.op = "revoke"
      /\ t \in d.at..now
      /\ link' = [link EXCEPT ![d.on] = Written(@, d.loaded, Revoked(d.loaded, t))]
      /\ Cut(d.on)
      /\ Leave(w)
      /\ UNCHANGED <<sessions, now, limiter, redeemed, requests, raced>>

\* regenerate_grant: the old link is revoked and a new one issued for the same
\* client with the default expiry from a later reading of the clock, also when
\* the old one was revoked before.
CommitRegenerate(w, g, t, later) ==
  LET d == desk[w]
  IN  /\ d.op = "regenerate"
      /\ g \in Links \ Issued
      /\ t \in d.at..now /\ later \in t..now
      /\ link' = [link EXCEPT ![d.on] = Written(@, d.loaded, Revoked(d.loaded, t)),
                              ![g] = New(d.loaded.client, later + DefaultExpiry)]
      /\ Cut(d.on)
      /\ Leave(w)
      /\ UNCHANGED <<sessions, now, limiter, redeemed, requests, raced>>

-----------------------------------------------------------------------------

\* The request dies before its commit; a visit dies unanswered.
Abort(w) ==
  /\ desk[w].op \in {"attempt", "redeem", "extend", "revoke", "regenerate"}
  /\ Leave(w)
  /\ UNCHANGED <<link, sessions, now, limiter, redeemed, requests, raced, cut>>

\* The session token expires.
ExpireSession(g) ==
  /\ g \in sessions
  /\ sessions' = sessions \ {g}
  /\ UNCHANGED <<link, desk, now, limiter, redeemed, requests, raced, cut>>

Tick ==
  /\ now < MaxTime
  /\ now' = now + 1
  /\ UNCHANGED <<link, sessions, desk, limiter, redeemed, requests, raced, cut>>

Init ==
  /\ link = [g \in Links |-> NoLink]
  /\ sessions = {}
  /\ desk = [w \in Workers |-> Idle]
  /\ now = 0
  /\ source = [s \in Sources |-> [count |-> 0, reset |-> 0]]
  /\ overall = [count |-> 0, reset |-> 0]
  /\ passed = [s \in Sources |-> [t \in 0..MaxTime |-> 0]]
  /\ redeemed = [g \in Links |-> 0]
  /\ requests = 0
  /\ late = {}
  /\ raced = {}
  /\ cut = [g \in Links |-> Never]

Portal(w) ==
  \/ \E s \in Sources : Arrive(w, s)
  \/ \E g \in Links : Redeem(w, g)
  \/ CommitRedeem(w)
  \/ \E g \in Links : Visits(w, g)
  \/ Answer(w)

Management(w) ==
  \/ \E a \in Staff, g \in Links :
       \/ Extend(w, a, g)
       \/ Handle(w, a, g, "revoke")
       \/ Handle(w, a, g, "regenerate")
  \/ \E t \in 0..now :
       \/ \E to \in Expiries(t) : CommitExtend(w, t, to)
       \/ CommitRevoke(w, t)
       \/ \E g \in Links, later \in t..now : CommitRegenerate(w, g, t, later)

Next ==
  \/ \E w \in Workers : Portal(w) \/ Management(w) \/ Abort(w)
  \/ \E a \in Staff, g \in Links, c \in Clients, t \in 0..now :
       \E e \in Expiries(t) : Create(a, g, c, t, e)
  \/ \E g \in Links : ExpireSession(g)
  \/ Tick

Spec == Init /\ [][Next]_vars

-----------------------------------------------------------------------------
\* What must hold

\* No indefinite links: whatever staff ask for and in whatever order, a link
\* that is live runs out at most MaxExpiry ticks from now (_resolve_expiry).
NoIndefiniteLinks == \A g \in Issued : link[g].expires <= now + MaxExpiry

\* A copy some request works on, however old: its link still exists, belongs to
\* the client of the copy and is revoked if the copy is.
CopiesKeepTrue ==
  \A w \in Workers : desk[w].op \in {"redeem", "extend", "revoke", "regenerate"} =>
    LET d == desk[w] IN
    /\ d.on \in Issued
    /\ link[d.on].client = d.loaded.client
    /\ d.loaded.revoked # Never => link[d.on].revoked # Never

\* A request of the portal that is still being answered was let in before the
\* revocation of its link was committed, and reads the workspace of the link's
\* client.  It may be later than revoked_at, which is stamped before.
VisitsPrecedeRevocation ==
  \A w \in Workers : desk[w].op = "visit" =>
    LET d == desk[w] IN
    /\ link[d.on].client = d.client
    /\ link[d.on].revoked # Never => d.at <= cut[d.on]

\* What requests that meet on a link may rest on: no link is without end or
\* undone, copies and visits stay true to their links.
LinkInv ==
  /\ TypeOK
  /\ NoIndefiniteLinks
  /\ \A g \in Issued : link[g].expires > 0
  /\ CopiesKeepTrue
  /\ VisitsPrecedeRevocation
  /\ \A g \in Links : link[g].revoked = Never <=> cut[g] = Never
  /\ \A w \in Workers : desk[w].op = "visit" => desk[w].on \in Issued
  /\ \A w \in Workers : desk[w] # Idle => desk[w].at <= now

\* Revoking is for good and immediate: no extension or redemption that was in
\* flight revives a link (extend_grant "a revoked grant can never be
\* extended"), and it never changes whose workspace it opens.
RevokedForGood ==
  [][\A g \in Issued :
       /\ link'[g].client = link[g].client
       /\ link[g].revoked # Never => link'[g].revoked # Never]_vars

\* Unless two extensions raced, the expiry of a link never moves back:
\* "Revoke is the only way to shorten/cut access" (extend_grant).
ExpiryMovesForward ==
  [][\A g \in Issued : g \in raced' \/ link'[g].expires >= link[g].expires]_vars

\* Lost updates may lose redemptions from the count of a link's uses, but
\* never invent one nor hide that it was used at all.
UsesAreRedemptions ==
  \A g \in Issued : link[g].uses <= redeemed[g] /\ (redeemed[g] > 0 => link[g].uses > 0)

\* The Window ticks up to t.
Stretch(t) == {u \in 0..t : u > t - Window}

\* The attempts let pass in some ticks, of an address and of all together.
PassedIn(s, ticks) == MapThenSumSet(LAMBDA t : passed[s][t], ticks)

AllPassedIn(ticks) == MapThenSumSet(LAMBDA s : PassedIn(s, ticks), Sources)

\* However long calls wait for the lock with their old readings: windows open
\* Window ticks apart by those readings, so in n windows' time no more than n
\* times the limit passes.  In one stretch of Window ticks late calls can let
\* several windows pass; unless one opened a window in it, the stretch overlaps
\* two and misses the call that opened the first: less than twice the limit.
LimiterHolds ==
  /\ \A n \in 1..(now + 1) : now < n * Window =>
       /\ \A s \in Sources : PassedIn(s, 0..MaxTime) <= n * SourceLimit
       /\ AllPassedIn(0..MaxTime) <= n * GlobalLimit
  /\ \A t \in 0..MaxTime : Stretch(t) \cap late = {} =>
       /\ \A s \in Sources : PassedIn(s, Stretch(t)) < 2 * SourceLimit
       /\ AllPassedIn(Stretch(t)) < 2 * GlobalLimit
=============================================================================
