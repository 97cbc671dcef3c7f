-------------------------- MODULE MagicLinkProofs --------------------------
(***************************************************************************)
(* Theorems on MagicLink, for any number of links, clients, staff,         *)
(* addresses and requests at a time, and any bounds.                       *)
(***************************************************************************)
EXTENDS MagicLink, FiniteSetTheorems, WellFoundedInduction, TLAPS

\* The operations that load a link and commit later.
Loading == {"redeem", "extend", "revoke", "regenerate"}

\* What an UPDATE leaves in each column: the copy's value where the request
\* changed it, else what is there by now.
LEMMA WrittenLink ==
  ASSUME NEW row \in Link, NEW loaded \in Link, NEW copy \in Link
  PROVE  /\ Written(row, loaded, copy) \in Link
         /\ Written(row, loaded, copy).client = IF copy.client # loaded.client THEN copy.client ELSE row.client
         /\ Written(row, loaded, copy).expires = IF copy.expires # loaded.expires THEN copy.expires ELSE row.expires
         /\ Written(row, loaded, copy).revoked = IF copy.revoked # loaded.revoked THEN copy.revoked ELSE row.revoked
<1> DEFINE W == Written(row, loaded, copy)
           choice(c) == IF copy[c] # loaded[c] THEN copy[c] ELSE row[c]
<1>1. DOMAIN row = {"client", "expires", "revoked", "uses"}
  BY DEF Link
<1>2. W = [client |-> choice("client"), expires |-> choice("expires"),
           revoked |-> choice("revoked"), uses |-> choice("uses")]
  BY <1>1 DEF Written
<1>3. /\ choice("client") \in Clients /\ choice("expires") \in Nat
      /\ choice("revoked") \in Nat \cup {Never} /\ choice("uses") \in Nat
  BY DEF Link
<1> QED  BY <1>2, <1>3 DEF Link

\* An issued link is a row of the table.
LEMMA IssuedLink ==
  ASSUME TypeOK, NEW g \in Issued
  PROVE  g \in Links /\ link[g] \in Link
  BY DEF TypeOK, Issued

\* What a request that loads a link holds.
LEMMA DeskType ==
  ASSUME TypeOK, NEW w \in Workers, desk[w].op \in Loading
  PROVE  desk[w] \in Request /\ desk[w].on \in Links /\ desk[w].loaded \in Link /\ desk[w].at \in Nat
<1>1. desk[w] \in Request \cup Call \cup Visit \cup {Idle}
  BY DEF TypeOK
<1>2. desk[w] \in Request
  BY <1>1 DEF Call, Visit, Idle, Loading
<1> QED  BY <1>2 DEF Request

\* What a request of the portal holds.
LEMMA VisitType ==
  ASSUME TypeOK, NEW w \in Workers, desk[w].op = "visit"
  PROVE  desk[w] \in Visit /\ desk[w].on \in Links /\ desk[w].at \in Nat
<1>1. desk[w] \in Request \cup Call \cup Visit \cup {Idle}
  BY DEF TypeOK
<1>2. desk[w] \in Visit
  BY <1>1 DEF Request, Call, Idle
<1> QED  BY <1>2 DEF Visit

\* What a redeem attempt that waits for the limiter holds.
LEMMA CallType ==
  ASSUME TypeOK, NEW w \in Workers, desk[w].op = "attempt"
  PROVE  desk[w] \in Call /\ desk[w].from \in Sources /\ desk[w].at \in Nat
<1>1. desk[w] \in Request \cup Call \cup Visit \cup {Idle}
  BY DEF TypeOK
<1>2. desk[w] \in Call
  BY <1>1 DEF Request, Visit, Idle
<1> QED  BY <1>2 DEF Call

\* Whatever a worker handles is no younger than now.
LEMMA DeskAge ==
  ASSUME LinkInv, NEW w \in Workers, desk[w].op \in Loading \cup {"visit", "attempt"}
  PROVE  desk[w].at \in Nat /\ now \in Nat /\ desk[w].at <= now
<1>1. desk[w].at \in Nat
  BY DeskType, VisitType, CallType DEF LinkInv
<1>2. desk[w] # Idle
  BY DEF Idle, Loading
<1> QED  BY <1>1, <1>2 DEF LinkInv, TypeOK

\* The links are marked as cut off when they are revoked.
LEMMA CutsAgree ==
  ASSUME LinkInv, NEW g \in Links
  PROVE  (link[g].revoked = Never) <=> (cut[g] = Never)
  BY DEF LinkInv

\* A step keeps every issued link with its client, and revoked if it was.
Keeps ==
  \A h \in Issued :
    /\ link'[h].client = link[h].client
    /\ link[h].revoked # Never => link'[h].revoked # Never

-----------------------------------------------------------------------------
\* Steps that leave the links and the clock alone

\* A worker takes up a request that is true to its link, or drops one.
LEMMA DeskStep ==
  ASSUME LinkInv, NEW w \in Workers, NEW d,
         desk' = [desk EXCEPT ![w] = d],
         UNCHANGED <<link, now, cut>>,
         sessions' \subseteq Links,
         source' \in [Sources -> Counter], overall' \in Counter,
         passed' \in [Sources -> [0..MaxTime -> Nat]], late' \subseteq 0..MaxTime,
         redeemed' \in [Links -> Nat], requests' \in Nat, raced' \subseteq Links,
         \/ d = Idle
         \/ d \in Call /\ d.at = now
         \/ d \in Request /\ d.at = now /\ d.on \in Issued /\ d.loaded = link[d.on]
         \/ d \in Visit /\ d.at = now /\ d.on \in Live /\ d.client = link[d.on].client
  PROVE  LinkInv' /\ Keeps
<1>1. desk \in [Workers -> Request \cup Call \cup Visit \cup {Idle}] /\ Issued' = Issued
  BY DEF LinkInv, TypeOK, Issued
<1>2. \A v \in Workers : desk'[v] = IF v = w THEN d ELSE desk[v]
  BY <1>1
<1>3. TypeOK'
  BY <1>1, <1>2 DEF LinkInv, TypeOK
<1>4. CopiesKeepTrue'
  <2> SUFFICES ASSUME NEW v \in Workers, desk'[v].op \in Loading
               PROVE  /\ desk'[v].on \in Issued
                      /\ link[desk'[v].on].client = desk'[v].loaded.client
                      /\ desk'[v].loaded.revoked # Never => link[desk'[v].on].revoked # Never
    BY <1>1 DEF CopiesKeepTrue, Loading
  <2>1. CASE v # w
    BY <2>1, <1>2 DEF LinkInv, CopiesKeepTrue, Loading
  <2>2. CASE v = w
    <3>1. desk'[v] = d /\ d \notin Visit /\ d \notin Call /\ d # Idle
      BY <2>2, <1>2 DEF Call, Visit, Idle, Loading
    <3> QED  BY <3>1
  <2> QED  BY <2>1, <2>2
<1>5. VisitsPrecedeRevocation' /\ (\A v \in Workers : desk[v].op = "visit" => desk[v].on \in Issued)'
  <2> SUFFICES ASSUME NEW v \in Workers, desk'[v].op = "visit"
               PROVE  /\ link[desk'[v].on].client = desk'[v].client
                      /\ link[desk'[v].on].revoked # Never => desk'[v].at <= cut[desk'[v].on]
                      /\ desk'[v].on \in Issued
    BY <1>1 DEF VisitsPrecedeRevocation
  <2>1. CASE v # w
    BY <2>1, <1>2 DEF LinkInv, VisitsPrecedeRevocation
  <2>2. CASE v = w
    <3>1. desk'[v] = d /\ d \notin Request /\ d \notin Call /\ d # Idle
      BY <2>2, <1>2 DEF Request, Call, Idle
    <3>2. d.on \in Issued /\ link[d.on].revoked = Never
      BY <3>1 DEF Live, Valid
    <3> QED  BY <3>1, <3>2 DEF LinkInv, TypeOK
  <2> QED  BY <2>1, <2>2
<1>6. \A v \in Workers : desk'[v] # Idle => desk'[v].at <= now
  BY <1>2 DEF LinkInv, TypeOK
<1> QED  BY <1>1, <1>3, <1>4, <1>5, <1>6 DEF LinkInv, NoIndefiniteLinks, Keeps

\* The limiter counts attempts, nothing else.
LEMMA AttemptType ==
  ASSUME TypeOK, NEW s \in Sources, NEW t \in Nat, NEW allowed \in BOOLEAN,
         Attempt(s, t, allowed)
  PROVE  /\ source' \in [Sources -> Counter]
         /\ overall' \in Counter
         /\ passed' \in [Sources -> [0..MaxTime -> Nat]]
         /\ late' \subseteq 0..MaxTime
<1>1. /\ \A limit \in {Window, SourceLimit, GlobalLimit} : limit \in Nat \ {0}
      /\ {Window, SourceLimit, GlobalLimit} \subseteq Nat
  BY LimiterAssumption
<1>2. \A c \in Counter, limit \in Nat : Bump(c, limit, t) \in Counter
  <2>1. Window \in Nat
    BY <1>1
  <2> QED  BY <2>1 DEF Bump, Counter
<1>3. source' = [source EXCEPT ![s] = Bump(source[s], SourceLimit, t)]
  BY DEF Attempt
<1>4. overall' = Bump(overall, GlobalLimit, t)
  BY DEF Attempt
<1>5. passed' \in [Sources -> [0..MaxTime -> Nat]]
  <2> DEFINE p == passed[s]
  <2>1. p \in [0..MaxTime -> Nat] /\ now \in 0..MaxTime
    BY DEF TypeOK
  <2>3. passed' = passed \/ passed' = [passed EXCEPT ![s] = [p EXCEPT ![now] = p[now] + 1]]
    BY DEF Attempt
  <2> HIDE DEF p
  <2>2. p[now] \in Nat
    BY <2>1
  <2>4. [p EXCEPT ![now] = p[now] + 1] \in [0..MaxTime -> Nat]
    BY <2>1, <2>2
  <2> QED  BY <2>3, <2>4 DEF TypeOK
<1>6. late' \subseteq 0..MaxTime
  BY DEF Attempt, TypeOK
<1> QED  BY <1>1, <1>2, <1>3, <1>4, <1>5, <1>6 DEF TypeOK

-----------------------------------------------------------------------------
\* Commits

\* An expiry resolved at some time lies ahead of it, and not further than
\* MaxExpiry from now.
LEMMA ExpiryRange ==
  ASSUME TypeOK, NEW t \in 0..now, NEW to \in Expiries(t)
  PROVE  to \in Nat /\ to \in 1..(now + MaxExpiry) /\ to > t
<1>1. /\ MinExpiry \in {MinExpiry, DefaultExpiry, MaxExpiry}
      /\ MaxExpiry \in {MinExpiry, DefaultExpiry, MaxExpiry}
  OBVIOUS
<1>2. MinExpiry \in Nat \ {0} /\ MaxExpiry \in Nat /\ now \in Nat /\ t \in Nat /\ t <= now
  BY <1>1, ExpiryAssumption DEF TypeOK
<1> QED  BY <1>2 DEF Expiries

\* Worker w commits its copy: the link keeps its client, is not revived, and
\* perhaps a new link is issued with it.
Lands(w, copy) ==
  LET d == desk[w] IN
  /\ copy \in Link /\ copy.client = d.loaded.client
  /\ \/ copy.revoked = d.loaded.revoked /\ cut' = cut
     \/ /\ d.loaded.revoked = Never /\ copy.revoked # Never
        /\ cut' = [cut EXCEPT ![d.on] = IF cut[d.on] = Never THEN now ELSE cut[d.on]]
  /\ copy.expires = d.loaded.expires \/ copy.expires \in 1..(now + MaxExpiry)
  /\ link' \in [Links -> Link \cup {NoLink}]
  /\ \A h \in Issued : link'[h] = IF h = d.on THEN Written(link[h], d.loaded, copy) ELSE link[h]
  /\ \A h \in Links \ Issued :
       link'[h] = NoLink \/ (link'[h].expires \in 1..(now + MaxExpiry) /\ link'[h].revoked = Never)
  /\ desk' = [desk EXCEPT ![w] = Idle]
  /\ now' = now /\ source' = source /\ overall' = overall /\ passed' = passed /\ late' = late
  /\ sessions' \subseteq Links /\ redeemed' \in [Links -> Nat]
  /\ requests' \in Nat /\ raced' \subseteq Links

\* The other requests in flight keep their ground.
LEMMA CommitStep ==
  ASSUME LinkInv, NEW w \in Workers, desk[w].op \in Loading, NEW copy, Lands(w, copy)
  PROVE  LinkInv' /\ Keeps
<1> DEFINE g == desk[w].on
           row == link'[g]
<1>0. /\ g \in Issued /\ row \in Link
      /\ row.client = link[g].client
      /\ link[g].revoked # Never => row.revoked # Never
      /\ \/ row.revoked = link[g].revoked /\ cut' = cut
         \/ /\ row.revoked # Never
            /\ cut' = [cut EXCEPT ![g] = IF cut[g] = Never THEN now ELSE cut[g]]
      /\ row.expires \in 1..(now + MaxExpiry)
  <2>1. /\ g \in Issued /\ link[g].client = desk[w].loaded.client
        /\ desk[w].loaded.revoked # Never => link[g].revoked # Never
    BY DEF LinkInv, CopiesKeepTrue, Loading
  <2>2. desk[w].loaded \in Link /\ link[g] \in Link /\ copy \in Link /\ now \in Nat
    BY <2>1, DeskType, IssuedLink DEF LinkInv, Lands, TypeOK
  <2>3. link[g].expires \in 1..(now + MaxExpiry)
    BY <2>1, <2>2, ExpiryAssumption DEF LinkInv, NoIndefiniteLinks, Link
  <2>4. row = Written(link[g], desk[w].loaded, copy)
    BY <2>1 DEF Lands
  <2>5. /\ row \in Link /\ row.client = link[g].client
        /\ row.revoked = IF copy.revoked # desk[w].loaded.revoked THEN copy.revoked ELSE link[g].revoked
        /\ row.expires \in 1..(now + MaxExpiry)
    BY <2>1, <2>2, <2>3, <2>4, WrittenLink DEF Lands
  <2> HIDE DEF row, g
  <2>6. CASE copy.revoked = desk[w].loaded.revoked /\ cut' = cut
    BY <2>1, <2>5, <2>6
  <2>7. CASE /\ desk[w].loaded.revoked = Never /\ copy.revoked # Never
             /\ cut' = [cut EXCEPT ![g] = IF cut[g] = Never THEN now ELSE cut[g]]
    BY <2>1, <2>5, <2>7
  <2> QED  BY <2>1, <2>5, <2>6, <2>7 DEF Lands, g
<1>0a. /\ cut' \in [Links -> (0..MaxTime) \cup {Never}]
       /\ \A h \in Links : h # g => cut'[h] = cut[h]
       /\ cut[g] # Never => cut'[g] = cut[g]
       /\ cut[g] = Never /\ row.revoked # Never => cut'[g] = now
       /\ row.revoked = Never <=> cut'[g] = Never
  <2>1. /\ g \in Links /\ cut \in [Links -> (0..MaxTime) \cup {Never}] /\ now \in 0..MaxTime
        /\ link[g].revoked = Never <=> cut[g] = Never
    BY <1>0, IssuedLink, CutsAgree DEF LinkInv, TypeOK
  <2>2. now # Never
    BY <2>1 DEF Never
  <2> HIDE DEF row, g
  <2>3. CASE row.revoked = link[g].revoked /\ cut' = cut
    BY <2>1, <2>3
  <2>4. CASE /\ row.revoked # Never
             /\ cut' = [cut EXCEPT ![g] = IF cut[g] = Never THEN now ELSE cut[g]]
    BY <2>1, <2>2, <2>4
  <2> QED  BY <1>0, <2>3, <2>4 DEF row, g
<1> HIDE DEF row
<1>1. \A h \in Issued : h \in Links /\ link[h] \in Link /\ link[h].expires \in 1..(now + MaxExpiry)
  BY IssuedLink, ExpiryAssumption DEF LinkInv, NoIndefiniteLinks, Link, TypeOK
<1>2a. \A h \in Issued : link'[h] = IF h = g THEN row ELSE link[h]
  BY <1>0 DEF Lands, row
<1>2. \A h \in Links : link'[h] # NoLink => link'[h].expires \in 1..(now + MaxExpiry)
  BY <1>0, <1>1, <1>2a DEF Lands
<1>3. Issued \subseteq Issued'
  BY <1>0, <1>1, <1>2a DEF Issued, NoLink
<1>4. \A v \in Workers : desk'[v] = IF v = w THEN Idle ELSE desk[v]
  BY DEF LinkInv, TypeOK, Lands
<1>5. TypeOK' /\ now' = now
  BY <1>0a, <1>4 DEF LinkInv, TypeOK, Lands
<1>6. NoIndefiniteLinks' /\ (\A h \in Issued : link[h].expires > 0)'
  BY <1>2, <1>5, ExpiryAssumption DEF Issued, NoIndefiniteLinks, LinkInv, TypeOK
<1>7. CopiesKeepTrue'
  <2> SUFFICES ASSUME NEW v \in Workers, desk'[v].op \in Loading
               PROVE  /\ desk'[v].on \in Issued'
                      /\ link'[desk'[v].on].client = desk'[v].loaded.client
                      /\ desk'[v].loaded.revoked # Never => link'[desk'[v].on].revoked # Never
    BY <1>5 DEF CopiesKeepTrue, Loading
  <2>1. desk'[v] = desk[v]
    BY <1>4 DEF Idle, Loading
  <2>2. /\ desk[v].on \in Issued
        /\ link[desk[v].on].client = desk[v].loaded.client
        /\ desk[v].loaded.revoked # Never => link[desk[v].on].revoked # Never
    BY <2>1 DEF LinkInv, CopiesKeepTrue, Loading
  <2> QED  BY <2>1, <2>2, <1>0, <1>2a, <1>3
<1>8. VisitsPrecedeRevocation' /\ (\A v \in Workers : desk[v].op = "visit" => desk[v].on \in Issued)'
  <2> SUFFICES ASSUME NEW v \in Workers, desk'[v].op = "visit"
               PROVE  /\ link'[desk'[v].on].client = desk'[v].client
                      /\ link'[desk'[v].on].revoked # Never => desk'[v].at <= cut'[desk'[v].on]
                      /\ desk'[v].on \in Issued'
    BY <1>5 DEF VisitsPrecedeRevocation
  <2>1. desk'[v] = desk[v]
    BY <1>4 DEF Idle
  <2>2. /\ link[desk[v].on].client = desk[v].client
        /\ link[desk[v].on].revoked # Never => desk[v].at <= cut[desk[v].on]
        /\ desk[v].on \in Issued
    BY <2>1 DEF LinkInv, VisitsPrecedeRevocation
  <2>3. desk[v].at <= now /\ desk[v].on \in Links
    BY <1>1, <2>1, <2>2, DeskAge
  <2>4. CASE desk[v].on = g
    <3>1. link[g].revoked = Never <=> cut[g] = Never
      BY <2>3, <2>4, CutsAgree
    <3> QED  BY <2>1, <2>2, <2>3, <2>4, <3>1, <1>0, <1>0a, <1>2a, <1>3
  <2>5. CASE desk[v].on # g
    BY <2>1, <2>2, <2>3, <2>5, <1>0a, <1>2a, <1>3
  <2> QED  BY <2>4, <2>5
<1>9. Keeps
  BY <1>0, <1>2a DEF Keeps
<1>10. \A h \in Links : link'[h].revoked = Never <=> cut'[h] = Never
  <2> SUFFICES ASSUME NEW h \in Links PROVE link'[h].revoked = Never <=> cut'[h] = Never
    OBVIOUS
  <2>1. link[h].revoked = Never <=> cut[h] = Never
    BY CutsAgree
  <2>2. CASE h = g
    BY <1>0, <1>0a, <1>2a, <2>2
  <2>3. CASE h # g /\ h \in Issued
    BY <1>0a, <1>2a, <2>1, <2>3
  <2>4. CASE h # g /\ h \notin Issued
    <3>1. link[h].revoked = Never /\ link'[h].revoked = Never
      BY <2>4 DEF Lands, Issued, NoLink
    <3> QED  BY <1>0a, <2>1, <2>4, <3>1
  <2> QED  BY <2>2, <2>3, <2>4
<1>11. \A v \in Workers : desk'[v] # Idle => desk'[v].at <= now
  BY <1>4 DEF LinkInv
<1> QED  BY <1>5, <1>6, <1>7, <1>8, <1>9, <1>10, <1>11 DEF LinkInv

\* A commit that changes one row of the table.
LEMMA OneLink ==
  ASSUME LinkInv, NEW w \in Workers, desk[w].op \in Loading, NEW copy \in Link,
         link' = [link EXCEPT ![desk[w].on] = Written(link[desk[w].on], desk[w].loaded, copy)]
  PROVE  /\ link' \in [Links -> Link \cup {NoLink}]
         /\ \A h \in Issued :
              link'[h] = IF h = desk[w].on THEN Written(link[h], desk[w].loaded, copy) ELSE link[h]
         /\ \A h \in Links \ Issued : link'[h] = NoLink
<1>1. desk[w].on \in Issued /\ link[desk[w].on] \in Link /\ desk[w].loaded \in Link
  BY DeskType, IssuedLink DEF LinkInv, CopiesKeepTrue, Loading
<1>2. Written(link[desk[w].on], desk[w].loaded, copy) \in Link
  BY <1>1, WrittenLink
<1> QED  BY <1>1, <1>2 DEF LinkInv, TypeOK, Issued

-----------------------------------------------------------------------------
\* The steps, one by one

\* Redeeming, visiting and answering.
LEMMA PortalStep ==
  ASSUME LinkInv, NEW w \in Workers, Portal(w)
  PROVE  LinkInv' /\ Keeps
<1> TypeOK
  BY DEF LinkInv
<1>0. ASSUME NEW s \in Sources, Arrive(w, s)
      PROVE  LinkInv' /\ Keeps
  <2> DEFINE d == [op |-> "attempt", from |-> s, at |-> now]
  <2>1. /\ desk' = [desk EXCEPT ![w] = d] /\ requests' \in Nat
        /\ UNCHANGED <<link, sessions, now, limiter, redeemed, raced, cut>>
    BY <1>0 DEF Arrive, Take, TypeOK
  <2>2. d \in Call /\ d.at = now
    BY DEF Call, TypeOK
  <2> HIDE DEF d
  <2> QED  BY <2>1, <2>2, DeskStep DEF limiter, TypeOK
<1>1. ASSUME NEW g \in Links, Redeem(w, g)
      PROVE  LinkInv' /\ Keeps
  <2>0. desk[w].from \in Sources /\ desk[w].at \in Nat
    BY <1>1, CallType DEF Redeem
  <2>1. PICK allowed \in BOOLEAN :
          /\ Attempt(desk[w].from, desk[w].at, allowed)
          /\ IF allowed /\ g \in Live
             THEN Take(w, [op |-> "redeem", on |-> g, loaded |-> link[g], at |-> now])
             ELSE Leave(w)
    BY <1>1 DEF Redeem
  <2>2. /\ source' \in [Sources -> Counter] /\ overall' \in Counter
        /\ passed' \in [Sources -> [0..MaxTime -> Nat]] /\ late' \subseteq 0..MaxTime
    BY <2>0, <2>1, AttemptType
  <2> DEFINE d == IF allowed /\ g \in Live
                  THEN [op |-> "redeem", on |-> g, loaded |-> link[g], at |-> now] ELSE Idle
  <2>3. UNCHANGED <<link, sessions, now, redeemed, requests, raced, cut>>
    BY <1>1 DEF Redeem
  <2>4. desk' = [desk EXCEPT ![w] = d]
    BY <2>1 DEF Take, Leave
  <2>5. d = Idle \/ (d \in Request /\ d.at = now /\ d.on \in Issued /\ d.loaded = link[d.on])
    BY IssuedLink DEF Live, Request, TypeOK
  <2> HIDE DEF d
  <2> QED  BY <2>2, <2>3, <2>4, <2>5, DeskStep DEF TypeOK
<1>2. ASSUME CommitRedeem(w)
      PROVE  LinkInv' /\ Keeps
  <2> DEFINE copy == Counted(desk[w].loaded)
  <2>1. desk[w].op \in Loading /\ desk[w].on \in Links /\ desk[w].loaded \in Link
    BY <1>2, DeskType DEF CommitRedeem, Loading
  <2>2. /\ copy \in Link /\ copy.client = desk[w].loaded.client
        /\ copy.expires = desk[w].loaded.expires /\ copy.revoked = desk[w].loaded.revoked
    BY <2>1 DEF Counted, Link
  <2> HIDE DEF copy
  <2>3. link' = [link EXCEPT ![desk[w].on] = Written(link[desk[w].on], desk[w].loaded, copy)]
    BY <1>2 DEF CommitRedeem, copy
  <2>4. /\ link' \in [Links -> Link \cup {NoLink}]
        /\ \A h \in Issued :
             link'[h] = IF h = desk[w].on THEN Written(link[h], desk[w].loaded, copy) ELSE link[h]
        /\ \A h \in Links \ Issued : link'[h] = NoLink
    BY <2>1, <2>2, <2>3, OneLink
  <2>5. /\ redeemed' \in [Links -> Nat] /\ sessions' \subseteq Links
        /\ requests' \in Nat /\ raced' \subseteq Links
    BY <1>2, <2>1 DEF CommitRedeem, TypeOK
  <2>6. Lands(w, copy)
    BY <1>2, <2>2, <2>4, <2>5 DEF CommitRedeem, Leave, limiter, Lands
  <2> QED  BY <2>1, <2>6, CommitStep
<1>3. ASSUME NEW g \in Links, Visits(w, g)
      PROVE  LinkInv' /\ Keeps
  <2> DEFINE d == [op |-> "visit", on |-> g, client |-> link[g].client, at |-> now]
  <2>1. g \in Live /\ desk' = [desk EXCEPT ![w] = d]
    BY <1>3 DEF Visits, Admits, Take
  <2>2. d \in Visit
    BY <2>1, IssuedLink DEF Live, Visit, Link, TypeOK
  <2>3. d.on \in Live /\ d.at = now /\ d.client = link[d.on].client
    BY <2>1
  <2> HIDE DEF d
  <2> QED  BY <1>3, <2>1, <2>2, <2>3, DeskStep DEF Visits, limiter, TypeOK
<1>4. ASSUME Answer(w)
      PROVE  LinkInv' /\ Keeps
  BY <1>4, DeskStep DEF Answer, Leave, limiter, TypeOK
<1> QED  BY <1>0, <1>1, <1>2, <1>3, <1>4 DEF Portal

\* Extending, revoking and regenerating, from the load to the commit.
LEMMA ManagementStep ==
  ASSUME LinkInv, NEW w \in Workers, Management(w)
  PROVE  LinkInv' /\ Keeps
<1> TypeOK
  BY DEF LinkInv
<1>1. ASSUME NEW a \in Staff, NEW g \in Links, NEW op \in {"extend", "revoke", "regenerate"},
             Handle(w, a, g, op)
      PROVE  LinkInv' /\ Keeps
  <2> DEFINE d == [op |-> op, on |-> g, loaded |-> link[g], at |-> now]
  <2>1. /\ g \in Issued /\ desk' = [desk EXCEPT ![w] = d]
        /\ UNCHANGED <<link, sessions, now, limiter, redeemed, raced, cut>> /\ requests' \in Nat
    BY <1>1 DEF Handle, Take, TypeOK
  <2>2. d \in Request /\ d.at = now /\ d.on \in Issued /\ d.loaded = link[d.on]
    BY <2>1, IssuedLink DEF Request, TypeOK
  <2> HIDE DEF d
  <2> QED  BY <2>1, <2>2, DeskStep DEF limiter, TypeOK
<1>2. ASSUME NEW a \in Staff, NEW g \in Links,
             Extend(w, a, g) \/ Handle(w, a, g, "revoke") \/ Handle(w, a, g, "regenerate")
      PROVE  LinkInv' /\ Keeps
  BY <1>1, <1>2 DEF Extend
<1>3. ASSUME NEW copy, desk[w].op \in Loading,
             link' = [link EXCEPT ![desk[w].on] = Written(link[desk[w].on], desk[w].loaded, copy)],
             copy \in Link, copy.client = desk[w].loaded.client,
             \/ copy.revoked = desk[w].loaded.revoked /\ cut' = cut
             \/ /\ desk[w].loaded.revoked = Never /\ copy.revoked # Never
                /\ cut' = [cut EXCEPT ![desk[w].on] = IF cut[desk[w].on] = Never THEN now ELSE cut[desk[w].on]],
             copy.expires = desk[w].loaded.expires \/ copy.expires \in 1..(now + MaxExpiry),
             desk' = [desk EXCEPT ![w] = Idle],
             UNCHANGED <<sessions, now, limiter, redeemed, requests>>, raced' \subseteq Links
      PROVE  LinkInv' /\ Keeps
  <2>1. /\ link' \in [Links -> Link \cup {NoLink}]
        /\ \A h \in Issued :
             link'[h] = IF h = desk[w].on THEN Written(link[h], desk[w].loaded, copy) ELSE link[h]
        /\ \A h \in Links \ Issued : link'[h] = NoLink
    BY <1>3, OneLink
  <2>2. redeemed' \in [Links -> Nat] /\ sessions' \subseteq Links /\ requests' \in Nat
    BY <1>3 DEF TypeOK
  <2>3. Lands(w, copy)
    BY <1>3, <2>1, <2>2 DEF limiter, Lands
  <2> QED  BY <1>3, <2>3, CommitStep
<1>4. ASSUME NEW t \in 0..now, NEW to \in Expiries(t), CommitExtend(w, t, to)
      PROVE  LinkInv' /\ Keeps
  <2> DEFINE copy == [desk[w].loaded EXCEPT !.expires = to]
  <2>1. desk[w].op \in Loading /\ desk[w].on \in Links /\ desk[w].loaded \in Link
    BY <1>4, DeskType DEF CommitExtend, Loading
  <2>2. to \in Nat /\ to \in 1..(now + MaxExpiry)
    BY <1>4, ExpiryRange
  <2>3. /\ copy \in Link /\ copy.client = desk[w].loaded.client
        /\ copy.revoked = desk[w].loaded.revoked /\ copy.expires \in 1..(now + MaxExpiry)
    BY <2>1, <2>2 DEF Link
  <2>4. raced' \subseteq Links
    BY <1>4, <2>1 DEF CommitExtend, TypeOK
  <2>5. link' = [link EXCEPT ![desk[w].on] = Written(link[desk[w].on], desk[w].loaded, copy)]
    BY <1>4 DEF CommitExtend
  <2> HIDE DEF copy
  <2> QED  BY <1>3, <1>4, <2>1, <2>3, <2>4, <2>5 DEF CommitExtend, Leave
<1>5. ASSUME NEW t \in 0..now, desk[w].op \in Loading, Cut(desk[w].on)
      PROVE  LET copy == Revoked(desk[w].loaded, t) IN
             /\ copy \in Link /\ copy.client = desk[w].loaded.client
             /\ copy.expires = desk[w].loaded.expires
             /\ \/ copy.revoked = desk[w].loaded.revoked /\ cut' = cut
                \/ /\ desk[w].loaded.revoked = Never /\ copy.revoked # Never
                   /\ cut' = [cut EXCEPT ![desk[w].on] = IF cut[desk[w].on] = Never THEN now ELSE cut[desk[w].on]]
  <2> DEFINE copy == Revoked(desk[w].loaded, t)
             g == desk[w].on
  <2>1. /\ desk[w].loaded \in Link /\ g \in Links /\ t \in Nat /\ t # Never
        /\ desk[w].loaded.revoked # Never => link[g].revoked # Never
    BY <1>5, DeskType DEF LinkInv, CopiesKeepTrue, Loading, TypeOK, Never
  <2>2. /\ copy \in Link /\ copy.client = desk[w].loaded.client
        /\ copy.expires = desk[w].loaded.expires
        /\ copy.revoked = IF desk[w].loaded.revoked = Never THEN t ELSE desk[w].loaded.revoked
    BY <2>1 DEF Revoked, Link
  <2>3. cut' = [cut EXCEPT ![g] = IF cut[g] = Never THEN now ELSE cut[g]]
    BY <1>5 DEF Cut
  <2>4. desk[w].loaded.revoked # Never => cut[g] # Never
    BY <2>1, CutsAgree
  <2>5. cut \in [Links -> (0..MaxTime) \cup {Never}]
    BY DEF TypeOK
  <2>6. cut[g] # Never => cut' = cut
    BY <2>1, <2>3, <2>5
  <2> HIDE DEF copy, g
  <2>7. \/ copy.revoked = desk[w].loaded.revoked /\ cut' = cut
        \/ /\ desk[w].loaded.revoked = Never /\ copy.revoked # Never
           /\ cut' = [cut EXCEPT ![g] = IF cut[g] = Never THEN now ELSE cut[g]]
    BY <2>1, <2>2, <2>3, <2>4, <2>6
  <2> QED  BY <2>2, <2>7 DEF copy, g
<1>6. ASSUME NEW t \in 0..now, CommitRevoke(w, t)
      PROVE  LinkInv' /\ Keeps
  <2> DEFINE copy == Revoked(desk[w].loaded, t)
  <2>1. desk[w].op \in Loading /\ Cut(desk[w].on)
    BY <1>6 DEF CommitRevoke, Loading
  <2>2. link' = [link EXCEPT ![desk[w].on] = Written(link[desk[w].on], desk[w].loaded, copy)]
    BY <1>6 DEF CommitRevoke
  <2>3. raced' \subseteq Links
    BY <1>6 DEF CommitRevoke, TypeOK
  <2>4. /\ copy \in Link /\ copy.client = desk[w].loaded.client
        /\ copy.expires = desk[w].loaded.expires
        /\ \/ copy.revoked = desk[w].loaded.revoked /\ cut' = cut
           \/ /\ desk[w].loaded.revoked = Never /\ copy.revoked # Never
              /\ cut' = [cut EXCEPT ![desk[w].on] = IF cut[desk[w].on] = Never THEN now ELSE cut[desk[w].on]]
    BY <1>5, <2>1
  <2> HIDE DEF copy
  <2> QED  BY <1>3, <1>6, <2>1, <2>2, <2>3, <2>4 DEF CommitRevoke, Leave
<1>7. ASSUME NEW t \in 0..now, NEW later \in t..now, NEW g \in Links, CommitRegenerate(w, g, t, later)
      PROVE  LinkInv' /\ Keeps
  <2> DEFINE copy  == Revoked(desk[w].loaded, t)
             old   == desk[w].on
             fresh == New(desk[w].loaded.client, later + DefaultExpiry)
             row   == Written(link[old], desk[w].loaded, copy)
  <2>1. /\ desk[w].op \in Loading /\ desk[w].loaded \in Link /\ Cut(old)
        /\ old \in Issued /\ old \in Links /\ link[old] \in Link
    BY <1>7, DeskType, IssuedLink DEF CommitRegenerate, Loading, LinkInv, CopiesKeepTrue
  <2>2. /\ copy \in Link /\ copy.client = desk[w].loaded.client
        /\ copy.expires = desk[w].loaded.expires
        /\ \/ copy.revoked = desk[w].loaded.revoked /\ cut' = cut
           \/ /\ desk[w].loaded.revoked = Never /\ copy.revoked # Never
              /\ cut' = [cut EXCEPT ![old] = IF cut[old] = Never THEN now ELSE cut[old]]
    BY <1>5, <2>1
  <2>3. /\ g \in Links \ Issued /\ link' = [link EXCEPT ![old] = row, ![g] = fresh]
        /\ desk' = [desk EXCEPT ![w] = Idle]
        /\ UNCHANGED <<sessions, now, limiter, redeemed, requests, raced>>
    BY <1>7 DEF CommitRegenerate, Leave
  <2>4. /\ now \in Nat /\ later \in Nat /\ later <= now
        /\ DefaultExpiry \in {MinExpiry, DefaultExpiry, MaxExpiry}
        /\ MaxExpiry \in {MinExpiry, DefaultExpiry, MaxExpiry}
    BY <1>7 DEF TypeOK
  <2>5. DefaultExpiry \in Nat \ {0} /\ MaxExpiry \in Nat \ {0} /\ DefaultExpiry <= MaxExpiry
    BY <2>4, ExpiryAssumption
  <2>6. fresh \in Link /\ fresh.expires \in 1..(now + MaxExpiry) /\ fresh.revoked = Never
    BY <2>1, <2>4, <2>5 DEF New, Link
  <2>7. row \in Link
    BY <2>1, <2>2, WrittenLink
  <2> HIDE DEF copy, fresh, row
  <2>8. old # g
    BY <2>1, <2>3
  <2>9. /\ link' \in [Links -> Link \cup {NoLink}]
        /\ \A h \in Links : link'[h] = IF h = g THEN fresh ELSE IF h = old THEN row ELSE link[h]
    BY <2>1, <2>3, <2>6, <2>7, <2>8 DEF TypeOK
  <2>10. /\ \A h \in Issued :
              link'[h] = IF h = desk[w].on THEN Written(link[h], desk[w].loaded, copy) ELSE link[h]
         /\ \A h \in Links \ Issued :
              link'[h] = NoLink \/ (link'[h].expires \in 1..(now + MaxExpiry) /\ link'[h].revoked = Never)
    BY <2>3, <2>6, <2>9, <2>1 DEF Issued, row
  <2>11. /\ sessions' \subseteq Links /\ redeemed' \in [Links -> Nat]
         /\ requests' \in Nat /\ raced' \subseteq Links
    BY <2>3 DEF TypeOK
  <2>12. Lands(w, copy)
    BY <2>2, <2>3, <2>9, <2>10, <2>11 DEF limiter, Lands
  <2> QED  BY <2>1, <2>12, CommitStep
<1> QED  BY <1>2, <1>4, <1>6, <1>7 DEF Management

\* A link is issued; no request that is in flight is about it.
LEMMA CreateStep ==
  ASSUME LinkInv, NEW a \in Staff, NEW g \in Links, NEW c \in Clients,
         NEW t \in 0..now, NEW e \in Expiries(t), Create(a, g, c, t, e)
  PROVE  LinkInv' /\ Keeps
<1> TypeOK
  BY DEF LinkInv
<1> DEFINE row == New(c, e)
<1>1. /\ g \in Links \ Issued /\ link' = [link EXCEPT ![g] = row]
      /\ UNCHANGED <<sessions, desk, now, limiter, redeemed, raced, cut>> /\ requests' \in Nat
  BY DEF Create, TypeOK
<1>2. e \in Nat /\ e \in 1..(now + MaxExpiry)
  BY ExpiryRange
<1>3. row \in Link /\ row.expires \in 1..(now + MaxExpiry) /\ row.revoked = Never
  BY <1>2 DEF New, Link
<1> HIDE DEF row
<1>4. TypeOK'
  BY <1>1, <1>3 DEF TypeOK, limiter
<1>5. \A h \in Links : link'[h] = IF h = g THEN row ELSE link[h]
  BY <1>1 DEF TypeOK
<1>6. /\ Issued \subseteq Issued' /\ Issued' \subseteq Issued \cup {g}
      /\ \A h \in Issued : link'[h] = link[h]
  BY <1>1, <1>5 DEF Issued
<1>7. NoIndefiniteLinks' /\ (\A h \in Issued : link[h].expires > 0)'
  BY <1>1, <1>3, <1>5, <1>6 DEF LinkInv, NoIndefiniteLinks, Issued
<1>8. CopiesKeepTrue'
  BY <1>1, <1>6 DEF LinkInv, CopiesKeepTrue
<1>9. VisitsPrecedeRevocation' /\ (\A w \in Workers : desk[w].op = "visit" => desk[w].on \in Issued)'
  BY <1>1, <1>6 DEF LinkInv, VisitsPrecedeRevocation
<1>10. Keeps
  BY <1>6 DEF Keeps
<1>11. \A h \in Links : link'[h].revoked = Never <=> cut'[h] = Never
  <2>1. link[g].revoked = Never
    BY <1>1 DEF Issued, NoLink
  <2> QED  BY <1>1, <1>3, <1>5, <2>1, CutsAgree
<1>12. \A w \in Workers : desk'[w] # Idle => desk'[w].at <= now'
  BY <1>1 DEF LinkInv
<1> QED  BY <1>4, <1>7, <1>8, <1>9, <1>10, <1>11, <1>12 DEF LinkInv

\* A request dies, a session runs out, time passes.
LEMMA OtherStep ==
  ASSUME LinkInv,
         \/ \E w \in Workers : Abort(w)
         \/ \E g \in Links : ExpireSession(g)
         \/ Tick
         \/ UNCHANGED vars
  PROVE  LinkInv' /\ Keeps
<1> TypeOK
  BY DEF LinkInv
<1>1. ASSUME NEW w \in Workers, Abort(w)
      PROVE  LinkInv' /\ Keeps
  BY <1>1, DeskStep DEF Abort, Leave, limiter, TypeOK
<1>2. CASE (\E g \in Links : ExpireSession(g)) \/ UNCHANGED vars
  <2>1. UNCHANGED <<link, desk, now, limiter, redeemed, requests, raced, cut>> /\ sessions' \subseteq Links
    BY <1>2 DEF ExpireSession, vars, limiter, TypeOK
  <2> QED  BY <2>1 DEF limiter, LinkInv, TypeOK, NoIndefiniteLinks, CopiesKeepTrue,
                       VisitsPrecedeRevocation, Issued, Keeps
<1>3. CASE Tick
  <2>1. /\ UNCHANGED <<link, sessions, desk, limiter, redeemed, requests, raced, cut>>
        /\ now' = now + 1 /\ now \in Nat /\ now' \in 0..MaxTime /\ Issued' = Issued
    BY <1>3, BoundAssumption DEF Tick, TypeOK, Issued
  <2>2. TypeOK'
    BY <2>1 DEF limiter, TypeOK
  <2>3. MaxExpiry \in Nat
    <3>1. MaxExpiry \in {MinExpiry, DefaultExpiry, MaxExpiry}
      OBVIOUS
    <3> QED  BY <3>1, ExpiryAssumption
  <2>4. NoIndefiniteLinks' /\ (\A h \in Issued : link[h].expires > 0)'
    BY <2>1, <2>3, IssuedLink DEF LinkInv, NoIndefiniteLinks, Link
  <2>5. CopiesKeepTrue' /\ VisitsPrecedeRevocation'
    BY <2>1 DEF LinkInv, CopiesKeepTrue, VisitsPrecedeRevocation
  <2>6. \A w \in Workers : desk[w] # Idle => desk[w].at <= now + 1
    <3> SUFFICES ASSUME NEW w \in Workers, desk[w] # Idle PROVE desk[w].at <= now + 1
      OBVIOUS
    <3>1. desk[w].at \in Nat
      BY DEF TypeOK, Request, Call, Visit
    <3> QED  BY <2>1, <3>1 DEF LinkInv
  <2> QED  BY <2>1, <2>2, <2>4, <2>5, <2>6 DEF LinkInv, Keeps
<1> QED  BY <1>1, <1>2, <1>3

-----------------------------------------------------------------------------
\* The theorems

\* At first no link is issued and no request is on its way.
LEMMA InitInv ==
  ASSUME Init
  PROVE  LinkInv
<1>1. Issued = {} /\ \A w \in Workers : desk[w] = Idle
  BY DEF Init, Issued
<1>2. TypeOK
  <2>1. 0 \in 0..MaxTime
    BY BoundAssumption
  <2> QED  BY <2>1 DEF Init, TypeOK, Counter
<1> QED  BY <1>1, <1>2 DEF Init, LinkInv, NoIndefiniteLinks, CopiesKeepTrue, VisitsPrecedeRevocation, Idle, NoLink

\* Every step leaves the invariant true and the issued links in place.
LEMMA NextInv ==
  ASSUME LinkInv, [Next]_vars
  PROVE  LinkInv' /\ Keeps
  BY PortalStep, ManagementStep, CreateStep, OtherStep DEF Next

\* Whatever requests meet on a link, in whatever order they load and commit:
\* no link is without end, and copies and visits stay true to their links.
THEOREM LinkInvariant == Spec => []LinkInv
<1>1. LinkInv /\ [Next]_vars => LinkInv'
  BY NextInv
<1> QED  BY InitInv, <1>1, PTL DEF Spec

\* No sequence of creating, extending and regenerating leaves a link that
\* lasts longer than MaxExpiry from now (_resolve_expiry).
THEOREM NoLinkIsIndefinite == Spec => []NoIndefiniteLinks
<1>1. LinkInv => NoIndefiniteLinks
  BY DEF LinkInv
<1> QED  BY <1>1, LinkInvariant, PTL

\* A request the portal still answers was let in before the revocation of its
\* link was committed, however long before revoked_at was stamped
\* (get_talent_external_scope, revoke_grant).
THEOREM RevocationCutsOff == Spec => []VisitsPrecedeRevocation
<1>1. LinkInv => VisitsPrecedeRevocation
  BY DEF LinkInv
<1> QED  BY <1>1, LinkInvariant, PTL

\* Once revoked, a link is not revived and does not change its client, whatever
\* extension, redemption or regeneration was in flight (extend_grant: "a
\* revoked grant can never be extended").
THEOREM RevocationIsForGood == Spec => RevokedForGood
<1>1. LinkInv /\ [Next]_vars =>
        [\A g \in Issued :
           /\ link'[g].client = link[g].client
           /\ link[g].revoked # Never => link'[g].revoked # Never]_vars
  BY NextInv DEF Keeps
<1> QED  BY <1>1, LinkInvariant, PTL DEF Spec, RevokedForGood

-----------------------------------------------------------------------------
\* Uses and expiries

\* What a copy may rest on: it counts no more uses than there were redemptions
\* since.
Held(d, counts) == d.op \in Loading => d.loaded.uses <= counts[d.on]

\* The uses of a link, of the copies of it and of links not issued yet.
CountInv ==
  /\ UsesAreRedemptions
  /\ \A g \in Links \ Issued : redeemed[g] = 0
  /\ \A w \in Workers : Held(desk[w], redeemed)

\* A step moves no expiry back but of links on which two extensions raced.
Forward == \A g \in Issued : g \in raced' \/ link'[g].expires >= link[g].expires

\* The use count follows the copy where the request changed it.
LEMMA WrittenUses ==
  ASSUME NEW row \in Link, NEW loaded, NEW copy
  PROVE  Written(row, loaded, copy).uses = IF copy.uses # loaded.uses THEN copy.uses ELSE row.uses
  BY DEF Written, Link

\* Nothing is held by an idle worker, nor by a visit.
LEMMA IdleHolds == ASSUME NEW counts PROVE Held(Idle, counts)
  BY DEF Held, Idle, Loading

\* A worker takes up a request or drops one.
LEMMA LoadCounts ==
  ASSUME LinkInv, CountInv, NEW w \in Workers, NEW d, desk' = [desk EXCEPT ![w] = d],
         UNCHANGED <<link, redeemed>>, Held(d, redeemed)
  PROVE  CountInv' /\ Forward
<1>1. \A v \in Workers : desk'[v] = IF v = w THEN d ELSE desk[v]
  BY DEF LinkInv, TypeOK
<1>2. Issued' = Issued
  BY DEF Issued
<1>3. \A v \in Workers : Held(desk'[v], redeemed)
  BY <1>1 DEF CountInv
<1>4. CountInv'
  BY <1>2, <1>3 DEF CountInv, UsesAreRedemptions
<1>5. Forward
  BY IssuedLink DEF Forward, LinkInv, Link
<1> QED  BY <1>4, <1>5

\* A worker commits its copy: with one more use and one more redemption, or
\* with neither; perhaps an unused link is issued with it.
LEMMA CommitCounts ==
  ASSUME LinkInv, CountInv, NEW w \in Workers, desk[w].op \in Loading, NEW copy \in Link,
         desk' = [desk EXCEPT ![w] = Idle],
         \A h \in Issued :
           link'[h] = IF h = desk[w].on THEN Written(link[h], desk[w].loaded, copy) ELSE link[h],
         \A h \in Links \ Issued : link'[h] = NoLink \/ link'[h].uses = 0,
         \/ redeemed' = redeemed /\ copy.uses = desk[w].loaded.uses
         \/ /\ redeemed' = [redeemed EXCEPT ![desk[w].on] = redeemed[desk[w].on] + 1]
            /\ copy.uses = desk[w].loaded.uses + 1,
         \/ copy.expires = desk[w].loaded.expires
         \/ /\ copy.expires > desk[w].loaded.expires
            /\ desk[w].on \in raced' \/ link[desk[w].on].expires = desk[w].loaded.expires
  PROVE  CountInv' /\ Forward
<1> DEFINE d == desk[w]
           g == desk[w].on
           row == Written(link[g], d.loaded, copy)
<1>1. g \in Issued /\ g \in Links /\ link[g] \in Link /\ d.loaded \in Link
  BY DeskType, IssuedLink DEF LinkInv, CopiesKeepTrue, Loading
<1>2. /\ row \in Link
      /\ row.uses = IF copy.uses # d.loaded.uses THEN copy.uses ELSE link[g].uses
      /\ row.expires = IF copy.expires # d.loaded.expires THEN copy.expires ELSE link[g].expires
  BY <1>1, WrittenLink, WrittenUses
<1>3. d.loaded.uses <= redeemed[g] /\ redeemed \in [Links -> Nat]
  BY DEF CountInv, Held, LinkInv, TypeOK
<1>4. /\ link[g].uses <= redeemed[g] /\ (redeemed[g] > 0 => link[g].uses > 0)
      /\ link[g].uses \in Nat /\ link[g].expires \in Nat /\ d.loaded.uses \in Nat /\ d.loaded.expires \in Nat
      /\ redeemed[g] \in Nat /\ link[g].expires > 0
  BY <1>1, <1>3 DEF CountInv, UsesAreRedemptions, Link, LinkInv
<1>5. \A h \in Links : redeemed'[h] \in Nat /\ redeemed[h] <= redeemed'[h] /\ (h # g => redeemed'[h] = redeemed[h])
  BY <1>1, <1>3
<1>6. row.uses <= redeemed'[g] /\ (redeemed'[g] > 0 => row.uses > 0)
  <2>1. CASE redeemed' = redeemed /\ copy.uses = d.loaded.uses
    BY <1>2, <1>4, <2>1
  <2>2. CASE redeemed' = [redeemed EXCEPT ![g] = redeemed[g] + 1] /\ copy.uses = d.loaded.uses + 1
    <3>1. redeemed'[g] = redeemed[g] + 1
      BY <1>1, <1>3, <2>2
    <3>2. row.uses = d.loaded.uses + 1
      BY <1>2, <1>4, <2>2
    <3> QED  BY <1>3, <1>4, <3>1, <3>2
  <2> QED  BY <2>1, <2>2
<1>7. \A h \in Issued : h \in Links /\ link[h] \in Link /\ link'[h] = IF h = g THEN row ELSE link[h]
  BY <1>1, IssuedLink DEF LinkInv
<1>8. \A v \in Workers : desk'[v] = IF v = w THEN Idle ELSE desk[v]
  BY DEF LinkInv, TypeOK
<1> HIDE DEF d, row
<1>9. UsesAreRedemptions'
  <2> SUFFICES ASSUME NEW h \in Issued'
               PROVE  link'[h].uses <= redeemed'[h] /\ (redeemed'[h] > 0 => link'[h].uses > 0)
    BY DEF UsesAreRedemptions
  <2>1. h \in Links /\ link'[h] # NoLink
    BY DEF Issued
  <2>2. CASE h \in Issued
    BY <1>5, <1>6, <1>7, <2>2 DEF CountInv, UsesAreRedemptions
  <2>3. CASE h \notin Issued
    <3>1. link'[h].uses = 0 /\ redeemed'[h] = 0
      BY <1>1, <1>5, <2>1, <2>3 DEF CountInv
    <3> QED  BY <3>1
  <2> QED  BY <2>2, <2>3
<1>10. \A h \in Links \ Issued' : redeemed'[h] = 0
  <2> SUFFICES ASSUME NEW h \in Links, h \notin Issued' PROVE redeemed'[h] = 0
    OBVIOUS
  <2>1. link'[h] = NoLink
    BY DEF Issued
  <2>2. h \notin Issued
    <3>1. row.expires > 0
      BY <1>2, <1>4 DEF d, Link
    <3> QED  BY <1>7, <2>1, <3>1 DEF Issued, NoLink
  <2> QED  BY <1>1, <1>5, <2>2 DEF CountInv
<1>11. \A v \in Workers : Held(desk'[v], redeemed')
  <2> SUFFICES ASSUME NEW v \in Workers PROVE Held(desk'[v], redeemed')
    OBVIOUS
  <2>1. CASE v = w
    BY <1>8, <2>1, IdleHolds
  <2>2. CASE v # w
    <3>1. Held(desk[v], redeemed) /\ desk'[v] = desk[v]
      BY <1>8, <2>2 DEF CountInv
    <3>2. ASSUME desk[v].op \in Loading
          PROVE  desk[v].loaded.uses <= redeemed'[desk[v].on]
      <4>1. desk[v].on \in Links /\ desk[v].loaded \in Link
        BY <3>2, DeskType DEF LinkInv
      <4>2. desk[v].loaded.uses \in Nat /\ desk[v].loaded.uses <= redeemed[desk[v].on]
        BY <3>1, <3>2, <4>1 DEF Held, Link
      <4>3. redeemed[desk[v].on] \in Nat
        BY <1>3, <4>1
      <4> QED  BY <1>5, <4>1, <4>2, <4>3
    <3> QED  BY <3>1, <3>2 DEF Held
  <2> QED  BY <2>1, <2>2
<1>12. Forward
  <2> SUFFICES ASSUME NEW h \in Issued PROVE h \in raced' \/ link'[h].expires >= link[h].expires
    BY DEF Forward
  <2>1. CASE h # g
    BY <1>7, <2>1 DEF Link
  <2>2. CASE h = g
    BY <1>2, <1>4, <1>7, <2>2 DEF d, Link
  <2> QED  BY <2>1, <2>2
<1> QED  BY <1>9, <1>10, <1>11, <1>12 DEF CountInv

\* The portal: a redemption counts one use on its copy.
LEMMA PortalCounts ==
  ASSUME LinkInv, CountInv, NEW w \in Workers, Portal(w)
  PROVE  CountInv' /\ Forward
<1>0. ASSUME NEW s \in Sources, Arrive(w, s)
      PROVE  CountInv' /\ Forward
  <2> DEFINE d == [op |-> "attempt", from |-> s, at |-> now]
  <2>1. Held(d, redeemed)
    BY DEF Held, Loading
  <2>2. desk' = [desk EXCEPT ![w] = d] /\ UNCHANGED <<link, redeemed>>
    BY <1>0 DEF Arrive, Take
  <2> HIDE DEF d
  <2> QED  BY <2>1, <2>2, LoadCounts
<1>1. ASSUME NEW g \in Links, Redeem(w, g)
      PROVE  CountInv' /\ Forward
  <2> DEFINE d == [op |-> "redeem", on |-> g, loaded |-> link[g], at |-> now]
  <2>1. PICK allowed \in BOOLEAN : IF allowed /\ g \in Live THEN Take(w, d) ELSE Leave(w)
    BY <1>1 DEF Redeem
  <2>2. UNCHANGED <<link, redeemed>>
    BY <1>1 DEF Redeem
  <2>3. CASE allowed /\ g \in Live
    <3>1. Held(d, redeemed)
      BY <2>3 DEF Live, CountInv, UsesAreRedemptions, Held
    <3>2. desk' = [desk EXCEPT ![w] = d]
      BY <2>1, <2>3 DEF Take
    <3> HIDE DEF d
    <3> QED  BY <2>2, <3>1, <3>2, LoadCounts
  <2>4. CASE ~(allowed /\ g \in Live)
    <3>1. desk' = [desk EXCEPT ![w] = Idle]
      BY <2>1, <2>4 DEF Leave
    <3> QED  BY <2>2, <3>1, IdleHolds, LoadCounts
  <2> QED  BY <2>3, <2>4
<1>2. ASSUME CommitRedeem(w)
      PROVE  CountInv' /\ Forward
  <2> DEFINE copy == Counted(desk[w].loaded)
  <2>1. desk[w].op \in Loading /\ desk[w].loaded \in Link
    BY <1>2, DeskType DEF CommitRedeem, Loading, LinkInv
  <2>2. copy \in Link /\ copy.uses = desk[w].loaded.uses + 1 /\ copy.expires = desk[w].loaded.expires
    BY <2>1 DEF Counted, Link
  <2> HIDE DEF copy
  <2>3. /\ link' = [link EXCEPT ![desk[w].on] = Written(link[desk[w].on], desk[w].loaded, copy)]
        /\ redeemed' = [redeemed EXCEPT ![desk[w].on] = redeemed[desk[w].on] + 1]
        /\ desk' = [desk EXCEPT ![w] = Idle]
    BY <1>2 DEF CommitRedeem, Leave, copy
  <2>4. /\ \A h \in Issued :
             link'[h] = IF h = desk[w].on THEN Written(link[h], desk[w].loaded, copy) ELSE link[h]
        /\ \A h \in Links \ Issued : link'[h] = NoLink
    BY <2>1, <2>2, <2>3, OneLink
  <2> QED  BY <2>1, <2>2, <2>3, <2>4, CommitCounts
<1>3. ASSUME NEW g \in Links, Visits(w, g)
      PROVE  CountInv' /\ Forward
  <2> DEFINE d == [op |-> "visit", on |-> g, client |-> link[g].client, at |-> now]
  <2>1. Held(d, redeemed)
    BY DEF Held, Loading
  <2>2. desk' = [desk EXCEPT ![w] = d] /\ UNCHANGED <<link, redeemed>>
    BY <1>3 DEF Visits, Take
  <2> HIDE DEF d
  <2> QED  BY <2>1, <2>2, LoadCounts
<1>4. ASSUME Answer(w)
      PROVE  CountInv' /\ Forward
  BY <1>4, IdleHolds, LoadCounts DEF Answer, Leave
<1> QED  BY <1>0, <1>1, <1>2, <1>3, <1>4 DEF Portal

\* Staff: an extension asks for a later expiry, nothing else writes one.
LEMMA ManagementCounts ==
  ASSUME LinkInv, CountInv, NEW w \in Workers, Management(w)
  PROVE  CountInv' /\ Forward
<1>1. ASSUME NEW a \in Staff, NEW g \in Links, NEW op \in Loading, Handle(w, a, g, op)
      PROVE  CountInv' /\ Forward
  <2> DEFINE d == [op |-> op, on |-> g, loaded |-> link[g], at |-> now]
  <2>1. g \in Issued /\ desk' = [desk EXCEPT ![w] = d] /\ UNCHANGED <<link, redeemed>>
    BY <1>1 DEF Handle, Take
  <2>2. Held(d, redeemed)
    BY <2>1 DEF CountInv, UsesAreRedemptions, Held
  <2> HIDE DEF d
  <2> QED  BY <2>1, <2>2, LoadCounts
<1>2. ASSUME NEW a \in Staff, NEW g \in Links,
             Extend(w, a, g) \/ Handle(w, a, g, "revoke") \/ Handle(w, a, g, "regenerate")
      PROVE  CountInv' /\ Forward
  <2>1. "extend" \in Loading /\ "revoke" \in Loading /\ "regenerate" \in Loading
    BY DEF Loading
  <2> QED  BY <1>1, <1>2, <2>1 DEF Extend
<1>3. ASSUME NEW t \in 0..now, NEW to \in Expiries(t), CommitExtend(w, t, to)
      PROVE  CountInv' /\ Forward
  <2> DEFINE copy == [desk[w].loaded EXCEPT !.expires = to]
  <2>1. desk[w].op \in Loading /\ to \in Extensions(desk[w].loaded, t)
    BY <1>3 DEF CommitExtend, Loading
  <2>2. desk[w].loaded \in Link /\ to \in Nat /\ to > desk[w].loaded.expires
    BY <2>1, DeskType, ExpiryRange DEF LinkInv, Extensions
  <2>3. copy \in Link /\ copy.uses = desk[w].loaded.uses /\ copy.expires > desk[w].loaded.expires
    BY <2>2 DEF Link
  <2>4. /\ link' = [link EXCEPT ![desk[w].on] = Written(link[desk[w].on], desk[w].loaded, copy)]
        /\ desk' = [desk EXCEPT ![w] = Idle] /\ redeemed' = redeemed
        /\ link[desk[w].on].expires = desk[w].loaded.expires \/ desk[w].on \in raced'
    BY <1>3 DEF CommitExtend, Leave
  <2> HIDE DEF copy
  <2>5. /\ \A h \in Issued :
             link'[h] = IF h = desk[w].on THEN Written(link[h], desk[w].loaded, copy) ELSE link[h]
        /\ \A h \in Links \ Issued : link'[h] = NoLink
    BY <2>1, <2>3, <2>4, OneLink
  <2> QED  BY <2>1, <2>3, <2>4, <2>5, CommitCounts
<1>4. ASSUME desk[w].op \in Loading, NEW t \in 0..now
      PROVE  LET copy == Revoked(desk[w].loaded, t) IN
             /\ desk[w].loaded \in Link /\ copy \in Link
             /\ copy.uses = desk[w].loaded.uses /\ copy.expires = desk[w].loaded.expires
  <2>1. desk[w].loaded \in Link /\ t \in Nat
    BY <1>4, DeskType DEF LinkInv, TypeOK
  <2> QED  BY <2>1 DEF Revoked, Link
<1>5. ASSUME NEW t \in 0..now, CommitRevoke(w, t)
      PROVE  CountInv' /\ Forward
  <2> DEFINE copy == Revoked(desk[w].loaded, t)
  <2>1. /\ desk[w].op \in Loading /\ desk' = [desk EXCEPT ![w] = Idle] /\ redeemed' = redeemed
        /\ link' = [link EXCEPT ![desk[w].on] = Written(link[desk[w].on], desk[w].loaded, copy)]
    BY <1>5 DEF CommitRevoke, Loading, Leave
  <2>2. copy \in Link /\ copy.uses = desk[w].loaded.uses /\ copy.expires = desk[w].loaded.expires
    BY <1>4, <2>1
  <2> HIDE DEF copy
  <2>3. /\ \A h \in Issued :
             link'[h] = IF h = desk[w].on THEN Written(link[h], desk[w].loaded, copy) ELSE link[h]
        /\ \A h \in Links \ Issued : link'[h] = NoLink
    BY <2>1, <2>2, OneLink
  <2> QED  BY <2>1, <2>2, <2>3, CommitCounts
<1>6. ASSUME NEW t \in 0..now, NEW later \in t..now, NEW g \in Links, CommitRegenerate(w, g, t, later)
      PROVE  CountInv' /\ Forward
  <2> DEFINE copy == Revoked(desk[w].loaded, t)
             old == desk[w].on
             row == Written(link[old], desk[w].loaded, copy)
             fresh == New(desk[w].loaded.client, later + DefaultExpiry)
  <2>1. /\ desk[w].op \in Loading /\ desk' = [desk EXCEPT ![w] = Idle] /\ redeemed' = redeemed
        /\ g \in Links \ Issued /\ link' = [link EXCEPT ![old] = row, ![g] = fresh]
    BY <1>6 DEF CommitRegenerate, Loading, Leave
  <2>2. copy \in Link /\ copy.uses = desk[w].loaded.uses /\ copy.expires = desk[w].loaded.expires
    BY <1>4, <2>1
  <2>3. old \in Issued /\ old \in Links
    BY <2>1, DeskType DEF LinkInv, CopiesKeepTrue, Loading
  <2>4. fresh.uses = 0
    BY DEF New
  <2> HIDE DEF copy, fresh, row
  <2>5. \A h \in Links : link'[h] = IF h = g THEN fresh ELSE IF h = old THEN row ELSE link[h]
    BY <2>1, <2>3 DEF LinkInv, TypeOK
  <2>6. /\ \A h \in Issued :
             link'[h] = IF h = desk[w].on THEN Written(link[h], desk[w].loaded, copy) ELSE link[h]
        /\ \A h \in Links \ Issued : link'[h] = NoLink \/ link'[h].uses = 0
    BY <2>1, <2>3, <2>4, <2>5 DEF Issued, row
  <2> QED  BY <2>1, <2>2, <2>6, CommitCounts
<1> QED  BY <1>2, <1>3, <1>5, <1>6 DEF Management

\* Links are issued unused; requests die and time passes.
LEMMA OtherCounts ==
  ASSUME LinkInv, CountInv,
         \/ \E a \in Staff, g \in Links, c \in Clients, t \in 0..now :
              \E e \in Expiries(t) : Create(a, g, c, t, e)
         \/ \E w \in Workers : Abort(w)
         \/ \E g \in Links : ExpireSession(g)
         \/ Tick
         \/ UNCHANGED vars
  PROVE  CountInv' /\ Forward
<1>1. ASSUME NEW a \in Staff, NEW g \in Links, NEW c \in Clients,
             NEW t \in 0..now, NEW e \in Expiries(t), Create(a, g, c, t, e)
      PROVE  CountInv' /\ Forward
  <2> DEFINE row == New(c, e)
  <2>1. g \in Links \ Issued /\ link' = [link EXCEPT ![g] = row] /\ UNCHANGED <<desk, redeemed>>
    BY <1>1 DEF Create
  <2>2. row.uses = 0 /\ redeemed[g] = 0
    BY <2>1 DEF New, CountInv
  <2> HIDE DEF row
  <2>3. \A h \in Links : link'[h] = IF h = g THEN row ELSE link[h]
    BY <2>1 DEF LinkInv, TypeOK
  <2>4. Issued \subseteq Issued' /\ Issued' \subseteq Issued \cup {g}
    BY <2>1, <2>3 DEF Issued
  <2>5. UsesAreRedemptions'
    BY <2>1, <2>2, <2>3, <2>4 DEF CountInv, UsesAreRedemptions, Issued
  <2>6. CountInv'
    BY <2>1, <2>4, <2>5 DEF CountInv
  <2>7. Forward
    BY <2>1, <2>3, IssuedLink DEF Forward, LinkInv, Link
  <2> QED  BY <2>6, <2>7
<1>2. ASSUME NEW w \in Workers, Abort(w)
      PROVE  CountInv' /\ Forward
  BY <1>2, IdleHolds, LoadCounts DEF Abort, Leave
<1>3. CASE (\E g \in Links : ExpireSession(g)) \/ Tick \/ UNCHANGED vars
  <2>1. UNCHANGED <<link, desk, redeemed>>
    BY <1>3 DEF ExpireSession, Tick, vars
  <2>2. CountInv'
    BY <2>1 DEF CountInv, UsesAreRedemptions, Issued
  <2>3. Forward
    BY <2>1, IssuedLink DEF Forward, LinkInv, Link
  <2> QED  BY <2>2, <2>3
<1> QED  BY <1>1, <1>2, <1>3

\* At first no link was redeemed and nothing is held.
LEMMA InitCounts == ASSUME Init PROVE CountInv
<1>1. Issued = {} /\ \A w \in Workers : desk[w] = Idle
  BY DEF Init, Issued
<1> QED  BY <1>1, IdleHolds DEF Init, CountInv, UsesAreRedemptions

\* Every step keeps the counts and moves no expiry back.
LEMMA NextCounts ==
  ASSUME LinkInv, CountInv, [Next]_vars
  PROVE  CountInv' /\ Forward
  BY PortalCounts, ManagementCounts, OtherCounts DEF Next

\* The counts hold in every state.
LEMMA CountInvariant == Spec => []CountInv
<1>1. LinkInv /\ CountInv /\ [Next]_vars => CountInv'
  BY NextCounts
<1> QED  BY InitCounts, LinkInvariant, <1>1, PTL DEF Spec

\* However redemptions meet extensions and each other on a link, its use count
\* never exceeds its redemptions and is not zero once it was redeemed
\* (redeem_access_link).
THEOREM UsesCountRedemptions == Spec => []UsesAreRedemptions
<1>1. CountInv => UsesAreRedemptions
  BY DEF CountInv
<1> QED  BY <1>1, CountInvariant, PTL

\* Unless two extensions raced on it, no step moves the expiry of a link back
\* (extend_grant: "Revoke is the only way to shorten/cut access").
THEOREM ExpiryNeverMovesBack == Spec => ExpiryMovesForward
<1>1. LinkInv /\ CountInv /\ [Next]_vars =>
        [\A g \in Issued : g \in raced' \/ link'[g].expires >= link[g].expires]_vars
  BY NextCounts DEF Forward
<1> QED  BY <1>1, LinkInvariant, CountInvariant, PTL DEF Spec, ExpiryMovesForward

-----------------------------------------------------------------------------
\* Sums

\* Among finite sets there is one with no smaller one inside.
LEMMA SmallestSet ==
  ASSUME NEW S, IsFiniteSet(S), NEW Bad \in SUBSET SUBSET S, Bad # {}
  PROVE  \E T \in Bad : \A U \in Bad : U \subseteq T => U = T
<1>1. IsWellFoundedOn(StrictSubsetOrdering(S), FiniteSubsetsOf(S))
  BY FS_StrictSubsetOrderingWellFounded
<1>2. \A T \in SUBSET S : IsFiniteSet(T)
  BY FS_Subset
<1>3. Bad \subseteq FiniteSubsetsOf(S)
  BY <1>2 DEF FiniteSubsetsOf
<1>4. PICK T \in Bad : \A U \in Bad : <<U, T>> \notin StrictSubsetOrdering(S)
  BY <1>1, <1>3, WFMin
<1>5. \A U \in Bad : U \subseteq T /\ U # T => <<U, T>> \in StrictSubsetOrdering(S)
  <2> SUFFICES ASSUME NEW U \in Bad, U \subseteq T, U # T
               PROVE  <<U, T>> \in StrictSubsetOrdering(S)
    OBVIOUS
  <2>1. <<U, T>> \in (SUBSET S) \X (SUBSET S)
    OBVIOUS
  <2> QED  BY <2>1 DEF StrictSubsetOrdering
<1>6. \A U \in Bad : ~(U \subseteq T /\ U # T)
  BY <1>4, <1>5
<1> QED  BY <1>6

\* The element MapThenSumSet takes first.
First(S) == CHOOSE x \in S : TRUE

\* What its recursive definition means.
IsSum(g, f, S) ==
  g = [T \in SUBSET S |-> IF T = {} THEN 0 ELSE f[First(T)] + g[T \ {First(T)}]]

\* The sum of a function over a set.
Total(f, S) == MapThenSumSet(LAMBDA x : f[x], S)

\* A set that is not empty has a first element.
LEMMA FirstInside ==
  ASSUME NEW S, S # {}
  PROVE  First(S) \in S
BY DEF First

\* The sum is what that recursive definition gives for the whole set.
LEMMA TotalUnfolds ==
  ASSUME NEW f, NEW S
  PROVE  Total(f, S) = (CHOOSE g : IsSum(g, f, S))[S]
BY DEF Total, MapThenSumSet, MapThenFoldSet, First, IsSum

\* The equation, set by set.
LEMMA SumEquation ==
  ASSUME NEW g, NEW f, NEW S, IsSum(g, f, S), NEW T, T \subseteq S
  PROVE  g[T] = IF T = {} THEN 0 ELSE f[First(T)] + g[T \ {First(T)}]
<1> DEFINE body == [U \in SUBSET S |-> IF U = {} THEN 0 ELSE f[First(U)] + g[U \ {First(U)}]]
<1>1. g = body
  BY DEF IsSum
<1>2. T \in SUBSET S
  OBVIOUS
<1>3. body[T] = IF T = {} THEN 0 ELSE f[First(T)] + g[T \ {First(T)}]
  BY <1>2
<1> HIDE DEF body
<1> QED  BY <1>1, <1>3

\* It determines the sum.
LEMMA SumsAgree ==
  ASSUME NEW f, NEW S, IsFiniteSet(S), NEW R, S \subseteq R,
         NEW g, IsSum(g, f, R), NEW h, IsSum(h, f, S)
  PROVE  g[S] = h[S]
<1> DEFINE Bad == {T \in SUBSET S : g[T] # h[T]}
<1> SUFFICES ASSUME Bad # {} PROVE FALSE
  OBVIOUS
<1>a. Bad \in SUBSET SUBSET S
  OBVIOUS
<1>1. PICK T \in Bad : \A U \in Bad : U \subseteq T => U = T
  <2> HIDE DEF Bad
  <2> QED  BY <1>a, SmallestSet
<1>2. /\ g[T] = IF T = {} THEN 0 ELSE f[First(T)] + g[T \ {First(T)}]
      /\ h[T] = IF T = {} THEN 0 ELSE f[First(T)] + h[T \ {First(T)}]
  BY SumEquation
<1>3. T # {} => T \ {First(T)} \notin Bad
  BY <1>1, FirstInside
<1> QED  BY <1>2, <1>3

\* A finite set has a sum.
LEMMA SumExists ==
  ASSUME NEW f, NEW S, IsFiniteSet(S)
  PROVE  \E g : IsSum(g, f, S)
<1> DEFINE Bad == {T \in SUBSET S : ~\E g : IsSum(g, f, T)}
<1> SUFFICES ASSUME Bad # {} PROVE FALSE
  OBVIOUS
<1>a. Bad \in SUBSET SUBSET S
  OBVIOUS
<1>1. PICK T \in Bad : \A U \in Bad : U \subseteq T => U = T
  <2> HIDE DEF Bad
  <2> QED  BY <1>a, SmallestSet
<1> DEFINE Of(U) == CHOOSE g : IsSum(g, f, U)
           Rest(U) == U \ {First(U)}
           sum == [U \in SUBSET T |-> IF U = {} THEN 0 ELSE f[First(U)] + Of(Rest(U))[Rest(U)]]
<1>2. ASSUME NEW U, U \subseteq T, U # T
      PROVE  IsSum(Of(U), f, U)
  <2>1. U \notin Bad /\ U \in SUBSET S
    BY <1>1, <1>2
  <2>2. \E g : IsSum(g, f, U)
    BY <2>1
  <2> QED  BY <2>2
<1> HIDE DEF Of
<1>3. ASSUME NEW U, U \subseteq T, U # {}
      PROVE  Rest(U) \subseteq T /\ Rest(U) # T /\ Rest(U) \subseteq U
  BY <1>3, FirstInside
<1>4. ASSUME NEW U, U \subseteq T, U # T
      PROVE  sum[U] = Of(U)[U]
  <2>1. IsSum(Of(U), f, U)
    BY <1>2, <1>4
  <2>2. Of(U)[U] = IF U = {} THEN 0 ELSE f[First(U)] + Of(U)[Rest(U)]
    BY <2>1, SumEquation
  <2>3. CASE U = {}
    BY <2>2, <2>3
  <2>4. CASE U # {}
    <3>1. Rest(U) \subseteq T /\ Rest(U) # T /\ Rest(U) \subseteq U
      BY <1>3, <1>4, <2>4
    <3>2. IsSum(Of(Rest(U)), f, Rest(U)) /\ IsFiniteSet(Rest(U))
      BY <1>1, <1>2, <3>1, FS_Subset
    <3>3. Of(U)[Rest(U)] = Of(Rest(U))[Rest(U)]
      BY <2>1, <3>1, <3>2, SumsAgree
    <3>4. sum[U] = f[First(U)] + Of(Rest(U))[Rest(U)]
      BY <1>4, <2>4
    <3> QED  BY <2>2, <2>4, <3>3, <3>4
  <2> QED  BY <2>3, <2>4
<1>5. \A U \in SUBSET T : sum[U] = IF U = {} THEN 0 ELSE f[First(U)] + sum[Rest(U)]
  <2> SUFFICES ASSUME NEW U, U \subseteq T, U # {}
               PROVE  sum[U] = f[First(U)] + sum[Rest(U)]
    OBVIOUS
  <2>1. sum[Rest(U)] = Of(Rest(U))[Rest(U)]
    BY <1>3, <1>4
  <2> QED  BY <2>1
<1>6. sum = [U \in SUBSET T |-> sum[U]]
  OBVIOUS
<1> HIDE DEF sum
<1>7. sum = [U \in SUBSET T |-> IF U = {} THEN 0 ELSE f[First(U)] + sum[Rest(U)]]
  BY <1>5, <1>6
<1>8. IsSum(sum, f, T)
  BY <1>7 DEF IsSum
<1> QED  BY <1>1, <1>8

\* The sum, element by element in the order it is taken ...
LEMMA TotalFirst ==
  ASSUME NEW f, NEW S, IsFiniteSet(S)
  PROVE  /\ S = {} => Total(f, S) = 0
         /\ S # {} => Total(f, S) = f[First(S)] + Total(f, S \ {First(S)})
<1> DEFINE Of(U) == CHOOSE g : IsSum(g, f, U)
           rest == S \ {First(S)}
<1>1. \A U : Total(f, U) = Of(U)[U]
  BY TotalUnfolds
<1>2. IsFiniteSet(rest) /\ rest \subseteq S
  BY FS_Subset
<1>3. IsSum(Of(S), f, S) /\ IsSum(Of(rest), f, rest)
  BY <1>2, SumExists
<1> HIDE DEF Of
<1>4. Of(S)[S] = IF S = {} THEN 0 ELSE f[First(S)] + Of(S)[rest]
  BY <1>3, SumEquation
<1>5. Of(S)[rest] = Of(rest)[rest]
  BY <1>2, <1>3, SumsAgree
<1> QED  BY <1>1, <1>4, <1>5

\* ... it is nothing over no element ...
LEMMA TotalEmpty ==
  ASSUME NEW f, NEW S, S = {}
  PROVE  Total(f, S) = 0
<1>1. IsFiniteSet(S)
  BY FS_EmptySet
<1> QED  BY <1>1, TotalFirst

\* A function that counts something for every element of a set.
Counts(f, S) == \A x \in S : f[x] \in Nat

\* ... which leaves a number ...
LEMMA TotalType ==
  ASSUME NEW S, IsFiniteSet(S), NEW f, Counts(f, S)
  PROVE  Total(f, S) \in Nat
<1> DEFINE Bad == {T \in SUBSET S : Total(f, T) \notin Nat}
<1> SUFFICES ASSUME Bad # {} PROVE FALSE
  OBVIOUS
<1>a. Bad \in SUBSET SUBSET S
  OBVIOUS
<1>1. PICK T \in Bad : \A U \in Bad : U \subseteq T => U = T
  <2> HIDE DEF Bad
  <2> QED  BY <1>a, SmallestSet
<1>2. IsFiniteSet(T)
  BY <1>1, FS_Subset
<1>3. T # {}
  <2>1. T = {} => Total(f, T) \in Nat
    BY TotalEmpty
  <2> QED  BY <1>1, <2>1
<1>4. First(T) \in T /\ T \ {First(T)} \notin Bad /\ T \ {First(T)} \in SUBSET S
  BY <1>1, <1>3, FirstInside
<1>5. Total(f, T \ {First(T)}) \in Nat /\ f[First(T)] \in Nat
  BY <1>1, <1>4 DEF Counts
<1>6. Total(f, T) = f[First(T)] + Total(f, T \ {First(T)})
  BY <1>2, <1>3, TotalFirst
<1>7. Total(f, T) \in Nat
  BY <1>5, <1>6
<1> QED  BY <1>1, <1>7

\* ... and in any order.
LEMMA TotalRemove ==
  ASSUME NEW S, IsFiniteSet(S), NEW f, Counts(f, S), NEW x \in S
  PROVE  Total(f, S) = f[x] + Total(f, S \ {x})
<1> DEFINE Bad == {T \in SUBSET S : \E y \in T : Total(f, T) # f[y] + Total(f, T \ {y})}
<1> SUFFICES ASSUME Bad # {} PROVE FALSE
  OBVIOUS
<1>a. Bad \in SUBSET SUBSET S
  OBVIOUS
<1>1. PICK T \in Bad : \A U \in Bad : U \subseteq T => U = T
  <2> HIDE DEF Bad
  <2> QED  BY <1>a, SmallestSet
<1>2. PICK y \in T : Total(f, T) # f[y] + Total(f, T \ {y})
  BY <1>1
<1> DEFINE z == First(T)
<1>3. IsFiniteSet(T) /\ z \in T /\ T \in SUBSET S /\ Total(f, T) = f[z] + Total(f, T \ {z})
  BY <1>1, <1>2, FS_Subset, FirstInside, TotalFirst
<1> HIDE DEF z
<1>4. y # z
  BY <1>2, <1>3
<1>5. /\ T \ {z} \notin Bad /\ T \ {z} \in SUBSET S /\ y \in T \ {z}
      /\ T \ {y} \notin Bad /\ T \ {y} \in SUBSET S /\ z \in T \ {y}
  BY <1>1, <1>2, <1>3, <1>4
<1>6. /\ Total(f, T \ {z}) = f[y] + Total(f, (T \ {z}) \ {y})
      /\ Total(f, T \ {y}) = f[z] + Total(f, (T \ {y}) \ {z})
  BY <1>5
<1>7. (T \ {z}) \ {y} = (T \ {y}) \ {z} /\ (T \ {z}) \ {y} \in SUBSET S
  BY <1>5
<1>8. Total(f, (T \ {z}) \ {y}) \in Nat
  <2>1. IsFiniteSet((T \ {z}) \ {y})
    BY <1>7, FS_Subset
  <2>2. Counts(f, (T \ {z}) \ {y})
    BY <1>7 DEF Counts
  <2> QED  BY <2>1, <2>2, TotalType
<1>9. f[y] \in Nat /\ f[z] \in Nat
  BY <1>2, <1>3 DEF Counts
<1>10. Total(f, T) = f[z] + (f[y] + Total(f, (T \ {z}) \ {y}))
  BY <1>3, <1>6
<1>11. Total(f, T \ {y}) = f[z] + Total(f, (T \ {z}) \ {y})
  BY <1>6, <1>7
<1> HIDE DEF Bad
<1>12. Total(f, T) = f[y] + Total(f, T \ {y})
  BY <1>8, <1>9, <1>10, <1>11
<1> QED  BY <1>2, <1>12

\* Where one function never exceeds the sum of two others, neither does its sum.
LEMMA TotalBelow ==
  ASSUME NEW S, IsFiniteSet(S), NEW f, Counts(f, S), NEW g, Counts(g, S), NEW h, Counts(h, S),
         \A x \in S : h[x] <= f[x] + g[x]
  PROVE  Total(h, S) <= Total(f, S) + Total(g, S)
<1> DEFINE Bad == {T \in SUBSET S : ~(Total(h, T) <= Total(f, T) + Total(g, T))}
<1> SUFFICES ASSUME Bad # {} PROVE FALSE
  <2>1. S \in SUBSET S
    OBVIOUS
  <2> QED  BY <2>1
<1>a. Bad \in SUBSET SUBSET S
  OBVIOUS
<1>1. PICK T \in Bad : \A U \in Bad : U \subseteq T => U = T
  <2> HIDE DEF Bad
  <2> QED  BY <1>a, SmallestSet
<1>2. T \in SUBSET S /\ IsFiniteSet(T)
  BY <1>1, FS_Subset
<1>3. T # {}
  <2>1. T = {} => Total(f, T) = 0 /\ Total(g, T) = 0 /\ Total(h, T) = 0
    BY TotalEmpty
  <2>2. ~(Total(h, T) <= Total(f, T) + Total(g, T))
    BY <1>1
  <2> HIDE DEF Bad
  <2> QED  BY <2>1, <2>2
<1> DEFINE z == First(T)
           rest == T \ {z}
<1>4. z \in T /\ rest \notin Bad /\ rest \in SUBSET S /\ IsFiniteSet(rest)
  BY <1>1, <1>2, <1>3, FirstInside, FS_Subset
<1>5. Counts(f, rest) /\ Counts(g, rest) /\ Counts(h, rest)
  BY <1>4 DEF Counts
<1>6. Total(f, rest) \in Nat /\ Total(g, rest) \in Nat /\ Total(h, rest) \in Nat
  BY <1>4, <1>5, TotalType
<1>7. /\ Total(f, T) = f[z] + Total(f, rest)
      /\ Total(g, T) = g[z] + Total(g, rest)
      /\ Total(h, T) = h[z] + Total(h, rest)
  BY <1>2, <1>3, TotalFirst
<1>8. f[z] \in Nat /\ g[z] \in Nat /\ h[z] \in Nat /\ h[z] <= f[z] + g[z]
  BY <1>2, <1>4 DEF Counts
<1>9. Total(h, rest) <= Total(f, rest) + Total(g, rest)
  BY <1>4
<1>10. ~(Total(h, T) <= Total(f, T) + Total(g, T))
  BY <1>1
<1> HIDE DEF z, rest, Bad
<1> QED  BY <1>6, <1>7, <1>8, <1>9, <1>10

\* A function that is nothing everywhere sums up to nothing.
LEMMA TotalZero ==
  ASSUME NEW S, IsFiniteSet(S), NEW f, \A x \in S : f[x] = 0
  PROVE  Total(f, S) = 0
<1> DEFINE Bad == {T \in SUBSET S : Total(f, T) # 0}
<1> SUFFICES ASSUME Bad # {} PROVE FALSE
  OBVIOUS
<1>a. Bad \in SUBSET SUBSET S
  OBVIOUS
<1>1. PICK T \in Bad : \A U \in Bad : U \subseteq T => U = T
  <2> HIDE DEF Bad
  <2> QED  BY <1>a, SmallestSet
<1>2. T \in SUBSET S /\ IsFiniteSet(T)
  BY <1>1, FS_Subset
<1>3. T # {}
  BY <1>1, <1>2, TotalFirst
<1>4. First(T) \in T /\ T \ {First(T)} \notin Bad /\ T \ {First(T)} \in SUBSET S
  BY <1>1, <1>3, FirstInside
<1>5. Total(f, T \ {First(T)}) = 0 /\ f[First(T)] = 0
  BY <1>2, <1>4
<1>6. Total(f, T) = 0
  BY <1>2, <1>3, <1>5, TotalFirst
<1> QED  BY <1>1, <1>6

\* Hence a function that is nowhere larger has no larger sum.
LEMMA TotalOrder ==
  ASSUME NEW S, IsFiniteSet(S), NEW f, Counts(f, S), NEW h, Counts(h, S),
         \A x \in S : h[x] <= f[x]
  PROVE  Total(h, S) <= Total(f, S)
<1> DEFINE none == [x \in S |-> 0]
<1>1. Counts(none, S) /\ \A x \in S : none[x] = 0 /\ h[x] <= f[x] + none[x]
  BY DEF Counts
<1> HIDE DEF none
<1>2. Total(h, S) <= Total(f, S) + Total(none, S)
  BY <1>1, TotalBelow
<1>3. Total(none, S) = 0 /\ Total(f, S) \in Nat
  BY <1>1, TotalZero, TotalType
<1> QED  BY <1>2, <1>3

\* Two functions that are the same on a set have the same sum over it.
LEMMA TotalSame ==
  ASSUME NEW S, IsFiniteSet(S), NEW f, Counts(f, S), NEW h, \A x \in S : h[x] = f[x]
  PROVE  Total(h, S) = Total(f, S)
<1>1. Counts(h, S) /\ (\A x \in S : h[x] <= f[x]) /\ (\A x \in S : f[x] <= h[x])
  BY DEF Counts
<1>2. Total(h, S) <= Total(f, S) /\ Total(f, S) <= Total(h, S)
  BY <1>1, TotalOrder
<1>3. Total(f, S) \in Nat /\ Total(h, S) \in Nat
  BY <1>1, TotalType
<1> QED  BY <1>2, <1>3

\* One more for one element is one more in the sum.
LEMMA TotalUp ==
  ASSUME NEW S, IsFiniteSet(S), NEW f, Counts(f, S), NEW x \in S, NEW h, h[x] = f[x] + 1,
         \A y \in S \ {x} : h[y] = f[y]
  PROVE  Total(h, S) = Total(f, S) + 1
<1>1. Counts(h, S) /\ Counts(f, S \ {x}) /\ IsFiniteSet(S \ {x}) /\ f[x] \in Nat
  BY FS_Subset DEF Counts
<1>2. Total(f, S) = f[x] + Total(f, S \ {x}) /\ Total(h, S) = h[x] + Total(h, S \ {x})
  BY <1>1, TotalRemove
<1>3. Total(h, S \ {x}) = Total(f, S \ {x}) /\ Total(f, S \ {x}) \in Nat
  BY <1>1, TotalSame, TotalType
<1> QED  BY <1>1, <1>2, <1>3

\* The sum over a part is no more than that over the whole.
LEMMA TotalPart ==
  ASSUME NEW S, IsFiniteSet(S), NEW f, Counts(f, S), NEW T \in SUBSET S, NEW V \in SUBSET T
  PROVE  Total(f, V) <= Total(f, T)
<1> DEFINE Bad == {U \in SUBSET S : V \subseteq U /\ ~(Total(f, V) <= Total(f, U))}
<1> SUFFICES ASSUME Bad # {} PROVE FALSE
  OBVIOUS
<1>a. Bad \in SUBSET SUBSET S
  OBVIOUS
<1>1. PICK W \in Bad : \A U \in Bad : U \subseteq W => U = W
  <2> HIDE DEF Bad
  <2> QED  BY <1>a, SmallestSet
<1>2. ASSUME NEW U, U \subseteq S
      PROVE  IsFiniteSet(U) /\ Counts(f, U) /\ Total(f, U) \in Nat
  <2>1. IsFiniteSet(U) /\ Counts(f, U)
    BY <1>2, FS_Subset DEF Counts
  <2> QED  BY <2>1, TotalType
<1>3. V \subseteq W /\ W \subseteq S /\ W # V
  BY <1>1, <1>2
<1>4. PICK x \in W : x \notin V
  BY <1>3
<1> DEFINE rest == W \ {x}
<1>5. rest \notin Bad /\ rest \subseteq S /\ V \subseteq rest
  BY <1>1, <1>3, <1>4
<1>6. Total(f, W) = f[x] + Total(f, rest) /\ f[x] \in Nat
  <2>1. IsFiniteSet(W) /\ Counts(f, W)
    BY <1>2, <1>3
  <2> QED  BY <1>4, <2>1, TotalRemove DEF Counts
<1>7. Total(f, V) <= Total(f, rest) /\ Total(f, rest) \in Nat /\ Total(f, V) \in Nat
  BY <1>2, <1>3, <1>5
<1>8. Total(f, V) <= Total(f, W)
  BY <1>6, <1>7
<1> QED  BY <1>1, <1>8

-----------------------------------------------------------------------------
\* The limiter

Times == 0..MaxTime

\* How many attempts of the addresses Q passed, in each set of ticks.
PassedBy(p, Q) == [U \in SUBSET Times |-> Total([s \in Q |-> Total(p[s], U)], Q)]

\* What such a count is good for: fewer ticks count no more.
Measure(m) ==
  /\ m \in [SUBSET Times -> Nat]
  /\ \A U, V \in SUBSET Times : V \subseteq U => m[V] <= m[U]

\* The count with one more at tick t.
OneMore(m, t) == [U \in SUBSET Times |-> IF t \in U THEN m[U] + 1 ELSE m[U]]

After(y) == {u \in Times : u > y}

Recent(x) == {u \in Times : x - Window < u /\ u <= x}

\* A window began in the time of at most n windows and let count of the attempts
\* pass: with the windows before it they are no more than n times the limit.
Average(total, opened, count, limit) ==
  \A n \in Nat \ {0} : opened < n * Window =>
    total <= (n - 1) * limit + count /\ total <= n * limit

\* The attempts that passed after y, if no late call opened a window since: the
\* call that opened the present window was not among them unless it opened after
\* y, and then those of the window before lack the call that opened that one.
Burst(after, y, opened, count, limit) ==
  /\ y >= opened => after < limit /\ (count # 0 => after < count)
  /\ after < limit + count /\ after < 2 * limit

\* What the window c says of the attempts m that passed by time t, given the
\* ticks L at which late calls opened windows.
Windowed(m, c, limit, t, L) ==
  LET opened == c.reset - Window IN
  /\ opened <= t
  /\ \A u \in L : u <= t
  /\ IF c.count = 0 THEN c.reset = 0 /\ m[Times] = 0 ELSE opened >= 0
  /\ m[After(t)] = 0
  /\ Average(m[Times], opened, c.count, limit)
  /\ \A y \in Int : y >= opened - Window /\ L \cap After(y) = {} =>
       Burst(m[After(y)], y, opened, c.count, limit)
  /\ \A x \in Times : L \cap Recent(x) = {} => m[Recent(x)] < 2 * limit

LimiterInv ==
  /\ Windowed(PassedBy(passed, Sources), overall, GlobalLimit, now, late)
  /\ \A s \in Sources : Windowed(PassedBy(passed, {s}), source[s], SourceLimit, now, late)

\* The window is at least a tick long.
LEMMA WindowType == Window \in Nat \ {0}
<1>1. Window \in {Window, SourceLimit, GlobalLimit}
  OBVIOUS
<1> QED  BY <1>1, LimiterAssumption

\* A stretch that is not over lies within what came after it began.
LEMMA OpenStretch ==
  ASSUME NEW m, Measure(m), NEW limit, NEW opened \in Int, NEW count, NEW t \in Times, opened <= t,
         NEW L, \A u \in L : u <= t,
         \A y \in Int : y >= opened - Window /\ L \cap After(y) = {} =>
           Burst(m[After(y)], y, opened, count, limit),
         NEW x \in Times, t \in Recent(x), L \cap Recent(x) = {}, limit \in Nat
  PROVE  m[Recent(x)] < 2 * limit
<1> DEFINE y == x - Window
<1>1. t \in Nat /\ x \in Nat /\ y \in Int /\ y >= opened - Window /\ t <= x
  BY WindowType DEF Times, Recent
<1>2. Recent(x) \subseteq After(y) /\ Recent(x) \in SUBSET Times /\ After(y) \in SUBSET Times
  BY <1>1 DEF Recent, After
<1>3. L \cap After(y) = {}
  <2> SUFFICES ASSUME NEW u \in L, u \in After(y) PROVE u \in Recent(x)
    OBVIOUS
  <2>1. u <= t /\ u \in Nat
    BY DEF After, Times
  <2> QED  BY <1>1, <2>1 DEF After, Recent
<1> HIDE DEF y
<1>4. m[After(y)] < 2 * limit
  BY <1>1, <1>3 DEF Burst
<1>5. m[Recent(x)] <= m[After(y)] /\ m[Recent(x)] \in Nat /\ m[After(y)] \in Nat
  BY <1>2 DEF Measure
<1> QED  BY <1>4, <1>5

\* A call that opens a window at t, with a reading r of the clock that may be
\* older, whether it passes or not.
LEMMA OpensWindow ==
  ASSUME NEW m, Measure(m), NEW c \in Counter, NEW limit \in Nat \ {0}, NEW t \in Times,
         NEW r \in Nat, r <= t, r >= c.reset,
         NEW L, Windowed(m, c, limit, t, L),
         NEW L2, L \subseteq L2, L2 \subseteq L \cup {t}, r < t => t \in L2,
         NEW m2, Measure(m2), m2 = m \/ m2 = OneMore(m, t)
  PROVE  Windowed(m2, [count |-> 1, reset |-> r + Window], limit, t, L2)
<1> DEFINE opened == c.reset - Window
<1>1. /\ c.reset \in Nat /\ c.count \in Nat /\ opened \in Int /\ t \in Nat /\ Window \in Nat /\ Window >= 1
      /\ r + Window - Window = r
  BY WindowType DEF Counter, Times
<1>2. \A U \in SUBSET Times : /\ m[U] \in Nat /\ m2[U] \in Nat
                              /\ t \notin U => m2[U] = m[U]
                              /\ m2[U] <= m[U] + 1
  BY DEF Measure, OneMore
<1>3. (\A y : After(y) \in SUBSET Times) /\ (\A x : Recent(x) \in SUBSET Times)
  BY DEF After, Recent
<1>4. m2[After(t)] = 0
  <2>1. t \notin After(t) /\ m[After(t)] = 0
    BY <1>1 DEF After, Windowed
  <2> QED  BY <1>2, <1>3, <2>1
<1>5. Average(m2[Times], r, 1, limit)
  <2> SUFFICES ASSUME NEW n \in Nat \ {0}, r < n * Window
               PROVE  m2[Times] <= (n - 1) * limit + 1 /\ m2[Times] <= n * limit
    BY DEF Average
  <2>1. m2[Times] \in Nat /\ m[Times] \in Nat /\ m2[Times] <= m[Times] + 1
    BY <1>2
  <2>2. /\ (n - 1) * limit \in Nat /\ n * limit = (n - 1) * limit + limit
        /\ n * Window \in Nat /\ n * Window = (n - 1) * Window + Window
    <3>1. \A k \in Nat : (n - 1) * k \in Nat /\ n * k \in Nat /\ n * k = (n - 1) * k + k
      OBVIOUS
    <3> QED  BY <1>1, <3>1
  <2>3. m[Times] <= (n - 1) * limit
    <3>1. CASE c.count = 0
      BY <2>1, <2>2, <3>1 DEF Windowed
    <3>2. CASE c.count # 0
      <4>1. opened >= 0 /\ opened < (n - 1) * Window
        BY <1>1, <2>2, <3>2 DEF Windowed
      <4>2. n - 1 \in Nat \ {0}
        BY <1>1, <4>1
      <4> QED  BY <4>1, <4>2 DEF Windowed, Average
    <3> QED  BY <3>1, <3>2
  <2> QED  BY <2>1, <2>2, <2>3
<1>6. ASSUME NEW y \in Int, y >= r - Window, L2 \cap After(y) = {}
      PROVE  Burst(m2[After(y)], y, r, 1, limit)
  <2>1. m2[After(y)] \in Nat /\ m[After(y)] \in Nat /\ m2[After(y)] <= m[After(y)] + 1
    BY <1>2, <1>3
  <2>2. CASE y >= t
    <3>1. After(y) \subseteq After(t)
      BY <1>1, <2>2 DEF After, Times
    <3>2. m2[After(y)] <= m2[After(t)]
      BY <1>3, <3>1 DEF Measure
    <3> QED  BY <1>4, <2>1, <3>2 DEF Burst
  <2>3. CASE y < t
    <3>1. t \in After(y)
      BY <1>1, <2>3 DEF After
    <3>2. r = t
      BY <1>1, <1>6, <3>1
    <3>3. L \cap After(y) = {} /\ y >= opened /\ y >= opened - Window
      BY <1>1, <1>6
    <3>4. m[After(y)] < limit
      BY <3>3 DEF Windowed, Burst
    <3> QED  BY <2>1, <2>3, <3>2, <3>4 DEF Burst
  <2> QED  BY <1>1, <2>2, <2>3
<1>7. \A u \in L2 : u <= t
  BY <1>1 DEF Windowed
<1>8. ASSUME NEW x \in Times, L2 \cap Recent(x) = {}
      PROVE  m2[Recent(x)] < 2 * limit
  <2>1. CASE t \in Recent(x)
    <3>1. \A y \in Int : y >= r - Window /\ L2 \cap After(y) = {} => Burst(m2[After(y)], y, r, 1, limit)
      BY <1>6
    <3>2. r \in Int /\ r <= t /\ limit \in Nat /\ L2 \cap Recent(x) = {} /\ x \in Times
      BY <1>8
    <3> QED  BY <1>7, <2>1, <3>1, <3>2, OpenStretch
  <2>2. CASE t \notin Recent(x)
    BY <1>2, <1>3, <1>8, <2>2 DEF Windowed
  <2> QED  BY <2>1, <2>2
<1> DEFINE d == [count |-> 1, reset |-> r + Window]
<1>9. d.count = 1 /\ d.reset - Window = r
  BY <1>1
<1> HIDE DEF d
<1>10. Windowed(m2, d, limit, t, L2)
  BY <1>4, <1>5, <1>6, <1>7, <1>8, <1>9 DEF Windowed
<1> QED  BY <1>10 DEF d

\* A call within a window.
LEMMA FillsWindow ==
  ASSUME NEW m, Measure(m), NEW c \in Counter, NEW limit \in Nat \ {0}, NEW t \in Times,
         NEW r \in Nat, r < c.reset,
         NEW L, Windowed(m, c, limit, t, L),
         NEW L2, L \subseteq L2, L2 \subseteq L \cup {t},
         NEW d \in Counter, d.count = c.count + 1, d.reset = c.reset,
         NEW m2, Measure(m2), m2 = m \/ (m2 = OneMore(m, t) /\ d.count <= limit)
  PROVE  Windowed(m2, d, limit, t, L2)
<1> DEFINE opened == c.reset - Window
<1>1. /\ c.reset \in Nat /\ c.count \in Nat /\ opened \in Int /\ t \in Nat
      /\ Window \in Nat /\ Window >= 1
  BY WindowType DEF Counter, Times
<1>2. \A U \in SUBSET Times : /\ m[U] \in Nat /\ m2[U] \in Nat
                              /\ t \notin U => m2[U] = m[U]
                              /\ m2[U] = m[U] \/ (m2[U] = m[U] + 1 /\ d.count <= limit)
  BY DEF Measure, OneMore
<1>3. (\A y : After(y) \in SUBSET Times) /\ (\A x : Recent(x) \in SUBSET Times)
  BY DEF After, Recent
<1>4. /\ opened <= t /\ c.count # 0 /\ opened >= 0
      /\ m[After(t)] = 0
      /\ Average(m[Times], opened, c.count, limit)
      /\ \A y \in Int : y >= opened - Window /\ L \cap After(y) = {} =>
           Burst(m[After(y)], y, opened, c.count, limit)
      /\ \A x \in Times : L \cap Recent(x) = {} => m[Recent(x)] < 2 * limit
      /\ \A u \in L2 : u <= t
  BY <1>1 DEF Windowed
<1> HIDE DEF opened
<1>5. m2[After(t)] = 0
  <2>1. t \notin After(t)
    BY <1>1 DEF After
  <2> QED  BY <1>2, <1>3, <1>4, <2>1
<1>6. Average(m2[Times], opened, d.count, limit)
  <2> SUFFICES ASSUME NEW n \in Nat \ {0}, opened < n * Window
               PROVE  m2[Times] <= (n - 1) * limit + d.count /\ m2[Times] <= n * limit
    BY DEF Average
  <2>1. /\ m2[Times] \in Nat /\ m[Times] \in Nat
        /\ m2[Times] = m[Times] \/ (m2[Times] = m[Times] + 1 /\ d.count <= limit)
    BY <1>2
  <2>2. (n - 1) * limit \in Nat /\ n * limit = (n - 1) * limit + limit
    OBVIOUS
  <2>3. m[Times] <= (n - 1) * limit + c.count /\ m[Times] <= n * limit
    BY <1>4 DEF Average
  <2> QED  BY <1>1, <2>1, <2>2, <2>3
<1>7. ASSUME NEW y \in Int, y >= opened - Window, L2 \cap After(y) = {}
      PROVE  Burst(m2[After(y)], y, opened, d.count, limit)
  <2>1. /\ m2[After(y)] \in Nat /\ m[After(y)] \in Nat
        /\ m2[After(y)] = m[After(y)] \/ (m2[After(y)] = m[After(y)] + 1 /\ d.count <= limit)
    BY <1>2, <1>3
  <2>2. Burst(m[After(y)], y, opened, c.count, limit)
    BY <1>4, <1>7
  <2> QED  BY <1>1, <1>4, <2>1, <2>2 DEF Burst
<1>8. ASSUME NEW x \in Times, L2 \cap Recent(x) = {}
      PROVE  m2[Recent(x)] < 2 * limit
  <2>1. CASE t \in Recent(x)
    BY <1>1, <1>4, <1>7, <1>8, <2>1, OpenStretch
  <2>2. CASE t \notin Recent(x)
    BY <1>2, <1>3, <1>4, <1>8, <2>2
  <2> QED  BY <2>1, <2>2
<1>9. d.count # 0 /\ d.reset - Window = opened
  BY <1>1 DEF opened
<1> QED  BY <1>4, <1>5, <1>6, <1>7, <1>8, <1>9 DEF Windowed

\* Either way, _bump keeps what the window says.
LEMMA BumpKeeps ==
  ASSUME NEW m, Measure(m), NEW c \in Counter, NEW limit \in Nat \ {0}, NEW t \in Times,
         NEW r \in Nat, r <= t,
         NEW L, Windowed(m, c, limit, t, L),
         NEW L2, L \subseteq L2, L2 \subseteq L \cup {t}, r < t /\ r >= c.reset => t \in L2,
         NEW m2, Measure(m2),
         m2 = m \/ (m2 = OneMore(m, t) /\ Bump(c, limit, r).count <= limit)
  PROVE  Windowed(m2, Bump(c, limit, r), limit, t, L2)
<1>1. r \in Nat /\ c.reset \in Nat /\ c.count \in Nat
  BY DEF Counter
<1>2. CASE r >= c.reset
  <2>1. Bump(c, limit, r) = [count |-> 1, reset |-> r + Window]
    BY <1>2 DEF Bump
  <2>2. Windowed(m2, [count |-> 1, reset |-> r + Window], limit, t, L2)
    BY <1>2, OpensWindow
  <2> QED  BY <2>1, <2>2
<1>3. CASE r < c.reset
  <2> DEFINE d == Bump(c, limit, r)
  <2>1. d = [c EXCEPT !.count = @ + 1]
    BY <1>1, <1>3 DEF Bump
  <2>2. d \in Counter /\ d.count = c.count + 1 /\ d.reset = c.reset
    BY <1>1, <2>1 DEF Counter
  <2> HIDE DEF d
  <2>3. m2 = m \/ (m2 = OneMore(m, t) /\ d.count <= limit)
    BY DEF d
  <2>4. Windowed(m2, d, limit, t, L2)
    BY <1>3, <2>2, <2>3, FillsWindow
  <2> QED  BY <2>4 DEF d
<1> QED  BY <1>1, <1>2, <1>3

\* A late call elsewhere only takes stretches out.
LEMMA LateElsewhere ==
  ASSUME NEW m, NEW c, NEW limit, NEW t \in Nat, NEW L, Windowed(m, c, limit, t, L),
         NEW L2, L \subseteq L2, L2 \subseteq L \cup {t}
  PROVE  Windowed(m, c, limit, t, L2)
<1>1. \A U : L2 \cap U = {} => L \cap U = {}
  OBVIOUS
<1>2. \A u \in L2 : u <= t
  BY DEF Windowed
<1> QED  BY <1>1, <1>2 DEF Windowed

\* Time passes without attempts.
LEMMA TickKeeps ==
  ASSUME NEW m, Measure(m), NEW c \in Counter, NEW limit, NEW t \in Nat,
         NEW L \in SUBSET Nat, Windowed(m, c, limit, t, L)
  PROVE  Windowed(m, c, limit, t + 1, L)
<1>1. After(t + 1) \subseteq After(t) /\ After(t + 1) \in SUBSET Times /\ After(t) \in SUBSET Times
  BY DEF After, Times
<1>2. m[After(t + 1)] <= m[After(t)] /\ m[After(t + 1)] \in Nat /\ m[After(t)] = 0
  BY <1>1 DEF Measure, Windowed
<1>3. c.reset - Window <= t => c.reset - Window <= t + 1
  BY WindowType DEF Counter
<1>4. \A u \in L : u <= t + 1
  BY DEF Windowed
<1> QED  BY <1>2, <1>3, <1>4 DEF Windowed

\* The table of passed attempts.
Passes == [Sources -> [Times -> Nat]]

\* What an address passed in some ticks, and some addresses together.
LEMMA PassedTypes ==
  ASSUME NEW p \in Passes, NEW Q \in SUBSET Sources, NEW U \in SUBSET Times
  PROVE  /\ IsFiniteSet(Q) /\ IsFiniteSet(U) /\ IsFiniteSet(Times)
         /\ \A s \in Q : Counts(p[s], Times) /\ Counts(p[s], U)
         /\ Counts([s \in Q |-> Total(p[s], U)], Q)
         /\ PassedBy(p, Q)[U] = Total([s \in Q |-> Total(p[s], U)], Q)
         /\ PassedBy(p, Q)[U] \in Nat
<1>1. IsFiniteSet(Q) /\ IsFiniteSet(Times) /\ IsFiniteSet(U)
  <2>1. MaxTime \in {MaxTime, MaxRequests} /\ 0 \in Int
    OBVIOUS
  <2>2. MaxTime \in Int
    BY <2>1, BoundAssumption
  <2>3. IsFiniteSet(Times)
    BY <2>1, <2>2, FS_Interval DEF Times
  <2> QED  BY <2>3, SourceAssumption, FS_Subset
<1>2. \A s \in Q : Counts(p[s], Times) /\ Counts(p[s], U)
  BY DEF Passes, Counts
<1> DEFINE f == [s \in Q |-> Total(p[s], U)]
<1>3. \A s \in Q : Total(p[s], U) \in Nat
  BY <1>1, <1>2, TotalType
<1>4. Counts(f, Q)
  BY <1>3 DEF Counts
<1>5. PassedBy(p, Q)[U] = Total(f, Q)
  BY DEF PassedBy
<1> HIDE DEF f
<1>6. Total(f, Q) \in Nat
  BY <1>1, <1>4, TotalType
<1> QED  BY <1>1, <1>2, <1>4, <1>5, <1>6 DEF f

\* It is a measure.
LEMMA PassedMeasure ==
  ASSUME NEW p \in Passes, NEW Q \in SUBSET Sources
  PROVE  Measure(PassedBy(p, Q))
<1> DEFINE m == PassedBy(p, Q)
           f(U) == [s \in Q |-> Total(p[s], U)]
<1>1. \A U \in SUBSET Times : m[U] = Total(f(U), Q) /\ m[U] \in Nat /\ Counts(f(U), Q)
  BY PassedTypes
<1>2. m \in [SUBSET Times -> Nat]
  <2>1. m = [U \in SUBSET Times |-> m[U]]
    BY DEF PassedBy
  <2> HIDE DEF m
  <2> QED  BY <1>1, <2>1
<1>3. IsFiniteSet(Q) /\ IsFiniteSet(Times) /\ \A s \in Q : Counts(p[s], Times)
  BY PassedTypes
<1>4. ASSUME NEW U \in SUBSET Times, NEW V \in SUBSET Times, V \subseteq U
      PROVE  m[V] <= m[U]
  <2>1. \A s \in Q : Total(p[s], V) <= Total(p[s], U)
    BY <1>3, <1>4, TotalPart
  <2>2. \A s \in Q : f(V)[s] <= f(U)[s]
    BY <2>1
  <2> HIDE DEF f
  <2>3. Total(f(V), Q) <= Total(f(U), Q)
    BY <1>1, <1>3, <2>2, TotalOrder
  <2> QED  BY <1>1, <2>3
<1> HIDE DEF m
<1>6. Measure(m)
  BY <1>2, <1>4 DEF Measure
<1> QED  BY <1>6 DEF m

\* The table p2 differs from p by one attempt of s at t.
Passed(p, p2, s, t) ==
  /\ p \in Passes /\ p2 \in Passes
  /\ \A r \in Sources : r # s => p2[r] = p[r]
  /\ p2[s][t] = p[s][t] + 1
  /\ \A u \in Times \ {t} : p2[s][u] = p[s][u]

\* An attempt of s that passes at t counts once, for every set of addresses
\* that s is in.
LEMMA PassCounts ==
  ASSUME NEW s \in Sources, NEW t \in Times, NEW Q \in SUBSET Sources,
         NEW p, NEW p2, Passed(p, p2, s, t)
  PROVE  /\ s \in Q => PassedBy(p2, Q) = OneMore(PassedBy(p, Q), t)
         /\ s \notin Q => PassedBy(p2, Q) = PassedBy(p, Q)
<1>1. p \in Passes /\ p2 \in Passes /\ \A r \in Sources : r # s => p2[r] = p[r]
  BY DEF Passed
<1>2. p2[s][t] = p[s][t] + 1 /\ \A u \in Times \ {t} : p2[s][u] = p[s][u]
  BY DEF Passed
<1>3. ASSUME NEW U \in SUBSET Times
      PROVE  /\ t \in U => Total(p2[s], U) = Total(p[s], U) + 1
             /\ t \notin U => Total(p2[s], U) = Total(p[s], U)
  <2>1. IsFiniteSet(U) /\ Counts(p[s], U)
    BY <1>1, PassedTypes
  <2>2. \A u \in U : u # t => p2[s][u] = p[s][u]
    BY <1>2
  <2>3. CASE t \in U
    <3>1. \A u \in U \ {t} : p2[s][u] = p[s][u]
      BY <2>2
    <3> QED  BY <1>2, <2>1, <2>3, <3>1, TotalUp
  <2>4. CASE t \notin U
    <3>1. \A u \in U : p2[s][u] = p[s][u]
      BY <2>2, <2>4
    <3> QED  BY <2>1, <2>4, <3>1, TotalSame
  <2> QED  BY <2>3, <2>4
<1> DEFINE f(U) == [r \in Q |-> Total(p[r], U)]
           h(U) == [r \in Q |-> Total(p2[r], U)]
<1>4. ASSUME NEW U \in SUBSET Times
      PROVE  Total(h(U), Q) = IF s \in Q /\ t \in U THEN Total(f(U), Q) + 1 ELSE Total(f(U), Q)
  <2>1. IsFiniteSet(Q) /\ Counts(f(U), Q)
    BY <1>1, PassedTypes
  <2>2. CASE s \in Q /\ t \in U
    <3>1. \A r \in Q : f(U)[r] = Total(p[r], U) /\ h(U)[r] = Total(p2[r], U)
      OBVIOUS
    <3>2. Total(p2[s], U) = Total(p[s], U) + 1 /\ \A r \in Q \ {s} : Total(p2[r], U) = Total(p[r], U)
      BY <1>1, <1>3, <2>2
    <3> HIDE DEF f, h
    <3>3. h(U)[s] = f(U)[s] + 1 /\ \A r \in Q \ {s} : h(U)[r] = f(U)[r]
      BY <2>2, <3>1, <3>2
    <3> QED  BY <2>1, <2>2, <3>3, TotalUp
  <2>3. CASE ~(s \in Q /\ t \in U)
    <3>1. \A r \in Q : h(U)[r] = f(U)[r]
      BY <1>1, <1>3, <2>3
    <3> HIDE DEF f, h
    <3> QED  BY <2>1, <2>3, <3>1, TotalSame
  <2> QED  BY <2>2, <2>3
<1>5. PassedBy(p2, Q) = [U \in SUBSET Times |-> Total(h(U), Q)]
  BY DEF PassedBy
<1>6. PassedBy(p, Q) = [U \in SUBSET Times |-> Total(f(U), Q)]
  BY DEF PassedBy
<1> HIDE DEF f, h
<1>7. CASE s \in Q
  <2>1. \A U \in SUBSET Times : Total(h(U), Q) = IF t \in U THEN PassedBy(p, Q)[U] + 1 ELSE PassedBy(p, Q)[U]
    BY <1>4, <1>6, <1>7
  <2>2. PassedBy(p2, Q) = OneMore(PassedBy(p, Q), t)
    BY <1>5, <2>1 DEF OneMore
  <2> QED  BY <1>7, <2>2
<1>8. CASE s \notin Q
  <2>1. \A U \in SUBSET Times : Total(h(U), Q) = Total(f(U), Q)
    BY <1>4, <1>8
  <2>2. PassedBy(p2, Q) = PassedBy(p, Q)
    BY <1>5, <1>6, <2>1
  <2> QED  BY <1>8, <2>2
<1> QED  BY <1>7, <1>8

\* An attempt keeps both limits, however old its reading of the clock.
LEMMA AttemptKeeps ==
  ASSUME TypeOK, TypeOK', LimiterInv, NEW s \in Sources, NEW r \in Nat, r <= now,
         NEW allowed \in BOOLEAN, Attempt(s, r, allowed), now' = now
  PROVE  LimiterInv'
<1> DEFINE mine == Bump(source[s], SourceLimit, r)
           all == Bump(overall, GlobalLimit, r)
<1>1. /\ allowed => mine.count <= SourceLimit /\ all.count <= GlobalLimit
      /\ source' = [source EXCEPT ![s] = mine] /\ overall' = all
      /\ IF allowed THEN passed' = [passed EXCEPT ![s][now] = @ + 1] ELSE passed' = passed
      /\ late \subseteq late' /\ late' \subseteq late \cup {now}
      /\ r < now /\ r >= overall.reset => now \in late'
      /\ r < now /\ r >= source[s].reset => now \in late'
  BY DEF Attempt
<1>2. /\ passed \in Passes /\ passed' \in Passes /\ now \in Times /\ now \in Nat
      /\ source \in [Sources -> Counter] /\ overall \in Counter
  BY DEF TypeOK, Passes, Times
<1>3. SourceLimit \in Nat \ {0} /\ GlobalLimit \in Nat \ {0}
  <2>1. SourceLimit \in {Window, SourceLimit, GlobalLimit} /\ GlobalLimit \in {Window, SourceLimit, GlobalLimit}
    OBVIOUS
  <2> QED  BY <2>1, LimiterAssumption
<1>4. ASSUME NEW Q \in SUBSET Sources
      PROVE  /\ Measure(PassedBy(passed, Q)) /\ Measure(PassedBy(passed', Q))
             /\ s \notin Q \/ ~allowed => PassedBy(passed', Q) = PassedBy(passed, Q)
             /\ s \in Q /\ allowed => PassedBy(passed', Q) = OneMore(PassedBy(passed, Q), now)
  <2>1. Measure(PassedBy(passed, Q)) /\ Measure(PassedBy(passed', Q))
    BY <1>2, PassedMeasure
  <2>2. CASE allowed
    <3>1. passed' = [passed EXCEPT ![s][now] = @ + 1]
      BY <1>1, <2>2
    <3>2. /\ s \in Q => PassedBy(passed', Q) = OneMore(PassedBy(passed, Q), now)
          /\ s \notin Q => PassedBy(passed', Q) = PassedBy(passed, Q)
      <4> DEFINE p == passed
                 q == passed'
                 t == now
      <4>1. p \in Passes /\ q \in Passes /\ t \in Times
        BY <1>2
      <4>3. q = [p EXCEPT ![s] = [p[s] EXCEPT ![t] = p[s][t] + 1]]
        BY <3>1
      <4> HIDE DEF p, q, t
      <4>2. /\ s \in Q => PassedBy(q, Q) = OneMore(PassedBy(p, Q), t)
            /\ s \notin Q => PassedBy(q, Q) = PassedBy(p, Q)
        <5>1. p[s] \in [Times -> Nat]
          BY <4>1 DEF Passes
        <5>2. (\A o \in Sources : o # s => q[o] = p[o]) /\ q[s] = [p[s] EXCEPT ![t] = p[s][t] + 1]
          BY <4>1, <4>3 DEF Passes
        <5>3. q[s][t] = p[s][t] + 1 /\ \A u \in Times \ {t} : q[s][u] = p[s][u]
          BY <4>1, <5>1, <5>2
        <5>4. Passed(p, q, s, t)
          BY <4>1, <5>2, <5>3 DEF Passed
        <5> QED  BY <4>1, <5>4, PassCounts
      <4> QED  BY <4>2 DEF p, q, t
    <3> QED  BY <2>1, <2>2, <3>2
  <2>3. CASE ~allowed
    BY <1>1, <2>1, <2>3
  <2> QED  BY <2>2, <2>3
<1>5. Windowed(PassedBy(passed', Sources), all, GlobalLimit, now, late')
  <2> DEFINE m == PassedBy(passed, Sources)
             m2 == PassedBy(passed', Sources)
  <2>1. Measure(m) /\ Measure(m2) /\ (m2 = m \/ (m2 = OneMore(m, now) /\ allowed))
    BY <1>4
  <2>2. Windowed(m, overall, GlobalLimit, now, late)
    BY DEF LimiterInv
  <2>3. allowed => Bump(overall, GlobalLimit, r).count <= GlobalLimit
    BY <1>1
  <2> HIDE DEF m, m2
  <2>4. Windowed(m2, Bump(overall, GlobalLimit, r), GlobalLimit, now, late')
    BY <1>1, <1>2, <1>3, <2>1, <2>2, <2>3, BumpKeeps
  <2> QED  BY <2>4 DEF m2
<1>6. ASSUME NEW q \in Sources
      PROVE  Windowed(PassedBy(passed', {q}), source'[q], SourceLimit, now, late')
  <2> DEFINE m == PassedBy(passed, {q})
             m2 == PassedBy(passed', {q})
  <2>1. Measure(m) /\ Measure(m2) /\ (q # s => m2 = m) /\ (m2 = m \/ (m2 = OneMore(m, now) /\ allowed))
    <3>1. {q} \in SUBSET Sources /\ (q # s => s \notin {q})
      OBVIOUS
    <3> QED  BY <1>4, <3>1
  <2>2. Windowed(m, source[q], SourceLimit, now, late)
    BY DEF LimiterInv
  <2>3. allowed => Bump(source[s], SourceLimit, r).count <= SourceLimit
    BY <1>1
  <2> HIDE DEF m, m2
  <2>4. CASE q = s
    <3>1. source'[q] = Bump(source[q], SourceLimit, r) /\ source[q] \in Counter
      BY <1>1, <1>2, <2>4
    <3>2. Windowed(m2, Bump(source[q], SourceLimit, r), SourceLimit, now, late')
      BY <1>1, <1>2, <1>3, <2>1, <2>2, <2>3, <2>4, <3>1, BumpKeeps
    <3> QED  BY <3>1, <3>2 DEF m2
  <2>5. CASE q # s
    <3>1. source'[q] = source[q] /\ m2 = m
      BY <1>1, <1>2, <2>1, <2>5
    <3>2. Windowed(m, source[q], SourceLimit, now, late')
      BY <1>1, <1>2, <2>2, LateElsewhere
    <3> QED  BY <3>1, <3>2 DEF m2
  <2> QED  BY <2>4, <2>5
<1> HIDE DEF mine, all
<1> QED  BY <1>1, <1>5, <1>6 DEF LimiterInv

\* Nothing else touches the limiter but the time.
LEMMA LimiterStep ==
  ASSUME LinkInv, TypeOK', LimiterInv, [Next]_vars
  PROVE  LimiterInv'
<1> TypeOK
  BY DEF LinkInv
<1>1. CASE UNCHANGED <<limiter, now>>
  BY <1>1 DEF limiter, LimiterInv
<1>2. ASSUME NEW w \in Workers, NEW g \in Links, Redeem(w, g)
      PROVE  LimiterInv'
  <2>1. desk[w].op = "attempt" /\ desk[w].from \in Sources
    BY <1>2, CallType DEF Redeem
  <2>2. desk[w].at \in Nat /\ desk[w].at <= now
    BY <2>1, DeskAge
  <2> QED  BY <1>2, <2>1, <2>2, AttemptKeeps DEF Redeem
<1>3. CASE Tick
  <2>1. UNCHANGED limiter /\ now' = now + 1
    BY <1>3 DEF Tick
  <2>2. /\ passed \in Passes /\ now \in Nat /\ overall \in Counter /\ source \in [Sources -> Counter]
        /\ late \in SUBSET Nat
    BY DEF TypeOK, Passes, Times
  <2>3. \A Q \in SUBSET Sources : Measure(PassedBy(passed, Q))
    BY <2>2, PassedMeasure
  <2>4. Windowed(PassedBy(passed, Sources), overall, GlobalLimit, now + 1, late)
    <3>1. Measure(PassedBy(passed, Sources))
      BY <2>3
    <3> QED  BY <2>2, <3>1, TickKeeps DEF LimiterInv
  <2>5. ASSUME NEW s \in Sources
        PROVE  Windowed(PassedBy(passed, {s}), source[s], SourceLimit, now + 1, late)
    <3>1. Measure(PassedBy(passed, {s}))
      BY <2>3
    <3>2. Windowed(PassedBy(passed, {s}), source[s], SourceLimit, now, late)
      BY DEF LimiterInv
    <3> QED  BY <2>2, <3>1, <3>2, TickKeeps
  <2> QED  BY <2>1, <2>4, <2>5 DEF limiter, LimiterInv
<1>4. ASSUME NEW w \in Workers
      PROVE  /\ \/ \E s \in Sources : Arrive(w, s)
                \/ CommitRedeem(w)
                \/ \E g \in Links : Visits(w, g)
                \/ Answer(w)
                => UNCHANGED <<limiter, now>>
             /\ Management(w) \/ Abort(w) => UNCHANGED <<limiter, now>>
  BY DEF Arrive, CommitRedeem, Visits, Answer, Management, Extend, Handle, CommitExtend, CommitRevoke,
         CommitRegenerate, Abort
<1>5. ASSUME \/ \E a \in Staff, g \in Links, c \in Clients, t \in 0..now :
                  \E e \in Expiries(t) : Create(a, g, c, t, e)
             \/ \E g \in Links : ExpireSession(g)
             \/ UNCHANGED vars
      PROVE  UNCHANGED <<limiter, now>>
  BY <1>5 DEF Create, ExpireSession, vars, limiter
<1> QED
  BY <1>1, <1>2, <1>3, <1>4, <1>5 DEF Next, Portal

\* At first nobody passed and no window is open.
LEMMA LimiterInit ==
  ASSUME Init
  PROVE  LimiterInv
<1>1. passed \in Passes /\ \A s \in Sources, t \in Times : passed[s][t] = 0
  BY DEF Init, Passes, Times
<1>2. ASSUME NEW Q \in SUBSET Sources, NEW U \in SUBSET Times
      PROVE  PassedBy(passed, Q)[U] = 0
  <2> DEFINE f == [s \in Q |-> Total(passed[s], U)]
  <2>1. PassedBy(passed, Q)[U] = Total(f, Q) /\ IsFiniteSet(Q) /\ IsFiniteSet(U)
    BY <1>1, PassedTypes
  <2>2. \A s \in Q : Total(passed[s], U) = 0
    <3> SUFFICES ASSUME NEW s \in Q PROVE Total(passed[s], U) = 0
      OBVIOUS
    <3>1. \A u \in U : passed[s][u] = 0
      BY <1>1
    <3> QED  BY <2>1, <3>1, TotalZero
  <2>3. \A s \in Q : f[s] = 0
    BY <2>2
  <2> HIDE DEF f
  <2> QED  BY <2>1, <2>3, TotalZero
<1>3. ASSUME NEW Q \in SUBSET Sources, NEW c, c = [count |-> 0, reset |-> 0], NEW limit \in Nat \ {0}
      PROVE  Windowed(PassedBy(passed, Q), c, limit, 0, {})
  <2>1. Times \in SUBSET Times /\ (\A y : After(y) \in SUBSET Times) /\ (\A x : Recent(x) \in SUBSET Times)
    BY DEF After, Recent
  <2> DEFINE m == PassedBy(passed, Q)
  <2>2. m[Times] = 0 /\ (\A y : m[After(y)] = 0) /\ (\A x : m[Recent(x)] = 0)
    BY <1>2, <2>1
  <2> HIDE DEF m
  <2>3. Average(0, c.reset - Window, 0, limit)
    <3>1. \A n \in Nat \ {0} : 0 <= (n - 1) * limit + 0 /\ 0 <= n * limit
      OBVIOUS
    <3> QED  BY <3>1 DEF Average
  <2>4. \A y \in Int : Burst(0, y, c.reset - Window, 0, limit)
    BY DEF Burst
  <2>5. Windowed(m, c, limit, 0, {})
    BY <1>3, <2>2, <2>3, <2>4, WindowType DEF Windowed
  <2> QED  BY <2>5 DEF m
<1>4. SourceLimit \in Nat \ {0} /\ GlobalLimit \in Nat \ {0}
  <2>1. SourceLimit \in {Window, SourceLimit, GlobalLimit} /\ GlobalLimit \in {Window, SourceLimit, GlobalLimit}
    OBVIOUS
  <2> QED  BY <2>1, LimiterAssumption
<1>5. /\ overall = [count |-> 0, reset |-> 0] /\ now = 0 /\ late = {}
      /\ \A s \in Sources : source[s] = [count |-> 0, reset |-> 0]
  BY DEF Init
<1>6. Sources \in SUBSET Sources /\ \A s \in Sources : {s} \in SUBSET Sources
  OBVIOUS
<1> QED  BY <1>3, <1>4, <1>5, <1>6 DEF LimiterInv

\* What an address passed, and all of them together, as the windows count it.
LEMMA PassesCount ==
  ASSUME TypeOK, NEW U \in SUBSET Times
  PROVE  /\ \A s \in Sources : PassedIn(s, U) = PassedBy(passed, {s})[U]
         /\ AllPassedIn(U) = PassedBy(passed, Sources)[U]
<1>1. passed \in Passes
  BY DEF TypeOK, Passes, Times
<1>2. \A s \in Sources : PassedIn(s, U) = Total(passed[s], U)
  BY DEF PassedIn, Total, MapThenSumSet, MapThenFoldSet
<1>3. ASSUME NEW s \in Sources
      PROVE  PassedIn(s, U) = PassedBy(passed, {s})[U]
  <2> DEFINE f == [r \in {s} |-> Total(passed[r], U)]
  <2>1. PassedBy(passed, {s})[U] = Total(f, {s}) /\ Counts(f, {s}) /\ IsFiniteSet({s})
    BY <1>1, PassedTypes
  <2>2. f[s] = PassedIn(s, U) /\ f[s] \in Nat
    BY <1>2, <2>1 DEF Counts
  <2> HIDE DEF f
  <2>3. Total(f, {s}) = f[s] + Total(f, {s} \ {s})
    BY <2>1, TotalRemove
  <2>4. Total(f, {s} \ {s}) = 0
    BY TotalEmpty
  <2> QED  BY <2>1, <2>2, <2>3, <2>4
<1>4. AllPassedIn(U) = PassedBy(passed, Sources)[U]
  <2> DEFINE f == [s \in Sources |-> PassedIn(s, U)]
  <2>1. AllPassedIn(U) = Total(f, Sources)
    BY DEF AllPassedIn, Total, MapThenSumSet, MapThenFoldSet
  <2>2. f = [s \in Sources |-> Total(passed[s], U)]
    BY <1>2
  <2>3. Total(f, Sources) = PassedBy(passed, Sources)[U]
    BY <1>1, <2>2, PassedTypes
  <2> HIDE DEF f
  <2> QED  BY <2>1, <2>3
<1> QED  BY <1>3, <1>4

\* However long calls wait for the lock, in n windows' time neither an address
\* nor all of them together pass more than n times the limit; in Window ticks in
\* which no late call opened a window, less than twice the limit (allow, _bump).
THEOREM LimiterIsFair == Spec => []LimiterHolds
<1>1. TypeOK /\ LimiterInv => LimiterHolds
  <2> SUFFICES ASSUME TypeOK, LimiterInv
               PROVE  LimiterHolds
    OBVIOUS
  <2>1. now \in Nat /\ SourceLimit \in Nat /\ GlobalLimit \in Nat
    <3>1. SourceLimit \in {Window, SourceLimit, GlobalLimit} /\ GlobalLimit \in {Window, SourceLimit, GlobalLimit}
      OBVIOUS
    <3> QED  BY <3>1, LimiterAssumption DEF TypeOK
  <2>2. /\ overall.reset \in Nat /\ \A s \in Sources : source[s].reset \in Nat
    BY DEF TypeOK, Counter
  <2>3. ASSUME NEW n \in 1..(now + 1), now < n * Window
        PROVE  /\ \A s \in Sources : PassedIn(s, 0..MaxTime) <= n * SourceLimit
               /\ AllPassedIn(0..MaxTime) <= n * GlobalLimit
    <3>1. n \in Nat \ {0} /\ n * Window \in Int /\ Window \in Nat
      BY <2>1, WindowType
    <3>2. ASSUME NEW m, NEW c, c.reset \in Nat, NEW limit, Windowed(m, c, limit, now, late)
          PROVE  m[Times] <= n * limit
      <4>1. c.reset - Window < n * Window
        BY <2>1, <2>3, <3>1, <3>2 DEF Windowed
      <4> QED  BY <3>1, <3>2, <4>1 DEF Windowed, Average
    <3>3. Times \in SUBSET Times /\ Times = 0..MaxTime
      BY DEF Times
    <3>4. /\ \A s \in Sources : PassedBy(passed, {s})[Times] <= n * SourceLimit
          /\ PassedBy(passed, Sources)[Times] <= n * GlobalLimit
      BY <2>2, <3>2 DEF LimiterInv
    <3> QED  BY <3>3, <3>4, PassesCount
  <2>4. ASSUME NEW t \in 0..MaxTime, Stretch(t) \cap late = {}
        PROVE  /\ \A s \in Sources : PassedIn(s, Stretch(t)) < 2 * SourceLimit
               /\ AllPassedIn(Stretch(t)) < 2 * GlobalLimit
    <3>1. Stretch(t) = Recent(t) /\ Stretch(t) \in SUBSET Times /\ t \in Times
      BY WindowType, BoundAssumption DEF Times, Recent, Stretch
    <3>2. late \cap Recent(t) = {}
      BY <2>4, <3>1
    <3>3. /\ \A s \in Sources : PassedBy(passed, {s})[Recent(t)] < 2 * SourceLimit
          /\ PassedBy(passed, Sources)[Recent(t)] < 2 * GlobalLimit
      BY <3>1, <3>2 DEF LimiterInv, Windowed
    <3> QED  BY <3>1, <3>3, PassesCount
  <2> QED  BY <2>3, <2>4 DEF LimiterHolds
<1>2. LinkInv => TypeOK
  BY DEF LinkInv
<1>3. LinkInv /\ TypeOK' /\ LimiterInv /\ [Next]_vars => LimiterInv'
  BY LimiterStep
<1> QED  BY <1>1, <1>2, <1>3, LimiterInit, LinkInvariant, PTL DEF Spec
=============================================================================
