---------------------------- MODULE MCTalentFlow ----------------------------
(* TLC instances of TalentFlow.                                            *)
EXTENDS TalentFlow, TLC

CONSTANTS p1, k1, o1, c1, c2, w1, w2

OnePerson == o1 :> k1
OnePosting == o1 :> p1

\* One tag, a DTC tag among others, and two: no DTC tag, an unknown name or
\* none reconcile like two, or unmap what nobody verified.
TagLists == {<<c1>>, <<"urgent", c2>>, <<c1, c2>>}

\* Workers are interchangeable: a request is handled by w1 if it is idle.
FirstIdle == desk[w2] = Idle /\ desk[w2]' # Idle => desk[w1] # Idle

\* Lever moves a candidacy to one stage and staff enter applications at the
\* other; the requests they move come to all of StageChoices.
OneStage ==
  /\ \A o \in Candidacies : candidacy'[o] \in {candidacy[o], "SCREENING"}
  /\ \A a \in Postings \X People :
       application[a] = None /\ application'[a] # None /\ requests' > requests
         => application'[a].stage = "DEPLOYED"

\* Whatever ends an interview, it is held to be completed.
OneOutcome ==
  \A a \in Postings \X People : interview'[a] # None => interview'[a].status # "CANCELLED"

\* Tags name both clients; staff verify for one, with or against a tag, and a
\* posting tagged for that one is archived.
OneClient ==
  /\ \A w \in Workers : desk'[w].op = "verify" => desk'[w].copy.client = c1
  /\ \A p \in Postings : fact'[p] # None /\ fact'[p].archived => fact'[p].tags = <<c1>>

TalentNext == Next /\ FirstIdle /\ OneStage /\ OneOutcome /\ OneClient

TalentSpec == Init /\ [][TalentNext]_vars /\ Fairness
=============================================================================
