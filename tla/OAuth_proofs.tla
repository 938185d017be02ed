---------------------------- MODULE OAuth_proofs ----------------------------
(***************************************************************************)
(* Theorems of module OAuth, for any accounts, sessions, callbacks,        *)
(* requests, administrators' calls and restarts.                           *)
(***************************************************************************)
EXTENDS OAuth, TLAPS

----------------------------------------------------------------------------
(* Sessions, callbacks and administrators' calls.  They depend on nothing  *)
(* that the requests do.                                                   *)

SessionType  == [status : {"none", "gone", "pending", "completed", "error", "bound"},
                 grant : Grants \cup {None}, bound : Accounts \cup {None}, old : BOOLEAN]
CallbackType == [at : {"idle", "exchanging", "completing", "done"},
                 state : States \cup {None}, grant : Grants \cup {None}]
EditorType   == [at : {"idle", "creating", "marking", "refreshing"},
                 state : States \cup {None}, grant : Grants \cup {None},
                 acc : Accounts \cup {None}, late : BOOLEAN]

SessionTypes ==
  /\ sessions \in [States -> SessionType]
  /\ callback \in [Grants -> CallbackType]
  /\ editor \in [Editors -> EditorType]
  /\ recorded \subseteq States /\ crashes \in 0..MaxCrashes

(* A call that is under way has what it works on. *)
Equipped ==
  /\ \A s \in States : sessions[s].status = "completed" => sessions[s].grant \in Grants
  /\ \A g \in Grants :
       /\ callback[g].at \in {"exchanging", "completing"} => callback[g].state \in States
       /\ callback[g].grant \in {None, g}
  /\ \A e \in Editors :
       /\ editor[e].at \in {"creating", "marking"} => editor[e].state \in States
       /\ editor[e].at = "creating" => editor[e].grant \in Grants
       /\ editor[e].at = "marking" => editor[e].acc \in Accounts

SInv == SessionTypes /\ Equipped

(* What the actions write is of these types. *)
LEMMA SessionUpdates ==
  ASSUME NEW f \in [States -> SessionType], NEW s \in States
  PROVE  /\ \A v \in {"pending", "error", "bound"} : [f EXCEPT ![s].status = v] \in [States -> SessionType]
         /\ [f EXCEPT ![s].old = TRUE] \in [States -> SessionType]
         /\ \A g \in Grants : [f EXCEPT ![s].status = "completed", ![s].grant = g]
                               \in [States -> SessionType]
         /\ \A a \in Accounts : [f EXCEPT ![s].status = "bound", ![s].bound = a]
                                 \in [States -> SessionType]
<1> DEFINE x == f[s]
<1>1. x \in SessionType
  OBVIOUS
<1> HIDE DEF x
<1>2. \A v \in {"pending", "error", "bound"} : [x EXCEPT !.status = v] \in SessionType
  BY <1>1 DEF SessionType
<1>3. [x EXCEPT !.old = TRUE] \in SessionType
  BY <1>1 DEF SessionType
<1>4. \A g \in Grants : [x EXCEPT !.status = "completed", !.grant = g] \in SessionType
  BY <1>1 DEF SessionType
<1>5. \A a \in Accounts : [x EXCEPT !.status = "bound", !.bound = a] \in SessionType
  BY <1>1 DEF SessionType
<1>6. QED
  BY <1>2, <1>3, <1>4, <1>5 DEF x

LEMMA EditorUpdates ==
  ASSUME NEW f \in [Editors -> EditorType], NEW e \in Editors
  PROVE  /\ [f EXCEPT ![e] = NoEditor] \in [Editors -> EditorType]
         /\ [f EXCEPT ![e] = [NoEditor EXCEPT !.at = "refreshing"]] \in [Editors -> EditorType]
         /\ [f EXCEPT ![e].at = "refreshing"] \in [Editors -> EditorType]
         /\ \A a \in Accounts : [f EXCEPT ![e].at = "marking", ![e].acc = a]
                                 \in [Editors -> EditorType]
<1> DEFINE x == f[e]
<1>1. x \in EditorType
  OBVIOUS
<1> HIDE DEF x
<1>2. NoEditor \in EditorType
  BY DEF NoEditor, EditorType
<1>3. [NoEditor EXCEPT !.at = "refreshing"] \in EditorType
  BY <1>2 DEF EditorType
<1>4. [x EXCEPT !.at = "refreshing"] \in EditorType
  BY <1>1 DEF EditorType
<1>5. \A a \in Accounts : [x EXCEPT !.at = "marking", !.acc = a] \in EditorType
  BY <1>1 DEF EditorType
<1>6. QED
  BY <1>2, <1>3, <1>4, <1>5 DEF x

LEMMA PrunedType ==
  ASSUME SInv
  PROVE  /\ Pruned \in [States -> SessionType]
         /\ \A s \in States : Pruned[s] = sessions[s] \/ Pruned[s] = Gone
         /\ \A s \in States : Pruned[s].status = "completed" => Pruned[s].grant \in Grants
BY DEF SInv, SessionTypes, SessionType, Equipped, Pruned, Gone, NoSession

LEMMA SInvInit == ASSUME Init PROVE SInv
BY OAuthAssumption DEF Init, SInv, SessionTypes, Equipped, SessionType, CallbackType, EditorType,
   NoSession, NoCallback, NoEditor

LEMMA SInvStep == ASSUME SInv, [Next]_vars PROVE SInv'
<1> USE OAuthAssumption DEF SInv, SessionTypes, Equipped
<1>1. ASSUME NEW s \in States, StartOAuth(s) \/ GrowOld(s)
      PROVE  SInv'
  <2>1. CASE StartOAuth(s)
    <3>1. sessions' = [Pruned EXCEPT ![s].status = "pending"]
      BY <2>1 DEF StartOAuth
    <3>2. sessions' \in [States -> SessionType]
      BY <3>1, PrunedType, SessionUpdates
    <3>3. \A t \in States : sessions'[t].status = "completed" => sessions'[t].grant \in Grants
      BY <3>1, PrunedType DEF SessionType
    <3>4. QED
      BY <2>1, <3>2, <3>3 DEF StartOAuth, credentialVars
  <2>2. CASE GrowOld(s)
    <3>1. sessions' \in [States -> SessionType]
      BY <2>2, SessionUpdates DEF GrowOld
    <3>2. \A t \in States : sessions'[t].status = "completed" => sessions'[t].grant \in Grants
      BY <2>2 DEF GrowOld, SessionType
    <3>3. QED
      BY <2>2, <3>1, <3>2 DEF GrowOld
  <2>3. QED
    BY <1>1, <2>1, <2>2
<1>2. CASE OAuthStatus
  BY <1>2, PrunedType DEF OAuthStatus
<1>3. ASSUME NEW g \in Grants, ExchangeOAuthCode(g)
      PROVE  SInv'
  BY <1>3 DEF ExchangeOAuthCode, CallbackType
<1>4. ASSUME NEW g \in Grants, CompleteOAuthSession(g)
      PROVE  SInv'
  <2>1. callback[g].state \in States
    BY <1>4 DEF CompleteOAuthSession
  <2>2. callback' = [callback EXCEPT ![g] = [NoCallback EXCEPT !.at = "done"]]
    BY <1>4 DEF CompleteOAuthSession
  <2>3. callback' \in [Grants -> CallbackType]
    BY <2>2 DEF CallbackType, NoCallback
  <2>4. sessions' \in [States -> SessionType]
    BY <1>4, <2>1, SessionUpdates DEF CompleteOAuthSession
  <2>5. \A s \in States : sessions'[s].status = "completed" => sessions'[s].grant \in Grants
    BY <1>4, <2>1 DEF CompleteOAuthSession, SessionType
  <2>6. \A h \in Grants : callback'[h] = callback[h] \/ (callback'[h].at = "done"
                                                          /\ callback'[h].grant = None)
    BY <2>2 DEF NoCallback
  <2>7. QED
    BY <1>4, <2>3, <2>4, <2>5, <2>6 DEF CompleteOAuthSession
<1>5. ASSUME NEW g \in Grants, NEW s \in States, OAuthCallback(g, s)
      PROVE  SInv'
  BY <1>5, PrunedType DEF OAuthCallback, CallbackType
<1>6. ASSUME NEW e \in Editors, NEW s \in States, BindOAuthAccount(e, s)
      PROVE  SInv'
  <2>1. /\ sessions' = Pruned
        /\ UNCHANGED <<callback, recorded, crashes>>
        /\ \/ editor' = editor
           \/ /\ Pruned[s].status = "completed"
              /\ editor' = [editor EXCEPT ![e] = [at |-> "creating", state |-> s,
                              grant |-> Pruned[s].grant, acc |-> None, late |-> s \in recorded]]
    BY <1>6 DEF BindOAuthAccount, LookUp
  <2>2. editor' \in [Editors -> EditorType]
    <3>1. \A t \in SessionType : t.grant \in Grants \cup {None}
      BY DEF SessionType
    <3>2. Pruned[s].grant \in Grants \cup {None}
      BY <3>1, PrunedType
    <3>3. [at |-> "creating", state |-> s, grant |-> Pruned[s].grant, acc |-> None,
           late |-> s \in recorded] \in EditorType
      BY <3>2 DEF EditorType
    <3>4. QED
      BY <2>1, <3>3
  <2>3. \A d \in Editors :
          \/ editor'[d] = editor[d]
          \/ editor'[d].at = "creating" /\ editor'[d].state \in States /\ editor'[d].grant \in Grants
    BY <2>1, PrunedType
  <2>4. QED
    BY <2>1, <2>2, <2>3, PrunedType
<1>7. ASSUME NEW e \in Editors, CreateAccount(e)
      PROVE  SInv'
  <2>1. editor' \in [Editors -> EditorType]
    <3>1. CASE editor' = [editor EXCEPT ![e] = NoEditor]
      BY <3>1, EditorUpdates
    <3>2. ASSUME NEW a \in Accounts,
                 editor' = [editor EXCEPT ![e].at = "marking", ![e].acc = a]
          PROVE  editor' \in [Editors -> EditorType]
      BY <3>2, EditorUpdates
    <3>3. QED
      BY <1>7, <3>1, <3>2 DEF CreateAccount
  <2>2. \A d \in Editors : \/ editor'[d] = editor[d]
                           \/ editor'[d].at = "idle"
                           \/ /\ editor'[d].at = "marking" /\ editor'[d].acc \in Accounts
                              /\ editor'[d].state \in States
    BY <1>7 DEF CreateAccount, EditorType, NoEditor
  <2>3. QED
    BY <1>7, <2>1, <2>2 DEF CreateAccount
<1>8. ASSUME NEW e \in Editors, MarkBound(e)
      PROVE  SInv'
  <2>1. editor' \in [Editors -> EditorType] /\ sessions' \in [States -> SessionType]
        /\ recorded' \subseteq States
    <3>1. editor' = [editor EXCEPT ![e] = [NoEditor EXCEPT !.at = "refreshing"]]
      BY <1>8 DEF MarkBound
    <3>2. editor' \in [Editors -> EditorType]
      BY <3>1, EditorUpdates
    <3>3. sessions' \in [States -> SessionType] /\ recorded' \subseteq States
      <4>1. editor[e].state \in States /\ editor[e].acc \in Accounts
        BY <1>8 DEF MarkBound
      <4>2. [sessions EXCEPT ![editor[e].state].status = "bound",
                             ![editor[e].state].bound = editor[e].acc] \in [States -> SessionType]
        BY <4>1, SessionUpdates
      <4>3. QED
        BY <1>8, <4>1, <4>2 DEF MarkBound
    <3>4. QED
      BY <3>2, <3>3
  <2>2. \A d \in Editors : editor'[d] = editor[d] \/ editor'[d].at = "refreshing"
    BY <1>8 DEF MarkBound, NoEditor
  <2>3. \A s \in States : sessions'[s] = sessions[s] \/ sessions'[s].status = "bound"
    BY <1>8 DEF MarkBound, SessionType
  <2>4. QED
    BY <1>8, <2>1, <2>2, <2>3 DEF MarkBound
<1>9. ASSUME NEW e \in Editors, EditAccount(e) \/ RefreshPool(e)
      PROVE  SInv'
  <2>1. editor' \in [Editors -> EditorType]
    <3>1. CASE editor' = [editor EXCEPT ![e] = NoEditor]
      BY <3>1, EditorUpdates
    <3>2. CASE editor' = [editor EXCEPT ![e].at = "refreshing"]
      BY <3>2, EditorUpdates
    <3>3. CASE editor' = editor
      BY <3>3
    <3>4. QED
      BY <1>9, <3>1, <3>2, <3>3 DEF EditAccount, RefreshPool
  <2>2. \A d \in Editors : editor'[d] = editor[d] \/ editor'[d].at \in {"idle", "refreshing"}
    BY <1>9 DEF EditAccount, RefreshPool, EditorType, NoEditor
  <2>3. UNCHANGED <<sessions, callback, recorded, crashes>>
    BY <1>9 DEF EditAccount, RefreshPool
  <2>4. QED
    BY <2>1, <2>2, <2>3
<1>10. CASE Restart
  <2>1. Gone \in SessionType /\ Gone.status = "gone"
    BY DEF Gone, NoSession, SessionType
  <2>2. /\ NoCallback \in CallbackType /\ [NoCallback EXCEPT !.at = "done"] \in CallbackType
        /\ NoCallback.at = "idle" /\ [NoCallback EXCEPT !.at = "done"].at = "done"
        /\ NoCallback.grant = None /\ [NoCallback EXCEPT !.at = "done"].grant = None
    BY DEF NoCallback, CallbackType
  <2>3. NoEditor \in EditorType /\ NoEditor.at = "idle"
    BY DEF NoEditor, EditorType
  <2>4. sessions' \in [States -> SessionType] /\ editor' \in [Editors -> EditorType]
    BY <1>10, <2>1, <2>3 DEF Restart
  <2>5. callback' \in [Grants -> CallbackType]
    BY <1>10, <2>2 DEF Restart
  <2>6. \A s \in States : sessions'[s] \in {sessions[s], Gone}
    BY <1>10 DEF Restart
  <2>7. \A g \in Grants : callback'[g] \in {NoCallback, [NoCallback EXCEPT !.at = "done"]}
    BY <1>10 DEF Restart
  <2>8. \A e \in Editors : editor'[e] = NoEditor
    BY <1>10 DEF Restart
  <2>9. recorded' = recorded /\ crashes' \in 0..MaxCrashes
    BY <1>10 DEF Restart
  <2>10. Equipped'
    BY <2>1, <2>2, <2>3, <2>6, <2>7, <2>8
  <2>11. QED
    BY <2>4, <2>5, <2>9, <2>10
<1>11. CASE UNCHANGED <<sessionVars, crashes>>
  BY <1>11 DEF sessionVars
<1>12. QED
  BY <1>1, <1>2, <1>3, <1>4, <1>5, <1>6, <1>7, <1>8, <1>9, <1>10, <1>11
     DEF Next, Onboarding, vars, sessionVars

----------------------------------------------------------------------------
(* A session that was marked keeps the account it is bound to. *)
Marked == \A s \in recorded : /\ sessions[s].status # "none"
                              /\ There(s) => sessions[s].bound # None

LEMMA MarkedStep == ASSUME SInv, Marked, BoundOnce, [Next]_vars
                    PROVE  Marked' /\ BoundOnce'
<1> USE OAuthAssumption DEF SInv, SessionTypes, Equipped, Marked, BoundOnce, There
<1>1. ASSUME NEW s \in States, StartOAuth(s) \/ GrowOld(s)
      PROVE  Marked' /\ BoundOnce'
  <2>1. CASE StartOAuth(s)
    <3>1. s \notin recorded /\ recorded' = recorded /\ editor' = editor
      BY <2>1 DEF StartOAuth
    <3>2. \A t \in States \ {s} : sessions'[t] = Pruned[t]
      BY <2>1, PrunedType DEF StartOAuth
    <3>3. QED
      BY <3>1, <3>2, PrunedType DEF Gone, NoSession
  <2>2. CASE GrowOld(s)
    BY <2>2 DEF GrowOld, SessionType
  <2>3. QED
    BY <1>1, <2>1, <2>2
<1>2. CASE OAuthStatus
  BY <1>2, PrunedType DEF OAuthStatus, Gone, NoSession
<1>3. ASSUME NEW g \in Grants, ExchangeOAuthCode(g)
      PROVE  Marked' /\ BoundOnce'
  BY <1>3 DEF ExchangeOAuthCode
<1>4. ASSUME NEW g \in Grants, CompleteOAuthSession(g)
      PROVE  Marked' /\ BoundOnce'
  BY <1>4 DEF CompleteOAuthSession, SessionType
<1>5. ASSUME NEW g \in Grants, NEW s \in States, OAuthCallback(g, s)
      PROVE  Marked' /\ BoundOnce'
  BY <1>5, PrunedType DEF OAuthCallback, Gone, NoSession
<1>6. ASSUME NEW e \in Editors, NEW s \in States, BindOAuthAccount(e, s)
      PROVE  Marked' /\ BoundOnce'
  <2>1. There(s) /\ Pruned[s] = sessions[s] /\ sessions' = Pruned /\ recorded' = recorded
    BY <1>6, PrunedType DEF BindOAuthAccount, LookUp, Found
  <2>2. Marked'
    BY <2>1, PrunedType DEF Gone, NoSession
  <2>3. \/ editor' = editor
        \/ /\ s \notin recorded
           /\ editor' = [editor EXCEPT ![e] = [at |-> "creating", state |-> s,
                           grant |-> Pruned[s].grant, acc |-> None, late |-> s \in recorded]]
    BY <1>6, <2>1 DEF BindOAuthAccount, LookUp
  <2>4. \A d \in Editors : editor'[d] = editor[d] \/ ~editor'[d].late
    <3>1. CASE editor' = editor
      BY <3>1
    <3>2. CASE s \notin recorded /\ editor' # editor
      <4>1. editor'[e].late = (s \in recorded)
        BY <2>3, <3>2
      <4>2. ~editor'[e].late
        BY <4>1, <3>2
      <4>3. QED
        BY <2>3, <3>2, <4>2
    <3>3. QED
      BY <2>3, <3>1, <3>2
  <2>5. QED
    BY <2>1, <2>2, <2>4
<1>7. ASSUME NEW e \in Editors, CreateAccount(e)
      PROVE  Marked' /\ BoundOnce'
  <2>1. \A d \in Editors : editor'[d] = editor[d] \/ editor'[d].at \in {"idle", "marking"}
    BY <1>7 DEF CreateAccount, NoEditor, EditorType
  <2>2. QED
    BY <1>7, <2>1 DEF CreateAccount
<1>8. ASSUME NEW e \in Editors, MarkBound(e)
      PROVE  Marked' /\ BoundOnce'
  <2>1. \A d \in Editors : editor'[d] = editor[d] \/ editor'[d].at = "refreshing"
    BY <1>8 DEF MarkBound, NoEditor
  <2>2. CASE There(editor[e].state)
    <3>1. /\ editor[e].state \in States /\ editor[e].acc # None
          /\ recorded' = recorded \cup {editor[e].state}
          /\ sessions' = [sessions EXCEPT ![editor[e].state].status = "bound",
                                          ![editor[e].state].bound = editor[e].acc]
      BY <1>8, <2>2 DEF MarkBound
    <3>2. /\ sessions'[editor[e].state].status = "bound"
          /\ sessions'[editor[e].state].bound = editor[e].acc
          /\ \A s \in States \ {editor[e].state} : sessions'[s] = sessions[s]
      BY <3>1 DEF SessionType
    <3>3. QED
      BY <1>8, <2>1, <3>1, <3>2 DEF MarkBound
  <2>3. CASE ~There(editor[e].state)
    BY <1>8, <2>1, <2>3 DEF MarkBound
  <2>4. QED
    BY <2>2, <2>3
<1>9. ASSUME NEW e \in Editors, EditAccount(e) \/ RefreshPool(e)
      PROVE  Marked' /\ BoundOnce'
  <2>1. \A d \in Editors : editor'[d] = editor[d] \/ editor'[d].at \in {"idle", "refreshing"}
    BY <1>9 DEF EditAccount, RefreshPool, NoEditor, EditorType
  <2>2. QED
    BY <1>9, <2>1 DEF EditAccount, RefreshPool
<1>10. CASE Restart
  BY <1>10 DEF Restart, Gone, NoSession, NoEditor
<1>11. CASE UNCHANGED <<sessionVars, crashes>>
  BY <1>11 DEF sessionVars
<1>12. QED
  BY <1>1, <1>2, <1>3, <1>4, <1>5, <1>6, <1>7, <1>8, <1>9, <1>10, <1>11
     DEF Next, Onboarding, vars, sessionVars

(* A session that was marked as bound is not bound again, whatever late    *)
(* callbacks and calls do to it (oauth_handler.go:173-180, 230-235).       *)
THEOREM OAuthBoundOnce == Spec => []BoundOnce
<1> DEFINE Inv == SInv /\ Marked /\ BoundOnce
<1>1. Init => Inv
  BY SInvInit DEF Init, Marked, BoundOnce, NoEditor
<1>2. Inv /\ [Next]_vars => Inv'
  BY SInvStep, MarkedStep
<1>3. QED
  BY <1>1, <1>2, PTL DEF Spec

----------------------------------------------------------------------------
(* Requests and the stores. *)

RequestType == [at : {"idle", "expired", "refreshing", "returning", "waiting"},
                acc : Accounts \cup {None}, grant : Grants \cup {None}, token : 0..MaxTokens,
                held : BOOLEAN]
JobType     == [at : {"row", "memory"}, token : 0..MaxTokens, held : BOOLEAN]

Types ==
  /\ issued \in [Grants -> 0..MaxTokens]
  /\ row \in [Accounts -> Stored] /\ memory \in [Accounts -> Stored]
  /\ copy \in [Editors -> {None} \cup [Accounts -> Stored]]
  /\ flights \in [Accounts -> Requests \cup {None}]
  /\ request \in [Requests -> RequestType]
  /\ jobs \in [Accounts -> SUBSET JobType]
  /\ lost \subseteq Accounts

(* What is copied of an account, held of it or done for it, is of a row:   *)
(* rows of accounts in use are not deleted.                                *)
Rooted ==
  /\ \A a \in Accounts :
       /\ memory[a] # None => row[a] # None
       /\ \A e \in Editors : copy[e] # None /\ copy[e][a] # None => row[a] # None
       /\ \A j \in jobs[a] : row[a] # None /\ (j.held => memory[a] # None)
  /\ \A r \in Requests : request[r].at \in {"expired", "refreshing"} =>
       /\ request[r].acc \in Accounts /\ request[r].grant \in Grants
       /\ row[request[r].acc] # None
       /\ request[r].held => memory[request[r].acc] # None

(* One request at a time is in refreshGroup for an account, and is the one *)
(* that refreshes it.                                                      *)
Flying ==
  /\ \A r \in Requests : request[r].at \in {"refreshing", "returning"} =>
       request[r].acc \in Accounts /\ flights[request[r].acc] = r
  /\ \A a \in Accounts : flights[a] # None =>
       request[flights[a]].at \in {"refreshing", "returning"} /\ request[flights[a]].acc = a

CInv == Types /\ Rooted /\ Flying

LEMMA StoredUpdates ==
  ASSUME NEW f \in [Accounts -> Stored], NEW a \in Accounts, f[a] # None
  PROVE  /\ \A b \in BOOLEAN : [f EXCEPT ![a].expired = b] \in [Accounts -> Stored]
         /\ \A t \in 1..MaxTokens :
              [f EXCEPT ![a].expired = FALSE, ![a].token = t] \in [Accounts -> Stored]
         /\ \A b \in BOOLEAN : [f EXCEPT ![a].expired = b][a] # None
         /\ \A t \in 1..MaxTokens : [f EXCEPT ![a].expired = FALSE, ![a].token = t][a] # None
<1> DEFINE x == f[a]
<1>1. x \in Tokens
  BY DEF Stored
<1> HIDE DEF x
<1>2. \A b \in BOOLEAN : [x EXCEPT !.expired = b] \in Tokens
  BY <1>1 DEF Tokens
<1>3. \A t \in 1..MaxTokens : [x EXCEPT !.expired = FALSE, !.token = t] \in Tokens
  BY <1>1 DEF Tokens
<1>4. QED
  BY <1>2, <1>3, OAuthAssumption DEF x, Stored

LEMMA RequestUpdates ==
  ASSUME NEW f \in [Requests -> RequestType], NEW r \in Requests
  PROVE  /\ \A at \in {"idle", "expired", "refreshing", "returning", "waiting"} :
              /\ [f EXCEPT ![r].at = at] \in [Requests -> RequestType]
              /\ [f EXCEPT ![r] = [NoRequest EXCEPT !.at = at, !.acc = f[r].acc]]
                   \in [Requests -> RequestType]
         /\ NoRequest \in RequestType
         /\ [q \in Requests |-> [f[q] EXCEPT !.held = FALSE]] \in [Requests -> RequestType]
<1>1. \A x \in RequestType : /\ [x EXCEPT !.held = FALSE] \in RequestType
                             /\ \A at \in {"idle", "expired", "refreshing", "returning", "waiting"} :
                                  [x EXCEPT !.at = at] \in RequestType
  BY DEF RequestType
<1>2. NoRequest \in RequestType
  BY OAuthAssumption DEF RequestType, NoRequest
<1>3. \A at \in {"idle", "expired", "refreshing", "returning", "waiting"}, c \in Accounts \cup {None} :
        [NoRequest EXCEPT !.at = at, !.acc = c] \in RequestType
  BY <1>2 DEF RequestType
<1>4. \A x \in RequestType : x.acc \in Accounts \cup {None}
  BY DEF RequestType
<1>5. f[r] \in RequestType /\ \A q \in Requests : f[q] \in RequestType
  OBVIOUS
<1> HIDE DEF RequestType, NoRequest
<1>6. QED
  BY <1>1, <1>2, <1>3, <1>4, <1>5

(* What each action does to requests, row by row. *)
LEMMA FindStep ==
  ASSUME CInv, NEW r \in Requests, NEW a \in Accounts, FindExpired(r, a)
  PROVE  /\ request' \in [Requests -> RequestType]
         /\ request'[r].at = "expired" /\ request'[r].acc = a
         /\ request'[r].grant = memory[a].grant /\ request'[r].token = memory[a].token
         /\ memory[a] \in Tokens
         /\ \A q \in Requests \ {r} : request'[q] = request[q]
<1> USE DEF CInv, Types, Rooted, Flying
<1>1. memory[a] \in Tokens
  BY DEF FindExpired, Stored
<1>2. memory[a].grant \in Grants /\ memory[a].token \in 1..MaxTokens
  BY <1>1 DEF Tokens
<1>3. [at |-> "expired", acc |-> a, grant |-> memory[a].grant, token |-> memory[a].token,
       held |-> TRUE] \in RequestType
  BY <1>2, OAuthAssumption DEF RequestType
<1>4. QED
  BY <1>1, <1>3 DEF FindExpired

LEMMA DoStep ==
  ASSUME CInv, NEW r \in Requests, Do(r)
  PROVE  /\ request[r].acc \in Accounts
         /\ request' \in [Requests -> RequestType]
         /\ request'[r].acc = request[r].acc
         /\ \A q \in Requests \ {r} : request'[q] = request[q]
         /\ \/ /\ request'[r].at = "refreshing" /\ request'[r].grant = request[r].grant
               /\ request'[r].token = request[r].token
               /\ request'[r].held = request[r].held
               /\ flights[request[r].acc] = None
               /\ flights' = [flights EXCEPT ![request[r].acc] = r]
            \/ request'[r].at = "waiting" /\ flights' = flights
<1> USE DEF CInv, Types, Rooted, Flying
<1>1. request[r].acc \in Accounts
  BY DEF Do
<1>2. CASE flights[request[r].acc] = None
  <2>1. /\ request' = [request EXCEPT ![r].at = "refreshing"]
        /\ flights' = [flights EXCEPT ![request[r].acc] = r]
    BY <1>2 DEF Do
  <2>2. request' \in [Requests -> RequestType]
    BY <2>1, RequestUpdates
  <2>3. QED
    BY <1>1, <1>2, <2>1, <2>2 DEF RequestType
<1>3. CASE flights[request[r].acc] # None
  <2>1. /\ request' = [request EXCEPT ![r] = [NoRequest EXCEPT !.at = "waiting",
                                                               !.acc = request[r].acc]]
        /\ flights' = flights
    BY <1>3 DEF Do, Wait, Goes
  <2>2. request' \in [Requests -> RequestType]
    BY <2>1, RequestUpdates
  <2>3. QED
    BY <1>1, <2>1, <2>2 DEF NoRequest
<1>4. QED
  BY <1>2, <1>3

LEMMA AnswerStep ==
  ASSUME CInv, NEW r \in Requests, Refresh(r) \/ RefreshFails(r)
  PROVE  /\ request[r].acc \in Accounts
         /\ request' \in [Requests -> RequestType]
         /\ request'[r].at = "returning" /\ request'[r].acc = request[r].acc
         /\ \A q \in Requests \ {r} : request'[q] = request[q]
<1> USE DEF CInv, Types, Rooted, Flying
<1>1. /\ request' = [request EXCEPT ![r] = [NoRequest EXCEPT !.at = "returning",
                                                             !.acc = request[r].acc]]
      /\ request[r].at = "refreshing"
  BY DEF Refresh, RefreshFails, Answered, Goes
<1>2. request' \in [Requests -> RequestType]
  BY <1>1, RequestUpdates
<1>3. QED
  BY <1>1, <1>2 DEF NoRequest

LEMMA ReturnStep ==
  ASSUME CInv, NEW r \in Requests, Return(r)
  PROVE  /\ request[r].acc \in Accounts
         /\ request' \in [Requests -> RequestType]
         /\ request'[r].at = "idle"
         /\ \A q \in Requests : request'[q] = request[q] \/ request'[q].at = "idle"
         /\ \A q \in Requests \ {r} : request[q].at # "waiting" => request'[q] = request[q]
<1> USE DEF CInv, Types, Rooted, Flying
<1>1. NoRequest \in RequestType /\ NoRequest.at = "idle"
  BY RequestUpdates DEF NoRequest
<1>2. request[r].acc \in Accounts
  BY DEF Return
<1>3. \A q \in Requests : request'[q] \in {request[q], NoRequest}
  BY DEF Return
<1>4. request'[r] = NoRequest
  BY DEF Return
<1>5. request' \in [Requests -> RequestType]
  BY <1>1 DEF Return
<1>6. \A q \in Requests \ {r} : request[q].at # "waiting" => request'[q] = request[q]
  BY DEF Return
<1>7. QED
  BY <1>1, <1>2, <1>3, <1>4, <1>5, <1>6

(* What each action does to the stores and to the goroutines. *)
SameTokens(x, y) == /\ x = None <=> y = None
                    /\ x # None => x.grant = y.grant /\ x.token = y.token

LEMMA SaveRowStep ==
  ASSUME CInv, NEW a \in Accounts, NEW j \in jobs[a], SaveRow(a, j)
  PROVE  /\ row' \in [Accounts -> Stored] /\ jobs' \in [Accounts -> SUBSET JobType]
         /\ row[a] # None /\ row'[a] # None /\ row'[a].grant = row[a].grant
         /\ row'[a].token = IF j.token = 0 THEN row[a].token ELSE j.token
         /\ \A b \in Accounts \ {a} : row'[b] = row[b] /\ jobs'[b] = jobs[b]
         /\ j.at = "row"
         /\ jobs'[a] = (jobs[a] \ {j}) \cup {[j EXCEPT !.at = "memory"]}
         /\ [j EXCEPT !.at = "memory"].at = "memory" /\ [j EXCEPT !.at = "memory"].held = j.held
<1> USE DEF CInv, Types, Rooted
<1>1. j \in JobType /\ row[a] # None /\ row[a] \in Tokens
  BY DEF Stored
<1>2. j.token \in 0..MaxTokens
  BY <1>1 DEF JobType
<1>3. [j EXCEPT !.at = "memory"] \in JobType
  BY <1>1 DEF JobType
<1>4. [j EXCEPT !.at = "memory"].at = "memory" /\ [j EXCEPT !.at = "memory"].held = j.held
  BY <1>1 DEF JobType
<1>5. jobs' \in [Accounts -> SUBSET JobType]
  BY <1>3 DEF SaveRow
<1> DEFINE t == IF j.token = 0 THEN row[a].token ELSE j.token
<1>6. t \in 1..MaxTokens
  BY <1>1, <1>2, OAuthAssumption DEF Tokens
<1>7. row' = [row EXCEPT ![a].expired = FALSE, ![a].token = t]
  BY DEF SaveRow
<1> HIDE DEF t
<1>8. row' \in [Accounts -> Stored] /\ row'[a] # None
  <2>1. row \in [Accounts -> Stored] /\ row[a] # None
    BY <1>1
  <2> HIDE DEF CInv, Types, Rooted
  <2>2. \A u \in 1..MaxTokens :
          /\ [row EXCEPT ![a].expired = FALSE, ![a].token = u] \in [Accounts -> Stored]
          /\ [row EXCEPT ![a].expired = FALSE, ![a].token = u][a] # None
    BY <2>1, StoredUpdates
  <2>3. QED
    BY <1>6, <1>7, <2>2
<1>9. row'[a].grant = row[a].grant /\ row'[a].token = t
  BY <1>1, <1>7 DEF Tokens
<1>10. QED
  BY <1>1, <1>4, <1>5, <1>7, <1>8, <1>9 DEF SaveRow, t

LEMMA SaveMemoryStep ==
  ASSUME CInv, NEW a \in Accounts, NEW j \in jobs[a], SaveMemory(a, j)
  PROVE  /\ memory' \in [Accounts -> Stored] /\ jobs' = [jobs EXCEPT ![a] = @ \ {j}]
         /\ \A b \in Accounts : SameTokens(memory[b], memory'[b])
<1> USE DEF CInv, Types, Rooted
<1>1. CASE ~j.held
  BY <1>1 DEF SaveMemory, SameTokens
<1>2. CASE j.held
  <2>1. memory[a] # None /\ memory[a] \in Tokens
    BY <1>2 DEF Stored
  <2>2. memory' = [memory EXCEPT ![a].expired = FALSE]
    BY <1>2 DEF SaveMemory
  <2>3. memory' \in [Accounts -> Stored] /\ memory'[a] # None
    BY <2>1, <2>2, StoredUpdates
  <2>4. memory'[a].grant = memory[a].grant /\ memory'[a].token = memory[a].token
    BY <2>1, <2>2 DEF Tokens
  <2>5. \A b \in Accounts \ {a} : memory'[b] = memory[b]
    BY <2>2
  <2>6. QED
    BY <2>1, <2>3, <2>4, <2>5 DEF SaveMemory, SameTokens
<1>3. QED
  BY <1>1, <1>2

LEMMA ExpiringKeeps ==
  ASSUME NEW f \in [Accounts -> Stored], NEW a \in Accounts
  PROVE  /\ Expiring(f, a) \in [Accounts -> Stored]
         /\ \A b \in Accounts : SameTokens(f[b], Expiring(f, a)[b])
<1>1. f # None
  BY OAuthAssumption
<1>2. CASE f[a] = None
  BY <1>2 DEF Expiring, SameTokens
<1>3. CASE f[a] # None
  <2>1. f[a] \in Tokens /\ Expiring(f, a) = [f EXCEPT ![a].expired = TRUE]
    BY <1>1, <1>3 DEF Stored, Expiring
  <2>2. Expiring(f, a) \in [Accounts -> Stored] /\ Expiring(f, a)[a] # None
    <3>1. \A b \in BOOLEAN : /\ [f EXCEPT ![a].expired = b] \in [Accounts -> Stored]
                             /\ [f EXCEPT ![a].expired = b][a] # None
      BY <1>3, StoredUpdates
    <3>2. QED
      BY <2>1, <3>1
  <2>3. Expiring(f, a)[a].grant = f[a].grant /\ Expiring(f, a)[a].token = f[a].token
    BY <2>1 DEF Tokens
  <2>4. \A b \in Accounts \ {a} : Expiring(f, a)[b] = f[b]
    BY <2>1
  <2>5. QED
    BY <1>3, <2>2, <2>3, <2>4 DEF SameTokens
<1>4. QED
  BY <1>2, <1>3

LEMMA ExpireStep ==
  ASSUME CInv, NEW a \in Accounts, Expire(a)
  PROVE  /\ row' \in [Accounts -> Stored] /\ memory' \in [Accounts -> Stored]
         /\ copy' \in [Editors -> {None} \cup [Accounts -> Stored]]
         /\ \A b \in Accounts : /\ SameTokens(row[b], row'[b])
                                /\ SameTokens(memory[b], memory'[b])
         /\ \A e \in Editors : /\ copy'[e] # None => copy[e] # None
                               /\ copy'[e] # None =>
                                    \A b \in Accounts : SameTokens(copy[e][b], copy'[e][b])
<1> USE DEF CInv, Types
<1>1. row' = Expiring(row, a) /\ memory' = Expiring(memory, a)
  BY DEF Expire
<1>2. \A e \in Editors : copy'[e] = Expiring(copy[e], a)
  BY DEF Expire
<1>3. ASSUME NEW e \in Editors
      PROVE  /\ copy'[e] \in {None} \cup [Accounts -> Stored]
             /\ copy'[e] # None => copy[e] # None
             /\ copy'[e] # None => \A b \in Accounts : SameTokens(copy[e][b], copy'[e][b])
  <2>1. CASE copy[e] = None
    BY <1>2, <2>1 DEF Expiring
  <2>2. CASE copy[e] # None
    <3>1. copy[e] \in [Accounts -> Stored]
      BY <2>2
    <3>2. /\ Expiring(copy[e], a) \in [Accounts -> Stored]
          /\ \A b \in Accounts : SameTokens(copy[e][b], Expiring(copy[e], a)[b])
      BY <3>1, ExpiringKeeps
    <3>3. QED
      BY <1>2, <2>2, <3>1, <3>2
  <2>3. QED
    BY <2>1, <2>2
<1>4. copy' \in [Editors -> {None} \cup [Accounts -> Stored]]
  BY <1>3 DEF Expire
<1>5. QED
  BY <1>1, <1>3, <1>4, ExpiringKeeps

LEMMA SetPoolStep ==
  ASSUME CInv, NEW e \in Editors, SetPool(e)
  PROVE  /\ memory' \in [Accounts -> Stored] /\ memory' = copy[e]
         /\ copy' = [copy EXCEPT ![e] = None] /\ copy[e] # None
         /\ request' \in [Requests -> RequestType] /\ jobs' \in [Accounts -> SUBSET JobType]
         /\ \A r \in Requests :
              /\ request'[r].at = request[r].at /\ request'[r].acc = request[r].acc
              /\ request'[r].grant = request[r].grant /\ request'[r].token = request[r].token
              /\ ~request'[r].held
         /\ \A a \in Accounts : \A k \in jobs'[a] :
              ~k.held /\ \E j \in jobs[a] : k = [j EXCEPT !.held = FALSE]
                                             /\ k.at = j.at /\ k.token = j.token
         /\ \A a \in Accounts : \A j \in jobs[a] : [j EXCEPT !.held = FALSE] \in jobs'[a]
<1> USE DEF CInv, Types
<1>1. \A j \in JobType : /\ [j EXCEPT !.held = FALSE] \in JobType
                         /\ ~[j EXCEPT !.held = FALSE].held
                         /\ [j EXCEPT !.held = FALSE].at = j.at
                         /\ [j EXCEPT !.held = FALSE].token = j.token
  BY DEF JobType
<1>2. jobs' = [a \in Accounts |-> {[j EXCEPT !.held = FALSE] : j \in jobs[a]}]
  BY DEF SetPool
<1>3. jobs' \in [Accounts -> SUBSET JobType]
  BY <1>1, <1>2
<1>4. request' = [r \in Requests |-> [request[r] EXCEPT !.held = FALSE]]
  BY DEF SetPool
<1>5. request' \in [Requests -> RequestType]
  BY <1>4, RequestUpdates
<1>6. \A x \in RequestType : LET y == [x EXCEPT !.held = FALSE]
                             IN /\ y.at = x.at /\ y.acc = x.acc /\ y.grant = x.grant
                                /\ y.token = x.token /\ ~y.held
  BY DEF RequestType
<1>7. \A r \in Requests :
        /\ request'[r].at = request[r].at /\ request'[r].acc = request[r].acc
        /\ request'[r].grant = request[r].grant /\ request'[r].token = request[r].token
        /\ ~request'[r].held
  BY <1>4, <1>6
<1>8. \A a \in Accounts : \A k \in jobs'[a] :
        ~k.held /\ \E j \in jobs[a] : k = [j EXCEPT !.held = FALSE]
                                       /\ k.at = j.at /\ k.token = j.token
  <2> SUFFICES ASSUME NEW a \in Accounts, NEW k \in jobs'[a]
               PROVE  ~k.held /\ \E j \in jobs[a] : k = [j EXCEPT !.held = FALSE]
                                                   /\ k.at = j.at /\ k.token = j.token
    OBVIOUS
  <2>1. PICK j \in jobs[a] : k = [j EXCEPT !.held = FALSE]
    BY <1>2
  <2>2. j \in JobType
    OBVIOUS
  <2>3. ~k.held /\ k.at = j.at /\ k.token = j.token
    BY <1>1, <2>1, <2>2
  <2>4. QED
    BY <2>1, <2>3
<1>9. \A a \in Accounts : \A j \in jobs[a] : [j EXCEPT !.held = FALSE] \in jobs'[a]
  BY <1>2
<1>10. QED
  BY <1>3, <1>5, <1>7, <1>8, <1>9 DEF SetPool

LEMMA CreateStep ==
  ASSUME SInv, CInv, NEW e \in Editors, CreateAccount(e)
  PROVE  /\ row' \in [Accounts -> Stored]
         /\ \/ row' = row
            \/ \E a \in Accounts :
                 /\ row[a] = None /\ row'[a] # None
                 /\ row'[a].grant = editor[e].grant /\ row'[a].token = 1
                 /\ editor[e].grant \in Grants
                 /\ \A b \in Accounts \ {a} : row'[b] = row[b]
<1>1. editor[e].grant \in Grants /\ row \in [Accounts -> Stored]
  BY DEF SInv, Equipped, CInv, Types, CreateAccount
<1> DEFINE x == [grant |-> editor[e].grant, token |-> 1, expired |-> FALSE]
<1>2. x \in Tokens
  BY <1>1, OAuthAssumption DEF Tokens
<1>3. x \in Stored /\ x # None /\ x.grant = editor[e].grant /\ x.token = 1
  BY <1>2, OAuthAssumption DEF Stored
<1>4. \/ row' = row
      \/ \E a \in Accounts : row[a] = None /\ row' = [row EXCEPT ![a] = x]
  BY DEF CreateAccount
<1> HIDE DEF x
<1>5. QED
  BY <1>1, <1>3, <1>4

LEMMA RefreshStep ==
  ASSUME CInv, NEW r \in Requests, Refresh(r)
  PROVE  /\ request[r].at = "refreshing"
         /\ request[r].acc \in Accounts /\ request[r].grant \in Grants
         /\ request[r].token = issued[request[r].grant]
         /\ jobs' \in [Accounts -> SUBSET JobType]
         /\ \E t \in 0..MaxTokens :
              /\ jobs' = [jobs EXCEPT ![request[r].acc] =
                            @ \cup {[at |-> "row", token |-> t, held |-> request[r].held]}]
              /\ \/ t = 0 /\ issued' = issued
                 \/ /\ t = issued[request[r].grant] + 1
                    /\ issued' = [issued EXCEPT ![request[r].grant] = t]
<1> USE DEF CInv, Types, Rooted
<1>1. request[r].at = "refreshing" /\ request[r].acc \in Accounts /\ request[r].grant \in Grants
      /\ request[r].token = issued[request[r].grant]
  BY DEF Refresh, Good
<1>2. request[r].held \in BOOLEAN
  BY DEF RequestType
<1>3. \A t \in 0..MaxTokens : [at |-> "row", token |-> t, held |-> request[r].held] \in JobType
  BY <1>2 DEF JobType
<1> DEFINE i == issued[request[r].grant]
<1>4. i \in 0..MaxTokens
  BY <1>1
<1>5. \/ Save(r, 0) /\ issued' = issued
      \/ /\ i < MaxTokens /\ Save(r, i + 1)
         /\ issued' = [issued EXCEPT ![request[r].grant] = i + 1]
  BY DEF Refresh
<1>6. \E t \in 0..MaxTokens :
        /\ Save(r, t)
        /\ \/ t = 0 /\ issued' = issued
           \/ t = i + 1 /\ issued' = [issued EXCEPT ![request[r].grant] = t]
  <2>1. CASE Save(r, 0) /\ issued' = issued
    <3>1. 0 \in 0..MaxTokens
      BY OAuthAssumption
    <3>2. QED
      BY <2>1, <3>1
  <2>2. CASE /\ i < MaxTokens /\ Save(r, i + 1)
             /\ issued' = [issued EXCEPT ![request[r].grant] = i + 1]
    <3>1. i + 1 \in 0..MaxTokens
      BY <1>4, <2>2, OAuthAssumption
    <3> HIDE DEF i
    <3>2. QED
      BY <2>2, <3>1
  <2>3. QED
    BY <1>5, <2>1, <2>2
<1> HIDE DEF i
<1>7. PICK t \in 0..MaxTokens :
        /\ Save(r, t)
        /\ \/ t = 0 /\ issued' = issued
           \/ t = i + 1 /\ issued' = [issued EXCEPT ![request[r].grant] = t]
  BY <1>6
<1>8. jobs' = [jobs EXCEPT ![request[r].acc] =
                 @ \cup {[at |-> "row", token |-> t, held |-> request[r].held]}]
  BY <1>7 DEF Save
<1>9. jobs' \in [Accounts -> SUBSET JobType]
  BY <1>1, <1>3, <1>8
<1>10. QED
  BY <1>1, <1>7, <1>8, <1>9 DEF i

LEMMA CInvInit == ASSUME Init PROVE CInv
<1>1. NoRequest \in RequestType /\ NoRequest.at = "idle"
  BY OAuthAssumption DEF NoRequest, RequestType
<1>2. Types
  BY <1>1, OAuthAssumption DEF Init, CredentialsInit, Types, Stored
<1>3. Rooted /\ Flying
  BY <1>1, OAuthAssumption DEF Init, CredentialsInit, Rooted, Flying
<1>4. QED
  BY <1>2, <1>3 DEF CInv

LEMMA CInvStep == ASSUME SInv, CInv, [Next]_vars PROVE CInv'
<1> USE DEF CInv
<1>1. ASSUME NEW r \in Requests, NEW a \in Accounts, FindExpired(r, a)
      PROVE  CInv'
  <2>1. UNCHANGED <<issued, row, memory, copy, flights, jobs, lost>>
        /\ memory[a] # None /\ request[r].at = "idle"
    BY <1>1 DEF FindExpired, stores
  <2>2. Types'
    BY <1>1, <2>1, FindStep DEF Types
  <2>3. memory[a].grant \in Grants
    BY <1>1, FindStep DEF Tokens
  <2>4. Rooted' /\ Flying'
    BY <1>1, <2>1, <2>3, FindStep, OAuthAssumption DEF Types, Rooted, Flying
  <2>5. QED
    BY <2>2, <2>4
<1>2. ASSUME NEW r \in Requests, Do(r)
      PROVE  CInv'
  <2>1. UNCHANGED <<issued, row, memory, copy, jobs, lost>> /\ request[r].at = "expired"
    BY <1>2 DEF Do, stores
  <2>2. flights' \in [Accounts -> Requests \cup {None}]
    BY <1>2, DoStep DEF Types
  <2>3. Types'
    BY <1>2, <2>1, <2>2, DoStep DEF Types
  <2>4. Rooted'
    BY <1>2, <2>1, DoStep DEF Types, Rooted
  <2>5. Flying'
    BY <1>2, <2>1, DoStep, OAuthAssumption DEF Types, Flying
  <2>6. QED
    BY <2>3, <2>4, <2>5
<1>3. ASSUME NEW r \in Requests, Refresh(r) \/ RefreshFails(r)
      PROVE  CInv'
  <2>1. UNCHANGED <<row, memory, copy, flights>> /\ request[r].at = "refreshing"
    BY <1>3 DEF Refresh, RefreshFails, stores
  <2>2. /\ issued' \in [Grants -> 0..MaxTokens]
        /\ jobs' \in [Accounts -> SUBSET JobType]
        /\ lost' \subseteq Accounts
    <3>1. request[r].acc \in Accounts /\ request[r].grant \in Grants
      BY <2>1 DEF Rooted
    <3>2. CASE Refresh(r)
      BY <3>2, RefreshStep DEF Refresh, Types
    <3>3. CASE RefreshFails(r)
      BY <3>1, <3>3, OAuthAssumption DEF RefreshFails, Types
    <3>4. QED
      BY <1>3, <3>2, <3>3
  <2>3. Types'
    BY <1>3, <2>1, <2>2, AnswerStep DEF Types
  <2>4. \A a \in Accounts : \A j \in jobs'[a] :
          j \in jobs[a] \/ (a = request[r].acc /\ j.held = request[r].held)
    <3>1. CASE Refresh(r)
      BY <3>1, RefreshStep DEF Types
    <3>2. CASE RefreshFails(r)
      BY <3>2 DEF RefreshFails
    <3>3. QED
      BY <1>3, <3>1, <3>2
  <2>5. Rooted'
    BY <1>3, <2>1, <2>4, AnswerStep DEF Rooted
  <2>6. Flying'
    BY <1>3, <2>1, AnswerStep DEF Types, Flying
  <2>7. QED
    BY <2>3, <2>5, <2>6
<1>4. ASSUME NEW r \in Requests, Return(r)
      PROVE  CInv'
  <2>1. /\ UNCHANGED <<issued, row, memory, copy, jobs, lost>> /\ request[r].at = "returning"
        /\ flights' = [flights EXCEPT ![request[r].acc] = None]
    BY <1>4 DEF Return, stores
  <2>2. Types'
    BY <1>4, <2>1, ReturnStep DEF Types
  <2>3. Rooted'
    BY <1>4, <2>1, ReturnStep DEF Rooted
  <2>4. Flying'
    BY <1>4, <2>1, ReturnStep DEF Types, Flying
  <2>5. QED
    BY <2>2, <2>3, <2>4
<1>5. ASSUME NEW a \in Accounts, NEW j \in jobs[a], SaveRow(a, j)
      PROVE  CInv'
  <2>1. UNCHANGED <<issued, memory, copy, flights, request, lost>>
    BY <1>5 DEF SaveRow
  <2>2. Types' /\ Flying'
    BY <1>5, <2>1, SaveRowStep DEF Types, Flying
  <2>3. Rooted'
    <3>1. \A b \in Accounts : row[b] # None => row'[b] # None
      BY <1>5, SaveRowStep
    <3>2. row[a] # None /\ j.held => memory[a] # None
      BY DEF Rooted
    <3>3. \A b \in Accounts : \A k \in jobs'[b] : row[b] # None /\ (k.held => memory[b] # None)
      <4>1. \A b \in Accounts \ {a} : jobs'[b] = jobs[b]
        BY <1>5, SaveRowStep
      <4>2. ASSUME NEW k \in jobs'[a]
            PROVE  k \in jobs[a] \/ (k.held => j.held)
        <5> DEFINE m == [j EXCEPT !.at = "memory"]
        <5>1. jobs'[a] = (jobs[a] \ {j}) \cup {m} /\ m.held = j.held
          BY <1>5, SaveRowStep
        <5> HIDE DEF m
        <5>2. CASE k = m
          BY <5>1, <5>2
        <5>3. CASE k # m
          BY <5>1, <5>3
        <5>4. QED
          BY <5>2, <5>3
      <4>3. QED
        BY <3>2, <4>1, <4>2 DEF Rooted
    <3>4. QED
      BY <2>1, <3>1, <3>3 DEF Rooted
  <2>4. QED
    BY <2>2, <2>3
<1>6. ASSUME NEW a \in Accounts, NEW j \in jobs[a], SaveRowFails(a, j)
      PROVE  CInv'
  BY <1>6 DEF SaveRowFails, Types, Rooted, Flying, stores
<1>7. ASSUME NEW a \in Accounts, NEW j \in jobs[a], SaveMemory(a, j)
      PROVE  CInv'
  <2>1. UNCHANGED <<issued, row, copy, flights, request, lost>>
    BY <1>7 DEF SaveMemory
  <2>2. Types' /\ Flying'
    BY <1>7, <2>1, SaveMemoryStep DEF Types, Flying
  <2>3. \A b \in Accounts : jobs'[b] \subseteq jobs[b]
    BY <1>7, SaveMemoryStep DEF Types
  <2>4. Rooted'
    BY <1>7, <2>1, <2>3, SaveMemoryStep DEF Rooted, SameTokens
  <2>5. QED
    BY <2>2, <2>4
<1>8. ASSUME NEW a \in Accounts, Expire(a)
      PROVE  CInv'
  <2>1. UNCHANGED <<issued, flights, request, jobs, lost>>
    BY <1>8 DEF Expire, relayVars
  <2>2. Types' /\ Flying'
    BY <1>8, <2>1, ExpireStep DEF Types, Flying
  <2>3. Rooted'
    BY <1>8, <2>1, ExpireStep DEF Rooted, SameTokens
  <2>4. QED
    BY <2>2, <2>3
<1>9. ASSUME NEW g \in Grants, ExchangeOAuthCode(g)
      PROVE  CInv'
  <2>1. UNCHANGED <<row, memory, copy, flights, request, jobs, lost>>
        /\ (issued' = issued \/ issued' = [issued EXCEPT ![g] = 1])
    BY <1>9 DEF ExchangeOAuthCode, stores, relayVars
  <2>2. Types'
    BY <2>1, OAuthAssumption DEF Types
  <2>3. QED
    BY <2>1, <2>2 DEF Rooted, Flying
<1>10. ASSUME NEW e \in Editors, CreateAccount(e)
      PROVE  CInv'
  <2>1. UNCHANGED <<issued, memory, copy, flights, request, jobs, lost>>
    BY <1>10 DEF CreateAccount, relayVars
  <2>2. \A a \in Accounts : row[a] # None => row'[a] # None
    BY <1>10, CreateStep
  <2>3. Types' /\ Flying'
    BY <1>10, <2>1, CreateStep DEF Types, Flying
  <2>4. Rooted'
    BY <2>1, <2>2 DEF Rooted
  <2>5. QED
    BY <2>3, <2>4
<1>11. ASSUME NEW e \in Editors, ReadAccounts(e)
      PROVE  CInv'
  <2>1. UNCHANGED <<issued, row, memory, flights, request, jobs, lost>>
        /\ copy' = [copy EXCEPT ![e] = row]
    BY <1>11 DEF ReadAccounts, relayVars
  <2>2. Types' /\ Flying'
    BY <2>1 DEF Types, Flying
  <2>3. Rooted'
    BY <2>1 DEF Types, Rooted
  <2>4. QED
    BY <2>2, <2>3
<1>12. ASSUME NEW e \in Editors, SetPool(e)
      PROVE  CInv'
  <2>1. UNCHANGED <<issued, row, flights, lost>>
    BY <1>12 DEF SetPool
  <2>2. Types'
    BY <1>12, <2>1, SetPoolStep DEF Types
  <2>3. Flying'
    <3>1. \A r \in Requests : request'[r].at = request[r].at /\ request'[r].acc = request[r].acc
      BY <1>12, SetPoolStep
    <3>2. \A a \in Accounts : flights[a] # None => flights[a] \in Requests
      BY DEF Types
    <3>3. QED
      BY <2>1, <3>1, <3>2 DEF Flying
  <2>4. \A a \in Accounts : memory'[a] # None => row[a] # None
    BY <1>12, SetPoolStep DEF Rooted
  <2>5. \A f \in Editors : copy'[f] # None => copy'[f] = copy[f]
    BY <1>12, SetPoolStep DEF Types
  <2>6. \A a \in Accounts : \A k \in jobs'[a] : ~k.held /\ \E j \in jobs[a] : TRUE
    BY <1>12, SetPoolStep
  <2>7. Rooted'
    <3>1. \A a \in Accounts :
            /\ memory'[a] # None => row'[a] # None
            /\ \A f \in Editors : copy'[f] # None /\ copy'[f][a] # None => row'[a] # None
            /\ \A k \in jobs'[a] : row'[a] # None /\ (k.held => memory'[a] # None)
      BY <2>1, <2>4, <2>5, <2>6 DEF Rooted
    <3>2. \A r \in Requests : request'[r].at \in {"expired", "refreshing"} =>
            /\ request'[r].acc \in Accounts /\ request'[r].grant \in Grants
            /\ row'[request'[r].acc] # None
            /\ request'[r].held => memory'[request'[r].acc] # None
      BY <1>12, <2>1, SetPoolStep DEF Rooted
    <3>3. QED
      BY <3>1, <3>2 DEF Rooted
  <2>8. QED
    BY <2>2, <2>3, <2>7
<1>13. CASE RestartCredentials
  <2>1. NoRequest \in RequestType /\ NoRequest.at = "idle"
    BY OAuthAssumption DEF NoRequest, RequestType
  <2>2. UNCHANGED <<issued, row>> /\ memory' = row /\ jobs' = [a \in Accounts |-> {}]
        /\ copy' = [e \in Editors |-> None] /\ flights' = [a \in Accounts |-> None]
        /\ request' = [r \in Requests |-> NoRequest] /\ lost' \subseteq lost \cup Accounts
    BY <1>13 DEF RestartCredentials
  <2>3. Types'
    BY <2>1, <2>2 DEF Types
  <2>4. Rooted' /\ Flying'
    BY <2>1, <2>2 DEF Rooted, Flying
  <2>5. QED
    BY <2>3, <2>4
<1>14. CASE UNCHANGED credentialVars
  BY <1>14 DEF credentialVars, stores, relayVars, Types, Rooted, Flying
<1>15. QED
  <2>1. CASE Credentialed
    BY <2>1, <1>1, <1>2, <1>3, <1>4, <1>5, <1>6, <1>7 DEF Credentialed
  <2>2. ASSUME NEW a \in Accounts, ExpireLate(a)
        PROVE  CInv'
    BY <2>2, <1>8 DEF ExpireLate
  <2>3. CASE Onboarding
    <3>1. ASSUME NEW e \in Editors, RefreshPool(e)
          PROVE  CInv'
      BY <3>1, <1>11, <1>12 DEF RefreshPool
    <3>2. QED
      BY <2>3, <3>1, <1>9, <1>10, <1>14
         DEF Onboarding, StartOAuth, GrowOld, OAuthStatus, CompleteOAuthSession, OAuthCallback,
             BindOAuthAccount, LookUp, MarkBound, EditAccount
  <2>4. CASE Restart
    BY <2>4, <1>13 DEF Restart
  <2>5. CASE UNCHANGED vars
    BY <2>5, <1>14 DEF vars
  <2>6. QED
    BY <2>1, <2>2, <2>3, <2>4, <2>5 DEF Next

(* Type invariant. *)
THEOREM OAuthTypeOK == Spec => []TypeOK
<1> DEFINE Inv == SInv /\ CInv
<1>1. Init => Inv
  BY SInvInit, CInvInit
<1>2. Inv /\ [Next]_vars => Inv'
  BY SInvStep, CInvStep
<1>3. ASSUME Inv PROVE TypeOK
  <2>1. ASSUME NEW r \in Requests
        PROVE  request[r].at \in {"refreshing", "returning"} <=> \E a \in Accounts : flights[a] = r
    BY <1>3, OAuthAssumption DEF CInv, Types, Flying
  <2>2. \A a \in Accounts : jobs[a] \subseteq [at : {"row", "memory"}, token : 0..MaxTokens,
                                              held : BOOLEAN]
    BY <1>3 DEF CInv, Types, JobType
  <2>3. \A e \in Editors : copy[e] = None \/ copy[e] \in [Accounts -> Stored]
    BY <1>3 DEF CInv, Types
  <2>4. QED
    BY <1>3, <2>1, <2>2, <2>3 DEF CInv, Types, SInv, SessionTypes, Equipped, TypeOK
<1>4. QED
  BY <1>1, <1>2, <1>3, PTL DEF Spec

(* No two requests refresh one account at once, whichever objects of it    *)
(* they hold (account_refresh.go:34-37).                                   *)
THEOREM OAuthRefreshedAlone == Spec => []RefreshedAlone
<1> DEFINE Inv == SInv /\ CInv
<1>1. Init => Inv
  BY SInvInit, CInvInit
<1>2. Inv /\ [Next]_vars => Inv'
  BY SInvStep, CInvStep
<1>3. Inv => RefreshedAlone
  BY DEF CInv, Flying, RefreshedAlone
<1>4. QED
  BY <1>1, <1>2, <1>3, PTL DEF Spec

----------------------------------------------------------------------------
(* Tokens.  Whatever is kept of an account has the grant of its row, and   *)
(* no token that the provider has not issued.                              *)

Latest(a) == issued[row[a].grant]

Behind(x, a) == x # None => x.grant = row[a].grant /\ x.token <= Latest(a)

HInv ==
  /\ \A a \in Accounts :
       /\ Behind(row[a], a) /\ Behind(memory[a], a)
       /\ \A e \in Editors : copy[e] # None => Behind(copy[e][a], a)
       /\ \A j \in jobs[a] : j.at = "row" => j.token <= Latest(a)
  /\ \A r \in Requests : request[r].at \in {"expired", "refreshing"} =>
       /\ request[r].grant = row[request[r].acc].grant
       /\ request[r].token <= issued[request[r].grant]

(* A grant is known only after its callback, has been issued a token by    *)
(* then, and no second one before an account has it.                       *)
Known(g) == \/ \E s \in States : sessions[s].grant = g
            \/ \E e \in Editors : editor[e].grant = g
            \/ \E a \in Accounts : row[a] # None /\ row[a].grant = g

GInv ==
  \A g \in Grants :
    /\ callback[g].at \in {"idle", "exchanging"} => ~Known(g)
    /\ Known(g) \/ callback[g].grant = g => issued[g] >= 1
    /\ issued[g] > 1 => \E a \in Accounts : row[a] # None /\ row[a].grant = g

LEMMA TokenTypes ==
  ASSUME CInv
  PROVE  /\ \A g \in Grants : issued[g] \in Nat
         /\ \A a \in Accounts :
              /\ row[a] # None => row[a].grant \in Grants /\ row[a].token \in Nat
              /\ memory[a] # None => memory[a].grant \in Grants /\ memory[a].token \in Nat
              /\ \A e \in Editors : copy[e] # None /\ copy[e][a] # None =>
                   copy[e][a].grant \in Grants /\ copy[e][a].token \in Nat
              /\ \A j \in jobs[a] : j.token \in Nat
              /\ \A j \in jobs[a] : row[a] # None
         /\ \A r \in Requests : request[r].token \in Nat
<1> USE DEF CInv, Types
<1>1. \A x \in Stored : x # None => x.grant \in Grants /\ x.token \in Nat
  BY DEF Stored, Tokens
<1>2. \A g \in Grants : issued[g] \in Nat
  BY OAuthAssumption
<1>3. \A e \in Editors, a \in Accounts : copy[e] # None => copy[e][a] \in Stored
  BY OAuthAssumption
<1>4. \A j \in JobType : j.token \in Nat
  BY DEF JobType
<1>5. \A r \in RequestType : r.token \in Nat
  BY DEF RequestType
<1>6. QED
  BY <1>1, <1>2, <1>3, <1>4, <1>5 DEF Rooted

(* What a step does to what is issued, and to what is known. *)
LEMMA IssuedStep ==
  ASSUME SInv, CInv, HInv, [Next]_vars, NEW g \in Grants
  PROVE  \/ issued'[g] = issued[g]
         \/ callback[g].at = "exchanging" /\ issued'[g] = 1
         \/ issued'[g] = issued[g] + 1 /\ \E a \in Accounts : row[a] # None /\ row[a].grant = g
<1> USE DEF CInv, Types
<1>1. ASSUME NEW r \in Requests, Refresh(r) \/ RefreshFails(r)
      PROVE  \/ issued'[g] = issued[g]
             \/ issued'[g] = issued[g] + 1 /\ \E a \in Accounts : row[a] # None /\ row[a].grant = g
  <2>1. /\ request[r].at = "refreshing" /\ request[r].acc \in Accounts /\ request[r].grant \in Grants
        /\ row[request[r].acc] # None /\ row[request[r].acc].grant = request[r].grant
    BY <1>1 DEF Refresh, RefreshFails, Rooted, HInv
  <2>2. \/ issued' = issued
        \/ issued' = [issued EXCEPT ![request[r].grant] = @ + 1]
    BY <1>1 DEF Refresh, RefreshFails
  <2>3. QED
    BY <2>1, <2>2
<1>2. ASSUME NEW h \in Grants, ExchangeOAuthCode(h)
      PROVE  issued'[g] = issued[g] \/ (callback[g].at = "exchanging" /\ issued'[g] = 1)
  BY <1>2 DEF ExchangeOAuthCode
<1>3. CASE issued' = issued
  BY <1>3
<1>4. QED
  <2>1. CASE Onboarding
    BY <2>1, <1>2, <1>3
       DEF Onboarding, StartOAuth, GrowOld, OAuthStatus, CompleteOAuthSession, OAuthCallback,
           BindOAuthAccount, LookUp, CreateAccount, MarkBound, EditAccount, RefreshPool,
           ReadAccounts, SetPool, credentialVars
  <2>2. CASE Credentialed
    BY <2>2, <1>1, <1>3
       DEF Credentialed, FindExpired, Do, Return, SaveRow, SaveRowFails, SaveMemory
  <2>3. ASSUME NEW a \in Accounts, ExpireLate(a)
        PROVE  issued' = issued
    BY <2>3 DEF ExpireLate, Expire
  <2>4. CASE Restart
    BY <2>4, <1>3 DEF Restart, RestartCredentials
  <2>5. CASE UNCHANGED vars
    BY <2>5, <1>3 DEF vars, credentialVars
  <2>6. QED
    BY <2>1, <2>2, <2>3, <2>4, <2>5, <1>3 DEF Next

LEMMA KnownStep ==
  ASSUME SInv, CInv, [Next]_vars, NEW g \in Grants
  PROVE  /\ Known(g)' => \/ Known(g)
                         \/ callback[g].grant = g /\ callback'[g].at = "done"
         /\ callback'[g].at \in {"idle", "exchanging"} => callback[g].at \in {"idle", "exchanging"}
         /\ callback'[g].grant = g => callback[g].grant = g \/ issued'[g] = 1
         /\ \A a \in Accounts : row[a] # None => row'[a] # None /\ row'[a].grant = row[a].grant
<1> DEFINE
      Sessions == \A s \in States : sessions'[s].grant \in {sessions[s].grant, None}
      Calls    == \A e \in Editors : editor'[e].grant \in {editor[e].grant, None}
      Back     == \A h \in Grants :
                    /\ callback'[h].at \in {"idle", "exchanging"} => callback[h].at \in {"idle", "exchanging"}
                    /\ callback'[h].grant \in {callback[h].grant, None}
      Rows     == \A a \in Accounts : SameTokens(row[a], row'[a])
      Grows    == \A a \in Accounts : row[a] # None => row'[a] # None /\ row'[a].grant = row[a].grant
      Goal     == /\ Known(g)' => Known(g) \/ (callback[g].grant = g /\ callback'[g].at = "done")
                  /\ callback'[g].at \in {"idle", "exchanging"} => callback[g].at \in {"idle", "exchanging"}
                  /\ callback'[g].grant = g => callback[g].grant = g \/ issued'[g] = 1
                  /\ Grows
<1>1. g # None
  BY OAuthAssumption
<1>2. ASSUME Sessions, Calls, Back, \A a \in Accounts : row'[a] # None =>
                                      row[a] # None /\ row'[a].grant = row[a].grant, Grows
      PROVE  Goal
  BY <1>1, <1>2 DEF Known
<1>3. ASSUME Sessions, Calls, Back, row' = row
      PROVE  Goal
  BY <1>2, <1>3
<1>4. Pruned \in [States -> SessionType] /\ \A s \in States : Pruned[s].grant \in {sessions[s].grant, None}
  BY PrunedType DEF Gone, NoSession
<1>5. ASSUME NEW s \in States, StartOAuth(s) \/ GrowOld(s)
      PROVE  Goal
  <2>1. sessions' = [Pruned EXCEPT ![s].status = "pending"] \/ sessions' = [sessions EXCEPT ![s].old = TRUE]
    BY <1>5 DEF StartOAuth, GrowOld
  <2>2. \A x \in SessionType : /\ [x EXCEPT !.status = "pending"].grant = x.grant
                               /\ [x EXCEPT !.old = TRUE].grant = x.grant
    BY DEF SessionType
  <2>3. sessions \in [States -> SessionType]
    BY DEF SInv, SessionTypes
  <2>4. \A t \in States : \/ sessions'[t] = sessions[t] \/ sessions'[t] = Pruned[t]
                          \/ sessions'[t] = [Pruned[t] EXCEPT !.status = "pending"]
                          \/ sessions'[t] = [sessions[t] EXCEPT !.old = TRUE]
    BY <1>4, <2>1, <2>3
  <2>5. \A t \in States : sessions'[t].grant \in {sessions[t].grant, Pruned[t].grant}
    BY <1>4, <2>2, <2>3, <2>4
  <2>6. Sessions
    BY <1>4, <2>5
  <2>7. QED
    BY <1>3, <1>5, <2>6 DEF StartOAuth, GrowOld, credentialVars, stores
<1>6. CASE OAuthStatus
  BY <1>3, <1>4, <1>6 DEF OAuthStatus, credentialVars, stores
<1>7. ASSUME NEW h \in Grants, ExchangeOAuthCode(h)
      PROVE  Goal
  BY <1>1, <1>7 DEF ExchangeOAuthCode, stores, SInv, SessionTypes, CallbackType, Known, CInv, Types
<1>8. ASSUME NEW h \in Grants, CompleteOAuthSession(h)
      PROVE  Goal
  <2>1. /\ callback[h].state \in States /\ callback[h].grant \in {None, h}
        /\ sessions \in [States -> SessionType] /\ callback \in [Grants -> CallbackType]
    BY <1>8 DEF CompleteOAuthSession, SInv, SessionTypes, Equipped
  <2>2. \A s \in States : \/ sessions'[s].grant = sessions[s].grant
                          \/ sessions'[s].grant = h /\ callback[h].grant = h
    BY <1>8, <2>1 DEF CompleteOAuthSession, SessionType
  <2>3. /\ callback'[h].at = "done" /\ callback'[h].grant = None
        /\ \A k \in Grants \ {h} : callback'[k] = callback[k]
    BY <1>8, <2>1 DEF CompleteOAuthSession, NoCallback
  <2>4. editor' = editor /\ row' = row
    BY <1>8 DEF CompleteOAuthSession, credentialVars, stores
  <2>5. QED
    BY <1>1, <2>2, <2>3, <2>4 DEF Known
<1>9. ASSUME NEW h \in Grants, NEW s \in States, OAuthCallback(h, s)
      PROVE  Goal
  <2>1. Back
    BY <1>9 DEF OAuthCallback, SInv, SessionTypes, CallbackType
  <2>2. QED
    BY <1>3, <1>4, <1>9, <2>1 DEF OAuthCallback, credentialVars, stores
<1>10. ASSUME NEW e \in Editors, NEW s \in States, BindOAuthAccount(e, s)
       PROVE  Goal
  <2>1. \A d \in Editors : editor'[d].grant \in {editor[d].grant, Pruned[s].grant}
    BY <1>10 DEF BindOAuthAccount, LookUp, SInv, SessionTypes
  <2>2. \A t \in States : sessions'[t].grant \in {sessions[t].grant, None}
    BY <1>4, <1>10 DEF BindOAuthAccount, LookUp
  <2>3. callback' = callback /\ row' = row
    BY <1>10 DEF BindOAuthAccount, LookUp, credentialVars, stores
  <2>4. QED
    BY <1>1, <1>4, <2>1, <2>2, <2>3 DEF Known
<1>11. ASSUME NEW e \in Editors, CreateAccount(e)
       PROVE  Goal
  <2>1. editor \in [Editors -> EditorType]
    BY DEF SInv, SessionTypes
  <2>2. Calls
    BY <1>11, <2>1 DEF CreateAccount, EditorType, NoEditor
  <2>3. sessions' = sessions /\ callback' = callback
    BY <1>11 DEF CreateAccount
  <2>4. Grows /\ \A a \in Accounts : row'[a] # None /\ row'[a].grant = g =>
                   (row[a] # None /\ row[a].grant = g) \/ editor[e].grant = g
    BY <1>11, CreateStep
  <2>5. QED
    BY <1>1, <2>2, <2>3, <2>4 DEF Known
<1>12. ASSUME NEW e \in Editors, MarkBound(e)
       PROVE  Goal
  <2>1. Sessions
    BY <1>12 DEF MarkBound, SInv, SessionTypes, SessionType
  <2>2. Calls
    BY <1>12 DEF MarkBound, NoEditor, SInv, SessionTypes
  <2>3. QED
    BY <1>3, <1>12, <2>1, <2>2 DEF MarkBound, credentialVars, stores
<1>13. ASSUME NEW e \in Editors, EditAccount(e) \/ RefreshPool(e)
       PROVE  Goal
  <2>1. Calls
    BY <1>13 DEF EditAccount, RefreshPool, NoEditor, SInv, SessionTypes, EditorType
  <2>2. sessions' = sessions /\ callback' = callback /\ row' = row
    BY <1>13 DEF EditAccount, RefreshPool, ReadAccounts, SetPool, credentialVars, stores
  <2>3. QED
    BY <1>3, <2>1, <2>2
<1>14. CASE Restart
  <2>1. Sessions
    BY <1>14 DEF Restart, Gone, NoSession
  <2>2. Calls
    BY <1>14 DEF Restart, NoEditor
  <2>3. Back
    BY <1>14 DEF Restart, NoCallback, SInv, SessionTypes, CallbackType
  <2>4. QED
    BY <1>3, <1>14, <2>1, <2>2, <2>3 DEF Restart, RestartCredentials
<1>15. CASE UNCHANGED sessionVars /\ row' = row
  BY <1>3, <1>15 DEF sessionVars
<1>16. ASSUME NEW a \in Accounts, NEW j \in jobs[a], SaveRow(a, j), UNCHANGED sessionVars
       PROVE  Goal
  <2>1. \A b \in Accounts : /\ row[b] # None <=> row'[b] # None
                            /\ row[b] # None => row'[b].grant = row[b].grant
    BY <1>16, SaveRowStep
  <2>2. QED
    BY <1>2, <1>16, <2>1 DEF sessionVars
<1>17. ASSUME NEW a \in Accounts, Expire(a), UNCHANGED sessionVars
       PROVE  Goal
  <2>1. \A b \in Accounts : /\ row[b] # None <=> row'[b] # None
                            /\ row[b] # None => row'[b].grant = row[b].grant
    BY <1>17, ExpireStep DEF SameTokens
  <2>2. QED
    BY <1>2, <1>17, <2>1 DEF sessionVars
<1>18. QED
  <2>1. CASE Onboarding
    BY <2>1, <1>5, <1>6, <1>7, <1>8, <1>9, <1>10, <1>11, <1>12, <1>13 DEF Onboarding
  <2>2. CASE Credentialed /\ UNCHANGED sessionVars
    BY <2>2, <1>15, <1>16
       DEF Credentialed, FindExpired, Do, Refresh, RefreshFails, Return, SaveRowFails, SaveMemory, stores
  <2>3. CASE (\E a \in Accounts : ExpireLate(a)) /\ UNCHANGED sessionVars
    BY <2>3, <1>17 DEF ExpireLate
  <2>4. CASE UNCHANGED vars
    BY <2>4, <1>15 DEF vars, credentialVars, stores
  <2>5. QED
    BY <2>1, <2>2, <2>3, <2>4, <1>14 DEF Next

LEMMA GInvStep == ASSUME SInv, CInv, HInv, GInv, [Next]_vars PROVE GInv'
<1> SUFFICES ASSUME NEW g \in Grants
             PROVE  /\ callback'[g].at \in {"idle", "exchanging"} => ~Known(g)'
                    /\ Known(g)' \/ callback'[g].grant = g => issued'[g] >= 1
                    /\ issued'[g] > 1 => \E a \in Accounts : row'[a] # None /\ row'[a].grant = g
  BY DEF GInv
<1>1. /\ callback[g].at \in {"idle", "exchanging"} => ~Known(g)
      /\ Known(g) \/ callback[g].grant = g => issued[g] >= 1
      /\ issued[g] > 1 => \E a \in Accounts : row[a] # None /\ row[a].grant = g
      /\ issued[g] \in Nat
  BY TokenTypes DEF GInv
<1>2. \/ issued'[g] = issued[g]
      \/ issued'[g] = 1
      \/ issued'[g] = issued[g] + 1 /\ \E a \in Accounts : row[a] # None /\ row[a].grant = g
  BY IssuedStep
<1>3. /\ Known(g)' => Known(g) \/ (callback[g].grant = g /\ callback'[g].at = "done")
      /\ callback'[g].at \in {"idle", "exchanging"} => callback[g].at \in {"idle", "exchanging"}
      /\ callback'[g].grant = g => callback[g].grant = g \/ issued'[g] = 1
      /\ \A a \in Accounts : row[a] # None => row'[a] # None /\ row'[a].grant = row[a].grant
  BY KnownStep
<1>4. QED
  BY <1>1, <1>2, <1>3

(* The last token of an account's grant is only replaced by a later one.   *)
LEMMA LatestGrows ==
  ASSUME SInv, CInv, HInv, GInv, [Next]_vars, NEW a \in Accounts, row[a] # None
  PROVE  /\ row'[a] # None /\ row'[a].grant = row[a].grant /\ row[a].grant \in Grants
         /\ Latest(a) \in Nat /\ Latest(a)' \in Nat /\ Latest(a)' >= Latest(a)
<1> DEFINE g == row[a].grant
<1>1. g \in Grants /\ issued[g] \in Nat /\ callback[g].at # "exchanging"
  BY TokenTypes DEF GInv, Known
<1>2. row'[a] # None /\ row'[a].grant = g
  BY <1>1, KnownStep
<1>3. issued'[g] = issued[g] \/ issued'[g] = issued[g] + 1
  BY <1>1, IssuedStep
<1>4. QED
  BY <1>1, <1>2, <1>3 DEF Latest

LEMMA HInvStep == ASSUME SInv, CInv, HInv, GInv, [Next]_vars PROVE HInv'
<1>1. \A a \in Accounts : row[a] # None =>
        /\ row'[a] # None /\ row'[a].grant = row[a].grant
        /\ Latest(a) \in Nat /\ Latest(a)' \in Nat /\ Latest(a)' >= Latest(a)
  BY LatestGrows
<1>2. ASSUME NEW a \in Accounts, NEW x, x # None => row[a] # None /\ x.token \in Nat, Behind(x, a)
      PROVE  x # None => x.grant = row'[a].grant /\ x.token <= Latest(a)'
  BY <1>1, <1>2 DEF Behind
<1> DEFINE
      Kept(x, a) == x # None => x.grant = row'[a].grant /\ x.token <= Latest(a)'
      RowsOK     == \A a \in Accounts : Kept(row'[a], a)
      MemoryOK   == \A a \in Accounts : Kept(memory'[a], a)
      CopiesOK   == \A a \in Accounts, e \in Editors : copy'[e] # None => Kept(copy'[e][a], a)
      JobsOK     == \A a \in Accounts : \A j \in jobs'[a] : j.at = "row" => j.token <= Latest(a)'
      RequestsOK == \A r \in Requests : request'[r].at \in {"expired", "refreshing"} =>
                      /\ request'[r].grant = row'[request'[r].acc].grant
                      /\ request'[r].token <= issued'[request'[r].grant]
<1>3. ASSUME RowsOK, MemoryOK, CopiesOK, JobsOK, RequestsOK
      PROVE  HInv'
  BY <1>3 DEF HInv, Behind, Latest
<1>4. /\ row' = row => RowsOK
      /\ memory' = memory => MemoryOK
      /\ copy' = copy => CopiesOK
      /\ (\A a \in Accounts : jobs'[a] \subseteq jobs[a]) => JobsOK
      /\ (\A r \in Requests : request'[r] = request[r] \/ request'[r].at \notin {"expired", "refreshing"})
           => RequestsOK
  <2>1. row' = row => RowsOK
    BY <1>1, TokenTypes DEF HInv, Behind
  <2>2. memory' = memory => MemoryOK
    BY <1>1, TokenTypes DEF HInv, Behind, CInv, Rooted
  <2>3. copy' = copy => CopiesOK
    BY <1>1, TokenTypes DEF HInv, Behind, CInv, Rooted
  <2>4. (\A a \in Accounts : jobs'[a] \subseteq jobs[a]) => JobsOK
    <3> SUFFICES ASSUME \A a \in Accounts : jobs'[a] \subseteq jobs[a],
                        NEW a \in Accounts, NEW j \in jobs'[a], j.at = "row"
                 PROVE  j.token <= Latest(a)'
      OBVIOUS
    <3>1. j \in jobs[a]
      OBVIOUS
    <3>2. row[a] # None /\ j.token \in Nat /\ j.token <= Latest(a)
      BY <3>1, TokenTypes DEF HInv
    <3>3. QED
      BY <1>1, <3>2
  <2>5. (\A r \in Requests : request'[r] = request[r] \/ request'[r].at \notin {"expired", "refreshing"})
           => RequestsOK
    <3> SUFFICES ASSUME NEW r \in Requests, request'[r] = request[r],
                        request[r].at \in {"expired", "refreshing"}
                 PROVE  /\ request'[r].grant = row'[request'[r].acc].grant
                        /\ request'[r].token <= issued'[request'[r].grant]
      OBVIOUS
    <3>1. request[r].acc \in Accounts /\ row[request[r].acc] # None /\ request[r].token \in Nat
      BY TokenTypes DEF CInv, Rooted
    <3>2. QED
      BY <1>1, <3>1 DEF HInv, Latest
  <2>6. QED
    BY <2>1, <2>2, <2>3, <2>4, <2>5
<1> HIDE DEF JobsOK, RequestsOK, RowsOK, MemoryOK, CopiesOK
<1>5. ASSUME NEW r \in Requests, NEW a \in Accounts, FindExpired(r, a)
      PROVE  HInv'
  <2>1. /\ row' = row /\ memory' = memory /\ copy' = copy /\ jobs' = jobs
        /\ memory[a] # None
    BY <1>5 DEF FindExpired, stores
  <2>2. row[a] # None /\ memory[a].grant = row[a].grant /\ memory[a].token <= Latest(a)
        /\ memory[a].token \in Nat
    BY <2>1, TokenTypes DEF HInv, Behind, CInv, Rooted
  <2>3. RequestsOK
    <3> SUFFICES ASSUME NEW q \in Requests, request'[q].at \in {"expired", "refreshing"}
                 PROVE  /\ request'[q].grant = row'[request'[q].acc].grant
                        /\ request'[q].token <= issued'[request'[q].grant]
      BY DEF RequestsOK
    <3>1. CASE q = r
      BY <1>1, <1>5, <2>2, <3>1, FindStep DEF Latest
    <3>2. CASE q # r
      <4>1. request'[q] = request[q]
        BY <1>5, <3>2, FindStep
      <4>2. request[q].acc \in Accounts /\ row[request[q].acc] # None /\ request[q].token \in Nat
        BY <4>1, TokenTypes DEF CInv, Rooted
      <4>3. QED
        BY <1>1, <4>1, <4>2 DEF HInv, Latest
    <3>3. QED
      BY <3>1, <3>2
  <2>4. QED
    BY <1>3, <1>4, <2>1, <2>3
<1>6. ASSUME NEW r \in Requests, Do(r)
      PROVE  HInv'
  <2>1. /\ row' = row /\ memory' = memory /\ copy' = copy /\ jobs' = jobs
        /\ request[r].at = "expired"
    BY <1>6 DEF Do, stores
  <2>2. RequestsOK
    <3> SUFFICES ASSUME NEW q \in Requests, request'[q].at \in {"expired", "refreshing"}
                 PROVE  /\ request'[q].grant = row'[request'[q].acc].grant
                        /\ request'[q].token <= issued'[request'[q].grant]
      BY DEF RequestsOK
    <3>1. /\ request'[q].acc = request[q].acc /\ request'[q].grant = request[q].grant
          /\ request'[q].token = request[q].token /\ request[q].at \in {"expired", "refreshing"}
      BY <1>6, <2>1, DoStep
    <3>2. request[q].acc \in Accounts /\ row[request[q].acc] # None /\ request[q].token \in Nat
      BY <3>1, TokenTypes DEF CInv, Rooted
    <3>3. QED
      BY <1>1, <3>1, <3>2 DEF HInv, Latest
  <2>3. QED
    BY <1>3, <1>4, <2>1, <2>2
<1>7. ASSUME NEW r \in Requests, Refresh(r) \/ RefreshFails(r)
      PROVE  HInv'
  <2>1. row' = row /\ memory' = memory /\ copy' = copy
    BY <1>7 DEF Refresh, RefreshFails, stores
  <2>2. RequestsOK
    BY <1>4, <1>7, AnswerStep
  <2>3. CASE RefreshFails(r)
    BY <1>3, <1>4, <2>1, <2>2, <2>3 DEF RefreshFails
  <2>4. CASE Refresh(r)
    <3> SUFFICES ASSUME NEW a \in Accounts, NEW j \in jobs'[a], j.at = "row"
                 PROVE  j.token <= Latest(a)'
      BY <1>3, <1>4, <2>1, <2>2 DEF JobsOK
    <3>1. CASE j \in jobs[a]
      <4>1. row[a] # None /\ j.token \in Nat /\ j.token <= Latest(a)
        BY <3>1, TokenTypes DEF HInv
      <4>2. QED
        BY <1>1, <4>1
    <3>2. CASE j \notin jobs[a]
      <4>1. PICK t \in 0..MaxTokens :
              /\ jobs' = [jobs EXCEPT ![request[r].acc] =
                            @ \cup {[at |-> "row", token |-> t, held |-> request[r].held]}]
              /\ \/ t = 0 /\ issued' = issued
                 \/ /\ t = issued[request[r].grant] + 1
                    /\ issued' = [issued EXCEPT ![request[r].grant] = t]
        BY <2>4, RefreshStep
      <4>2. /\ request[r].acc \in Accounts /\ request[r].grant \in Grants
            /\ request[r].grant = row[request[r].acc].grant /\ row[request[r].acc] # None
        BY <2>4, RefreshStep DEF HInv, CInv, Rooted
      <4>3. a = request[r].acc /\ j.token = t
        BY <3>2, <4>1, <4>2 DEF CInv, Types
      <4>4. Latest(a)' = issued'[request[r].grant]
        BY <1>1, <4>2, <4>3 DEF Latest
      <4>5. issued'[request[r].grant] >= t
        <5>1. CASE t = 0
          BY <1>1, <4>2, <4>3, <4>4, <5>1
        <5>2. CASE issued' = [issued EXCEPT ![request[r].grant] = t]
          <6>1. issued'[request[r].grant] = t
            BY <4>2, <5>2 DEF CInv, Types
          <6>2. QED
            BY <6>1
        <5>3. QED
          BY <4>1, <5>1, <5>2
      <4>6. QED
        BY <4>3, <4>4, <4>5
    <3>3. QED
      BY <3>1, <3>2
  <2>5. QED
    BY <1>7, <2>3, <2>4
<1>8. ASSUME NEW r \in Requests, Return(r)
      PROVE  HInv'
  <2>1. row' = row /\ memory' = memory /\ copy' = copy /\ jobs' = jobs
    BY <1>8 DEF Return, stores
  <2>2. RequestsOK
    BY <1>4, <1>8, ReturnStep
  <2>3. QED
    BY <1>3, <1>4, <2>1, <2>2
<1>9. ASSUME NEW a \in Accounts, NEW j \in jobs[a], SaveRow(a, j)
      PROVE  HInv'
  <2>1. memory' = memory /\ copy' = copy /\ request' = request
    BY <1>9 DEF SaveRow
  <2>2. RowsOK
    <3>1. ASSUME NEW b \in Accounts, b # a
          PROVE  row'[b] # None => row'[b].token <= Latest(b)'
      BY <1>1, <1>9, <3>1, SaveRowStep, TokenTypes DEF HInv, Behind
    <3>2. row'[a].token <= Latest(a)'
      <4>1. /\ row[a] # None /\ row[a].token \in Nat /\ row[a].token <= Latest(a)
            /\ j.token \in Nat /\ j.at = "row" /\ j.token <= Latest(a)
        BY <1>9, SaveRowStep, TokenTypes DEF HInv, Behind
      <4>2. row'[a].token = row[a].token \/ row'[a].token = j.token
        BY <1>9, SaveRowStep
      <4>3. QED
        BY <1>1, <4>1, <4>2
    <3>3. QED
      BY <3>1, <3>2 DEF RowsOK
  <2>3. JobsOK
    <3> SUFFICES ASSUME NEW b \in Accounts, NEW k \in jobs'[b], k.at = "row"
                 PROVE  k.token <= Latest(b)'
      BY DEF JobsOK
    <3>1. k \in jobs[b]
      <4>1. CASE b # a
        BY <1>9, <4>1, SaveRowStep
      <4>2. CASE b = a
        <5> DEFINE m == [j EXCEPT !.at = "memory"]
        <5>1. jobs'[a] = (jobs[a] \ {j}) \cup {m} /\ m.at = "memory"
          BY <1>9, SaveRowStep
        <5> HIDE DEF m
        <5>2. QED
          BY <4>2, <5>1
      <4>3. QED
        BY <4>1, <4>2
    <3>2. row[b] # None /\ k.token \in Nat /\ k.token <= Latest(b)
      BY <3>1, TokenTypes DEF HInv
    <3>3. QED
      BY <1>1, <3>2
  <2>4. QED
    BY <1>3, <1>4, <2>1, <2>2, <2>3
<1>10. ASSUME NEW a \in Accounts, NEW j \in jobs[a], SaveRowFails(a, j)
       PROVE  HInv'
  <2>1. row' = row /\ memory' = memory /\ copy' = copy /\ request' = request
    BY <1>10 DEF SaveRowFails, stores
  <2>2. \A b \in Accounts : jobs'[b] \subseteq jobs[b]
    BY <1>10 DEF SaveRowFails, CInv, Types
  <2>3. QED
    BY <1>3, <1>4, <2>1, <2>2
<1>11. ASSUME NEW a \in Accounts, NEW j \in jobs[a], SaveMemory(a, j)
       PROVE  HInv'
  <2>1. row' = row /\ copy' = copy /\ request' = request
    BY <1>11 DEF SaveMemory
  <2>2. \A b \in Accounts : jobs'[b] \subseteq jobs[b]
    BY <1>11, SaveMemoryStep DEF CInv, Types
  <2>3. MemoryOK
    BY <1>1, <1>11, SaveMemoryStep, TokenTypes DEF MemoryOK, SameTokens, HInv, Behind, CInv, Rooted
  <2>4. QED
    BY <1>3, <1>4, <2>1, <2>2, <2>3
<1>12. ASSUME NEW a \in Accounts, Expire(a)
       PROVE  HInv'
  <2>1. jobs' = jobs /\ request' = request
    BY <1>12 DEF Expire, relayVars
  <2>2. RowsOK /\ MemoryOK
    BY <1>1, <1>12, ExpireStep, TokenTypes
       DEF RowsOK, MemoryOK, SameTokens, HInv, Behind, CInv, Rooted
  <2>3. CopiesOK
    BY <1>1, <1>12, ExpireStep, TokenTypes DEF CopiesOK, SameTokens, HInv, Behind, CInv, Rooted
  <2>4. QED
    BY <1>3, <1>4, <2>1, <2>2, <2>3
<1>13. ASSUME NEW e \in Editors, CreateAccount(e)
       PROVE  HInv'
  <2>1. memory' = memory /\ copy' = copy /\ request' = request /\ jobs' = jobs /\ issued' = issued
    BY <1>13 DEF CreateAccount, relayVars
  <2>2. RowsOK
    <3> SUFFICES ASSUME NEW b \in Accounts, row'[b] # None
                 PROVE  row'[b].token <= Latest(b)'
      BY DEF RowsOK
    <3>1. CASE row[b] # None
      <4>1. row'[b] = row[b]
        BY <1>13, <3>1, CreateStep
      <4>2. QED
        BY <1>1, <3>1, <4>1, TokenTypes DEF HInv, Behind
    <3>2. CASE row[b] = None
      <4>1. row'[b].grant = editor[e].grant /\ row'[b].token = 1 /\ editor[e].grant \in Grants
        BY <1>13, <3>2, CreateStep
      <4>2. issued[editor[e].grant] >= 1
        BY <4>1 DEF GInv, Known
      <4>3. QED
        BY <2>1, <4>1, <4>2 DEF Latest
    <3>3. QED
      BY <3>1, <3>2
  <2>3. QED
    BY <1>3, <1>4, <2>1, <2>2
<1>14. ASSUME NEW e \in Editors, ReadAccounts(e)
       PROVE  HInv'
  <2>1. row' = row /\ memory' = memory /\ request' = request /\ jobs' = jobs
        /\ copy' = [copy EXCEPT ![e] = row]
    BY <1>14 DEF ReadAccounts, relayVars
  <2>2. CopiesOK
    <3>1. ASSUME NEW a \in Accounts
          PROVE  row[a] # None => row[a].grant = row'[a].grant /\ row[a].token <= Latest(a)'
      BY <1>1, TokenTypes DEF HInv, Behind
    <3>2. ASSUME NEW a \in Accounts, NEW f \in Editors, copy[f] # None, copy[f][a] # None
          PROVE  copy[f][a].grant = row'[a].grant /\ copy[f][a].token <= Latest(a)'
      BY <1>1, <3>2, TokenTypes DEF HInv, Behind, CInv, Rooted
    <3>3. \A f \in Editors : copy'[f] = copy[f] \/ copy'[f] = row
      BY <2>1 DEF CInv, Types
    <3>4. QED
      BY <3>1, <3>2, <3>3 DEF CopiesOK
  <2>3. QED
    BY <1>3, <1>4, <2>1, <2>2
<1>15. ASSUME NEW e \in Editors, SetPool(e)
       PROVE  HInv'
  <2>1. row' = row
    BY <1>15 DEF SetPool
  <2>2. MemoryOK
    BY <1>1, <1>15, SetPoolStep, TokenTypes DEF MemoryOK, HInv, Behind, CInv, Rooted
  <2>3. CopiesOK
    <3>1. \A f \in Editors : copy'[f] = copy[f] \/ copy'[f] = None
      BY <1>15, SetPoolStep DEF CInv, Types
    <3>2. ASSUME NEW a \in Accounts, NEW f \in Editors, copy[f] # None, copy[f][a] # None
          PROVE  copy[f][a].grant = row'[a].grant /\ copy[f][a].token <= Latest(a)'
      BY <1>1, <3>2, TokenTypes DEF HInv, Behind, CInv, Rooted
    <3>3. QED
      BY <3>1, <3>2 DEF CopiesOK
  <2>4. JobsOK
    <3> SUFFICES ASSUME NEW b \in Accounts, NEW k \in jobs'[b], k.at = "row"
                 PROVE  k.token <= Latest(b)'
      BY DEF JobsOK
    <3>1. PICK j \in jobs[b] : k.at = j.at /\ k.token = j.token
      BY <1>15, SetPoolStep
    <3>2. row[b] # None /\ j.token \in Nat /\ j.token <= Latest(b)
      BY <3>1, TokenTypes DEF HInv
    <3>3. QED
      BY <1>1, <3>1, <3>2
  <2>5. RequestsOK
    <3> SUFFICES ASSUME NEW q \in Requests, request'[q].at \in {"expired", "refreshing"}
                 PROVE  /\ request'[q].grant = row'[request'[q].acc].grant
                        /\ request'[q].token <= issued'[request'[q].grant]
      BY DEF RequestsOK
    <3>1. /\ request'[q].acc = request[q].acc /\ request'[q].grant = request[q].grant
          /\ request'[q].token = request[q].token /\ request[q].at \in {"expired", "refreshing"}
      BY <1>15, SetPoolStep
    <3>2. request[q].acc \in Accounts /\ row[request[q].acc] # None /\ request[q].token \in Nat
      BY <3>1, TokenTypes DEF CInv, Rooted
    <3>3. QED
      BY <1>1, <3>1, <3>2 DEF HInv, Latest
  <2>6. QED
    BY <1>3, <1>4, <2>1, <2>2, <2>3, <2>4, <2>5
<1>16. CASE RestartCredentials
  <2>1. UNCHANGED <<issued, row>> /\ memory' = row /\ jobs' = [a \in Accounts |-> {}]
        /\ copy' = [e \in Editors |-> None] /\ request' = [r \in Requests |-> NoRequest]
    BY <1>16 DEF RestartCredentials
  <2>2. RowsOK
    BY <1>4, <2>1
  <2>3. MemoryOK
    BY <2>1, <2>2 DEF MemoryOK, RowsOK
  <2>4. CopiesOK /\ JobsOK /\ RequestsOK
    BY <2>1 DEF CopiesOK, JobsOK, RequestsOK, NoRequest
  <2>5. QED
    BY <1>3, <2>2, <2>3, <2>4
<1>17. CASE UNCHANGED <<stores, request, jobs>>
  BY <1>3, <1>4, <1>17 DEF stores
<1>18. QED
  <2>1. CASE Credentialed
    BY <2>1, <1>5, <1>6, <1>7, <1>8, <1>9, <1>10, <1>11 DEF Credentialed
  <2>2. ASSUME NEW a \in Accounts, ExpireLate(a)
        PROVE  HInv'
    BY <2>2, <1>12 DEF ExpireLate
  <2>3. CASE Onboarding
    <3>1. ASSUME NEW e \in Editors, RefreshPool(e)
          PROVE  HInv'
      BY <3>1, <1>14, <1>15 DEF RefreshPool
    <3>2. QED
      BY <2>3, <3>1, <1>13, <1>17
         DEF Onboarding, StartOAuth, GrowOld, OAuthStatus, ExchangeOAuthCode, CompleteOAuthSession,
             OAuthCallback, BindOAuthAccount, LookUp, MarkBound, EditAccount, credentialVars,
             relayVars
  <2>4. CASE Restart
    BY <2>4, <1>16 DEF Restart
  <2>5. CASE UNCHANGED vars
    BY <2>5, <1>17 DEF vars, credentialVars, relayVars
  <2>6. QED
    BY <2>1, <2>2, <2>3, <2>4, <2>5 DEF Next

----------------------------------------------------------------------------
(* The row.  As long as an account is not lost and has its grant alone, it *)
(* has at most one new token on its way to its row; while there is one,    *)
(* everything else has older ones, so that no refresh can succeed; while   *)
(* there is none, the row has the last.                                    *)

Pending(a) == {j \in jobs[a] : j.at = "row" /\ j.token # 0}

Outdated(a) ==
  /\ row[a].token < Latest(a)
  /\ memory[a] # None => memory[a].token < Latest(a)
  /\ \A e \in Editors : copy[e] # None /\ copy[e][a] # None => copy[e][a].token < Latest(a)
  /\ \A r \in Requests : request[r].at \in {"expired", "refreshing"} /\ request[r].acc = a =>
       request[r].token < Latest(a)

Followed(a) ==
  /\ Pending(a) = {} => row[a].token = Latest(a)
  /\ \A j \in Pending(a) : j.token = Latest(a) /\ Outdated(a) /\ \A k \in Pending(a) : k = j

JInv == \A a \in Accounts : row[a] # None /\ Sole(a) /\ a \notin lost => Followed(a)

LEMMA JInvStep == ASSUME SInv, CInv, HInv, GInv, JInv, [Next]_vars PROVE JInv'
<1> SUFFICES ASSUME NEW a \in Accounts, row'[a] # None, Sole(a)', a \notin lost'
             PROVE  Followed(a)'
  BY DEF JInv
<1>1. lost \subseteq lost'
  BY DEF Next, Onboarding, Credentialed, StartOAuth, GrowOld, OAuthStatus, ExchangeOAuthCode,
     CompleteOAuthSession, OAuthCallback, BindOAuthAccount, LookUp, CreateAccount, MarkBound,
     EditAccount, RefreshPool, ReadAccounts, SetPool, credentialVars, relayVars, FindExpired, Do,
     Refresh, RefreshFails, Return, SaveRow, SaveRowFails, SaveMemory, ExpireLate, Expire, Restart,
     RestartCredentials, vars
<1>2. \A b \in Accounts : row[b] # None => row'[b] # None /\ row'[b].grant = row[b].grant
  BY LatestGrows
<1>3. ASSUME row[a] # None
      PROVE  /\ Followed(a) /\ row'[a].grant = row[a].grant /\ row[a].grant \in Grants
             /\ callback[row[a].grant].at # "exchanging"
             /\ \A b \in Accounts \ {a} : row[b] # None => row[b].grant # row[a].grant
  <2>1. \A b \in Accounts \ {a} : row[b] # None => row[b].grant # row[a].grant
    BY <1>2, <1>3 DEF Sole
  <2>2. row[a].grant \in Grants
    BY <1>3, TokenTypes
  <2>3. QED
    BY <1>1, <1>2, <1>3, <2>1, <2>2 DEF Sole, JInv, GInv, Known
<1> DEFINE
      Pend  == {j \in jobs'[a] : j.at = "row" /\ j.token # 0}
      Older == /\ row'[a].token < Latest(a)
               /\ memory'[a] # None => memory'[a].token < Latest(a)
               /\ \A e \in Editors : copy'[e] # None /\ copy'[e][a] # None =>
                    copy'[e][a].token < Latest(a)
               /\ \A r \in Requests :
                    request'[r].at \in {"expired", "refreshing"} /\ request'[r].acc = a =>
                      request'[r].token < Latest(a)
<1>4. (Latest(a)' = Latest(a) /\ Pend = Pending(a) /\ row'[a].token = row[a].token
         /\ row[a] # None /\ (Outdated(a) => Older)) => Followed(a)'
  <2> SUFFICES ASSUME Latest(a)' = Latest(a), Pend = Pending(a), row'[a].token = row[a].token,
                      row[a] # None, Outdated(a) => Older
               PROVE  Followed(a)'
    OBVIOUS
  <2>1. Pending(a)' = Pend /\ Followed(a)
    BY <1>3 DEF Pending
  <2>2. Outdated(a) => Outdated(a)'
    BY DEF Outdated
  <2>3. QED
    BY <2>1, <2>2 DEF Followed
<1>5. Latest(a)' = issued'[row'[a].grant]
  BY DEF Latest
<1>6. ASSUME NEW r \in Requests, NEW b \in Accounts, FindExpired(r, b)
      PROVE  Followed(a)'
  <2>1. UNCHANGED <<issued, row, memory, copy, jobs>> /\ memory[b] # None
    BY <1>6 DEF FindExpired, stores
  <2>2. Outdated(a) => Older
    BY <1>6, <2>1, FindStep DEF Outdated
  <2>3. QED
    BY <1>4, <2>1, <2>2 DEF Latest, Pending
<1>7. ASSUME NEW r \in Requests, Do(r)
      PROVE  Followed(a)'
  <2>1. UNCHANGED <<issued, row, memory, copy, jobs>> /\ request[r].at = "expired"
    BY <1>7 DEF Do, stores
  <2>2. Outdated(a) => Older
    BY <1>7, <2>1, DoStep DEF Outdated
  <2>3. QED
    BY <1>4, <2>1, <2>2 DEF Latest, Pending
<1>8. ASSUME NEW r \in Requests, Refresh(r) \/ RefreshFails(r)
      PROVE  Followed(a)'
  <2>1. UNCHANGED <<row, memory, copy>> /\ row[a] # None
    BY <1>8 DEF Refresh, RefreshFails, stores
  <2>2. /\ request[r].at = "refreshing" /\ request[r].acc \in Accounts
        /\ request[r].grant \in Grants /\ request[r].grant = row[request[r].acc].grant
        /\ row[request[r].acc] # None
    BY <1>8 DEF Refresh, RefreshFails, HInv, CInv, Rooted
  <2>3. \A q \in Requests : request'[q].at \in {"expired", "refreshing"} => request'[q] = request[q]
    BY <1>8, AnswerStep
  <2>4. Outdated(a) => Older
    BY <2>1, <2>3 DEF Outdated
  <2>5. jobs'[a] = jobs[a] /\ issued'[row[a].grant] = issued[row[a].grant] => Followed(a)'
    BY <1>4, <2>1, <2>4 DEF Latest, Pending
  <2>6. CASE request[r].acc # a
    <3>1. request[r].grant # row[a].grant
      BY <1>3, <2>1, <2>2, <2>6
    <3>2. issued'[row[a].grant] = issued[row[a].grant]
      BY <1>3, <1>8, <2>1, <3>1 DEF Refresh, RefreshFails, CInv, Types
    <3>3. jobs'[a] = jobs[a]
      <4>1. CASE Refresh(r)
        BY <2>2, <2>6, <4>1, RefreshStep DEF CInv, Types
      <4>2. CASE RefreshFails(r)
        BY <4>2 DEF RefreshFails
      <4>3. QED
        BY <1>8, <4>1, <4>2
    <3>4. QED
      BY <2>5, <3>2, <3>3
  <2>7. CASE request[r].acc = a /\ RefreshFails(r)
    BY <2>5, <2>7 DEF RefreshFails
  <2>8. CASE request[r].acc = a /\ Refresh(r)
    <3>1. /\ Latest(a) \in Nat /\ request[r].token = Latest(a) /\ request[r].grant = row[a].grant
          /\ row[a].token \in Nat
      BY <2>1, <2>2, <2>8, RefreshStep, TokenTypes DEF Latest
    <3>2. ~Outdated(a)
      BY <2>2, <2>8, <3>1 DEF Outdated
    <3>3. Pending(a) = {} /\ row[a].token = Latest(a)
      BY <1>3, <2>1, <3>2 DEF Followed
    <3>4. PICK t \in 0..MaxTokens :
            /\ jobs' = [jobs EXCEPT ![a] =
                          @ \cup {[at |-> "row", token |-> t, held |-> request[r].held]}]
            /\ \/ t = 0 /\ issued' = issued
               \/ /\ t = issued[row[a].grant] + 1
                  /\ issued' = [issued EXCEPT ![row[a].grant] = t]
      BY <2>8, <3>1, RefreshStep
    <3> DEFINE m == [at |-> "row", token |-> t, held |-> request[r].held]
    <3>5. m.at = "row" /\ m.token = t
      OBVIOUS
    <3>6. jobs'[a] = jobs[a] \cup {m}
      BY <3>4 DEF CInv, Types
    <3> HIDE DEF m
    <3>7. CASE t = 0
      <4>1. Pend = Pending(a)
        BY <3>5, <3>6, <3>7 DEF Pending
      <4>2. issued' = issued
        BY <3>1, <3>4, <3>7 DEF Latest
      <4>3. QED
        BY <1>4, <2>1, <2>4, <4>1, <4>2 DEF Latest
    <3>8. CASE t # 0
      <4>1. Latest(a)' = t /\ t = Latest(a) + 1
        BY <1>3, <2>1, <3>4, <3>8 DEF Latest, CInv, Types
      <4>2. Pend = {m}
        BY <3>3, <3>5, <3>6, <3>8 DEF Pending
      <4>3. /\ row'[a].token < t
            /\ memory'[a] # None => memory'[a].token < t
            /\ \A e \in Editors : copy'[e] # None /\ copy'[e][a] # None => copy'[e][a].token < t
        BY <2>1, <3>1, <3>3, <4>1, TokenTypes DEF HInv, Behind
      <4>4. ASSUME NEW q \in Requests, request'[q].at \in {"expired", "refreshing"},
                   request'[q].acc = a
            PROVE  request'[q].token < t
        <5>1. /\ request'[q] = request[q] /\ request[q].grant = row[a].grant
              /\ request[q].token <= Latest(a) /\ request[q].token \in Nat
          BY <2>3, <4>4, TokenTypes DEF HInv, Latest
        <5>2. QED
          BY <3>1, <4>1, <5>1
      <4>5. Outdated(a)'
        BY <4>1, <4>3, <4>4 DEF Outdated
      <4>6. Pending(a)' = {m}
        BY <4>2 DEF Pending
      <4>7. QED
        BY <3>5, <4>1, <4>5, <4>6 DEF Followed
    <3>9. QED
      BY <3>7, <3>8
  <2>9. QED
    BY <1>8, <2>6, <2>7, <2>8
<1>9. ASSUME NEW r \in Requests, Return(r)
      PROVE  Followed(a)'
  <2>1. UNCHANGED <<issued, row, memory, copy, jobs>>
    BY <1>9 DEF Return, stores
  <2>2. Outdated(a) => Older
    BY <1>9, <2>1, ReturnStep DEF Outdated
  <2>3. QED
    BY <1>4, <2>1, <2>2 DEF Latest, Pending
<1>10. ASSUME NEW b \in Accounts, NEW j \in jobs[b], SaveRow(b, j)
       PROVE  Followed(a)'
  <2>1. UNCHANGED <<issued, memory, copy, request>>
    BY <1>10 DEF SaveRow
  <2>2. CASE a # b
    <3>1. row'[a] = row[a] /\ jobs'[a] = jobs[a]
      BY <1>10, <2>2, SaveRowStep
    <3>2. Outdated(a) => Older
      BY <2>1, <3>1 DEF Outdated
    <3>3. QED
      BY <1>4, <2>1, <3>1, <3>2 DEF Latest, Pending
  <2>3. CASE a = b
    <3> DEFINE m == [j EXCEPT !.at = "memory"]
    <3>1. /\ jobs'[a] = (jobs[a] \ {j}) \cup {m} /\ m.at = "memory" /\ j.at = "row"
          /\ row[a] # None /\ row'[a].grant = row[a].grant
          /\ row'[a].token = IF j.token = 0 THEN row[a].token ELSE j.token
      BY <1>10, <2>3, SaveRowStep
    <3> HIDE DEF m
    <3>2. Latest(a)' = Latest(a) /\ Pend = Pending(a) \ {j}
      BY <2>1, <3>1 DEF Latest, Pending
    <3>3. CASE j.token = 0
      <4>1. Pend = Pending(a) /\ row'[a].token = row[a].token
        BY <3>1, <3>2, <3>3 DEF Pending
      <4>2. Outdated(a) => Older
        BY <2>1, <4>1 DEF Outdated
      <4>3. QED
        BY <1>4, <3>1, <3>2, <4>1, <4>2
    <3>4. CASE j.token # 0
      <4>1. j \in Pending(a)
        BY <2>3, <3>1, <3>4 DEF Pending
      <4>2. Pending(a) = {j} /\ j.token = Latest(a)
        BY <1>3, <3>1, <4>1 DEF Followed
      <4>3. Pending(a)' = {} /\ row'[a].token = Latest(a)'
        BY <3>1, <3>2, <3>4, <4>2 DEF Pending
      <4>4. QED
        BY <4>3 DEF Followed
    <3>5. QED
      BY <3>3, <3>4
  <2>4. QED
    BY <2>2, <2>3
<1>11. ASSUME NEW b \in Accounts, NEW j \in jobs[b], SaveRowFails(b, j)
       PROVE  Followed(a)'
  <2>1. UNCHANGED <<issued, row, memory, copy, request>>
    BY <1>11 DEF SaveRowFails, stores
  <2>2. a # b \/ j.token = 0
    BY <1>11 DEF SaveRowFails
  <2>3. Pend = Pending(a)
    BY <1>11, <2>2 DEF SaveRowFails, Pending, CInv, Types
  <2>4. Outdated(a) => Older
    BY <2>1 DEF Outdated
  <2>5. QED
    BY <1>4, <2>1, <2>3, <2>4 DEF Latest
<1>12. ASSUME NEW b \in Accounts, NEW j \in jobs[b], SaveMemory(b, j)
       PROVE  Followed(a)'
  <2>1. UNCHANGED <<issued, row, copy, request>> /\ j.at = "memory"
    BY <1>12 DEF SaveMemory
  <2>2. Pend = Pending(a)
    BY <1>12, <2>1, SaveMemoryStep DEF Pending, CInv, Types
  <2>3. Outdated(a) => Older
    BY <1>12, <2>1, SaveMemoryStep DEF Outdated, SameTokens
  <2>4. QED
    BY <1>4, <2>1, <2>2, <2>3 DEF Latest
<1>13. ASSUME NEW b \in Accounts, Expire(b)
       PROVE  Followed(a)'
  <2>1. UNCHANGED <<issued, request, jobs>>
    BY <1>13 DEF Expire, relayVars
  <2>2. row[a] # None /\ row'[a].token = row[a].token
    BY <1>13, ExpireStep DEF SameTokens
  <2>3. Outdated(a) => Older
    BY <1>13, <2>1, <2>2, ExpireStep DEF Outdated, SameTokens
  <2>4. QED
    BY <1>3, <1>4, <2>1, <2>2, <2>3 DEF Latest, Pending
<1>14. ASSUME NEW g \in Grants, ExchangeOAuthCode(g)
       PROVE  Followed(a)'
  <2>1. UNCHANGED <<row, memory, copy, request, jobs>>
    BY <1>14 DEF ExchangeOAuthCode, stores, relayVars
  <2>2. issued'[row[a].grant] = issued[row[a].grant]
    BY <1>3, <1>14, <2>1 DEF ExchangeOAuthCode, CInv, Types
  <2>3. Outdated(a) => Older
    BY <2>1 DEF Outdated
  <2>4. QED
    BY <1>4, <2>1, <2>2, <2>3 DEF Latest, Pending
<1>15. ASSUME NEW e \in Editors, CreateAccount(e)
       PROVE  Followed(a)'
  <2>1. UNCHANGED <<issued, memory, copy, request, jobs>>
    BY <1>15 DEF CreateAccount, relayVars
  <2>2. CASE row[a] # None
    <3>1. row'[a] = row[a]
      BY <1>15, <2>2, CreateStep
    <3>2. Outdated(a) => Older
      BY <2>1, <3>1 DEF Outdated
    <3>3. QED
      BY <1>4, <2>1, <2>2, <3>1, <3>2 DEF Latest, Pending
  <2>3. CASE row[a] = None
    <3> DEFINE g == editor[e].grant
    <3>1. row'[a].grant = g /\ row'[a].token = 1 /\ g \in Grants
      BY <1>15, <2>3, CreateStep
    <3>2. issued[g] \in Nat /\ issued[g] >= 1
      BY <3>1, TokenTypes DEF GInv, Known
    <3>3. ~\E b \in Accounts : row[b] # None /\ row[b].grant = g
      BY <1>2, <2>3, <3>1 DEF Sole
    <3>4. issued[g] = 1
      BY <3>1, <3>2, <3>3 DEF GInv
    <3>5. Pending(a)' = {}
      BY <2>1, <2>3 DEF Pending, CInv, Rooted
    <3>6. QED
      BY <2>1, <3>1, <3>4, <3>5 DEF Followed, Latest
  <2>4. QED
    BY <2>2, <2>3
<1>16. ASSUME NEW e \in Editors, ReadAccounts(e)
       PROVE  Followed(a)'
  <2>1. UNCHANGED <<issued, row, memory, request, jobs>> /\ copy' = [copy EXCEPT ![e] = row]
    BY <1>16 DEF ReadAccounts, relayVars
  <2>2. \A f \in Editors : copy'[f] = copy[f] \/ copy'[f] = row
    BY <2>1 DEF CInv, Types
  <2>3. Outdated(a) => Older
    BY <2>1, <2>2 DEF Outdated
  <2>4. QED
    BY <1>4, <2>1, <2>3 DEF Latest, Pending
<1>17. ASSUME NEW e \in Editors, SetPool(e)
       PROVE  Followed(a)'
  <2>1. UNCHANGED <<issued, row>> /\ row[a] # None /\ Latest(a)' = Latest(a)
    BY <1>17 DEF SetPool, Latest
  <2>2. \A f \in Editors : copy'[f] = copy[f] \/ copy'[f] = None
    BY <1>17, SetPoolStep DEF CInv, Types
  <2>3. Outdated(a) => Outdated(a)'
    BY <1>17, <2>1, <2>2, SetPoolStep DEF Outdated
  <2>4. \A k \in Pending(a)' : \E j \in Pending(a) : /\ k = [j EXCEPT !.held = FALSE]
                                                     /\ k.token = j.token
    BY <1>17, SetPoolStep DEF Pending
  <2>5. Pending(a)' = {} => Pending(a) = {}
    <3>1. ASSUME NEW j \in Pending(a)
          PROVE  [j EXCEPT !.held = FALSE] \in Pending(a)'
      <4>1. j \in jobs[a] /\ j \in JobType /\ j.at = "row" /\ j.token # 0
        BY DEF Pending, CInv, Types
      <4>2. [j EXCEPT !.held = FALSE].at = "row" /\ [j EXCEPT !.held = FALSE].token # 0
        BY <4>1 DEF JobType
      <4>3. [j EXCEPT !.held = FALSE] \in jobs'[a]
        BY <1>17, <4>1, SetPoolStep
      <4>4. QED
        BY <4>2, <4>3 DEF Pending
    <3>2. QED
      BY <3>1
  <2>6. Followed(a)
    BY <1>3, <2>1
  <2>7. Pending(a)' = {} => row'[a].token = Latest(a)'
    BY <2>1, <2>5, <2>6 DEF Followed
  <2>8. ASSUME NEW k \in Pending(a)'
        PROVE  k.token = Latest(a)' /\ Outdated(a)' /\ \A l \in Pending(a)' : l = k
    <3>1. PICK j \in Pending(a) : k = [j EXCEPT !.held = FALSE] /\ k.token = j.token
      BY <2>4
    <3>2. j.token = Latest(a) /\ Outdated(a) /\ \A i \in Pending(a) : i = j
      BY <2>6, <3>1 DEF Followed
    <3>3. \A l \in Pending(a)' : l = [j EXCEPT !.held = FALSE]
      BY <2>4, <3>2
    <3>4. QED
      BY <2>1, <2>3, <3>1, <3>2, <3>3
  <2>9. QED
    BY <2>7, <2>8 DEF Followed
<1>18. CASE RestartCredentials
  <2>1. UNCHANGED <<issued, row>> /\ row[a] # None /\ Latest(a)' = Latest(a)
    BY <1>18 DEF RestartCredentials, Latest
  <2>2. Pending(a) = {}
    BY <1>18 DEF RestartCredentials, Pending
  <2>3. row[a].token = Latest(a)
    BY <1>3, <2>1, <2>2 DEF Followed
  <2>4. Pending(a)' = {}
    BY <1>18 DEF RestartCredentials, Pending
  <2>5. QED
    BY <2>1, <2>3, <2>4 DEF Followed
<1>19. CASE UNCHANGED credentialVars
  <2>1. UNCHANGED <<issued, row, memory, copy, request, jobs>>
    BY <1>19 DEF credentialVars, stores, relayVars
  <2>2. Outdated(a) => Older
    BY <2>1 DEF Outdated
  <2>3. QED
    BY <1>4, <2>1, <2>2 DEF Latest, Pending
<1>20. QED
  <2>1. CASE Credentialed
    BY <2>1, <1>6, <1>7, <1>8, <1>9, <1>10, <1>11, <1>12 DEF Credentialed
  <2>2. ASSUME NEW b \in Accounts, ExpireLate(b)
        PROVE  Followed(a)'
    BY <2>2, <1>13 DEF ExpireLate
  <2>3. CASE Onboarding
    <3>1. ASSUME NEW e \in Editors, RefreshPool(e)
          PROVE  Followed(a)'
      BY <3>1, <1>16, <1>17 DEF RefreshPool
    <3>2. QED
      BY <2>3, <3>1, <1>14, <1>15, <1>19
         DEF Onboarding, StartOAuth, GrowOld, OAuthStatus, CompleteOAuthSession, OAuthCallback,
             BindOAuthAccount, LookUp, MarkBound, EditAccount
  <2>4. CASE Restart
    BY <2>4, <1>18 DEF Restart
  <2>5. CASE UNCHANGED vars
    BY <2>5, <1>19 DEF vars
  <2>6. QED
    BY <2>1, <2>2, <2>3, <2>4, <2>5 DEF Next

(* When no new token of an account is on its way, its row has the last one *)
(* issued, unless that was lost on its way or two accounts share a grant   *)
(* (account_refresh.go:94-121).                                            *)
THEOREM OAuthRowCurrent == Spec => []RowCurrent
<1> DEFINE Inv == SInv /\ CInv /\ HInv /\ GInv /\ JInv
<1>1. Init => Inv
  <2> SUFFICES ASSUME Init
               PROVE  Inv
    OBVIOUS
  <2>1. SInv /\ CInv
    BY SInvInit, CInvInit
  <2>2. HInv /\ JInv
    BY DEF Init, CredentialsInit, HInv, JInv, Behind, NoRequest
  <2>3. GInv
    <3>1. \A g \in Grants : g # None
      BY OAuthAssumption
    <3>2. \A g \in Grants : ~Known(g) /\ callback[g].grant = None /\ issued[g] = 0
      BY <3>1 DEF Init, CredentialsInit, Known, NoSession, NoCallback, NoEditor
    <3>3. QED
      BY <3>1, <3>2 DEF GInv
  <2>4. QED
    BY <2>1, <2>2, <2>3
<1>2. Inv /\ [Next]_vars => Inv'
  BY SInvStep, CInvStep, HInvStep, GInvStep, JInvStep
<1>3. ASSUME Inv PROVE RowCurrent
  <2> SUFFICES ASSUME NEW a \in Accounts, row[a] # None, Sole(a), a \notin lost,
                      \A j \in jobs[a] : j.at # "row" \/ j.token = 0
               PROVE  row[a].token = issued[row[a].grant]
    BY DEF RowCurrent
  <2>1. Pending(a) = {}
    BY DEF Pending
  <2>2. QED
    BY <1>3, <2>1 DEF JInv, Followed, Latest
<1>4. QED
  BY <1>1, <1>2, <1>3, PTL DEF Spec

=============================================================================
