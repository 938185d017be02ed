------------------------------- MODULE OAuth -------------------------------
(***************************************************************************)
(* Accounts with OAuth credentials, from the session an administrator      *)
(* starts, through the provider's callbacks, to the binding of an account  *)
(* (internal/admin/oauth_handler.go); what becomes of its credentials then *)
(* is module Credentials.                                                  *)
(*                                                                         *)
(* A call works on a copy of its session, taken under a lock that is then  *)
(* given up.  A session may be authorized more than once, each time with a *)
(* callback and a code of its own; a grant is the callback it came by.     *)
(* Formats, names and encryption are left out.                             *)
(***************************************************************************)
EXTENDS Credentials

CONSTANTS
  States,        \* the states StartOAuth makes
  MaxCrashes     \* bound of the model: restarts

(* What is stored of an account: None, or its tokens. *)
Tokens == [grant : Grants, token : 1..MaxTokens, expired : BOOLEAN]
Stored == {None} \cup Tokens

ASSUME OAuthAssumption ==
  /\ MaxTokens \in Nat \ {0} /\ MaxCrashes \in Nat
  /\ None \notin States \cup Grants \cup Editors \cup Accounts \cup Requests
  /\ None \notin Tokens /\ None \notin [Accounts -> Stored]

VARIABLES
  sessions,      \* oauthSessions, and whether they are older than their TTL
  callback,      \* where the callback of every grant is
  editor,        \* where every call is, and the copy of its session
  recorded,      \* history: sessions that were marked as bound
  crashes        \* history: restarts so far

sessionVars == <<sessions, callback, editor, recorded>>
vars == <<credentialVars, sessionVars, crashes>>

NoSession  == [status |-> "none", grant |-> None, bound |-> None, old |-> FALSE]
Gone       == [NoSession EXCEPT !.status = "gone"]
NoCallback == [at |-> "idle", state |-> None, grant |-> None]
NoEditor   == [at |-> "idle", state |-> None, grant |-> None, acc |-> None, late |-> FALSE]

Init ==
  /\ CredentialsInit
  /\ sessions = [s \in States |-> NoSession]
  /\ callback = [g \in Grants |-> NoCallback]
  /\ editor = [e \in Editors |-> NoEditor]
  /\ recorded = {}
  /\ crashes = 0

----------------------------------------------------------------------------
(* Sessions: every access under oauthMu, and most after pruning. *)

(* pruneOAuthSessionsLocked *)
Pruned == [s \in States |-> IF sessions[s].old \/ sessions[s].status = "bound"
                              THEN Gone ELSE sessions[s]]
There(s) == sessions[s].status \notin {"none", "gone"}
Found(s) == There(s) /\ Pruned[s] # Gone

StartOAuth(s) ==
  /\ sessions[s].status = "none"
  /\ sessions' = [Pruned EXCEPT ![s].status = "pending"]
  /\ UNCHANGED <<callback, editor, recorded, credentialVars, crashes>>

GrowOld(s) ==
  /\ There(s)
  /\ sessions' = [sessions EXCEPT ![s].old = TRUE]
  /\ UNCHANGED <<callback, editor, recorded, credentialVars, crashes>>

(* getOAuthSession, from a call that does nothing but look. *)
OAuthStatus ==
  /\ sessions' = Pruned
  /\ UNCHANGED <<callback, editor, recorded, credentialVars, crashes>>

(* OAuthCallback *)
OAuthCallback(g, s) ==
  /\ callback[g].at = "idle"
  /\ Found(s)
  /\ sessions' = Pruned
  /\ callback' = [callback EXCEPT ![g].at = "exchanging", ![g].state = s]
  /\ UNCHANGED <<editor, recorded, credentialVars, crashes>>

(* The provider gives tokens for the code, or something fails. *)
ExchangeOAuthCode(g) ==
  /\ callback[g].at = "exchanging"
  /\ \/ /\ callback' = [callback EXCEPT ![g].at = "completing", ![g].grant = g]
        /\ issued' = [issued EXCEPT ![g] = 1]
     \/ /\ callback' = [callback EXCEPT ![g].at = "completing"]
        /\ UNCHANGED issued
  /\ UNCHANGED <<sessions, editor, recorded, stores, relayVars, crashes>>

(* Slip: the session is written anew with what the callback brought. *)
CompleteAnew(g) ==
  /\ callback[g].at = "completing"
  /\ LET s == callback[g].state
     IN sessions' =
          IF ~There(s) THEN sessions
          ELSE [sessions EXCEPT ![s].grant = callback[g].grant, ![s].bound = None,
                  ![s].status = IF callback[g].grant = None THEN "error" ELSE "completed"]
  /\ callback' = [callback EXCEPT ![g] = [NoCallback EXCEPT !.at = "done"]]
  /\ UNCHANGED <<editor, recorded, credentialVars, crashes>>

(* completeOAuthSession, whatever the status is by now. *)
CompleteOAuthSession(g) ==
  /\ callback[g].at = "completing"
  /\ LET s == callback[g].state
     IN sessions' =
          IF ~There(s) THEN sessions
          ELSE IF callback[g].grant = None THEN [sessions EXCEPT ![s].status = "error"]
          ELSE [sessions EXCEPT ![s].status = "completed", ![s].grant = g]
  /\ callback' = [callback EXCEPT ![g] = [NoCallback EXCEPT !.at = "done"]]
  /\ UNCHANGED <<editor, recorded, credentialVars, crashes>>

----------------------------------------------------------------------------
(* BindOAuthAccount *)

(* Session s is looked up to be bound, and copied if it may be. *)
LookUp(e, s, bindable) ==
  /\ editor[e].at = "idle"
  /\ Found(s)
  /\ sessions' = Pruned
  /\ editor' = IF ~bindable THEN editor
               ELSE [editor EXCEPT ![e] = [at |-> "creating", state |-> s,
                       grant |-> Pruned[s].grant, acc |-> None, late |-> s \in recorded]]
  /\ UNCHANGED <<callback, recorded, credentialVars, crashes>>

BindOAuthAccount(e, s) ==
  LookUp(e, s, Pruned[s].status = "completed" /\ Pruned[s].bound = None)

(* The row of the account is created, or that fails. *)
CreateAccount(e) ==
  /\ editor[e].at = "creating"
  /\ \/ \E a \in Accounts :
          /\ row[a] = None
          /\ row' = [row EXCEPT ![a] = [grant |-> editor[e].grant, token |-> 1,
                                        expired |-> FALSE]]
          /\ editor' = [editor EXCEPT ![e].at = "marking", ![e].acc = a]
     \/ editor' = [editor EXCEPT ![e] = NoEditor] /\ UNCHANGED row
  /\ UNCHANGED <<sessions, callback, recorded, issued, memory, copy, relayVars, crashes>>

MarkBound(e) ==
  /\ editor[e].at = "marking"
  /\ LET s == editor[e].state
     IN IF There(s)
          THEN /\ sessions' = [sessions EXCEPT ![s].status = "bound",
                                               ![s].bound = editor[e].acc]
               /\ recorded' = recorded \cup {s}
          ELSE UNCHANGED <<sessions, recorded>>
  /\ editor' = [editor EXCEPT ![e] = [NoEditor EXCEPT !.at = "refreshing"]]
  /\ UNCHANGED <<callback, credentialVars, crashes>>

(* Any edit of an account or channel ends with a refresh of the pool too.  *)
EditAccount(e) ==
  /\ editor[e].at = "idle"
  /\ \E a \in Accounts : row[a] # None
  /\ editor' = [editor EXCEPT ![e].at = "refreshing"]
  /\ UNCHANGED <<sessions, callback, recorded, credentialVars, crashes>>

RefreshPool(e) ==
  /\ editor[e].at = "refreshing"
  /\ IF copy[e] = None THEN ReadAccounts(e) /\ UNCHANGED editor
     ELSE SetPool(e) /\ editor' = [editor EXCEPT ![e] = NoEditor]
  /\ UNCHANGED <<sessions, callback, recorded, crashes>>

Restart ==
  /\ crashes < MaxCrashes /\ crashes' = crashes + 1
  /\ RestartCredentials
  /\ sessions' = [s \in States |-> IF There(s) THEN Gone ELSE sessions[s]]
  /\ callback' = [g \in Grants |-> IF callback[g].at = "idle" THEN NoCallback
                                   ELSE [NoCallback EXCEPT !.at = "done"]]
  /\ editor' = [e \in Editors |-> NoEditor]
  /\ UNCHANGED recorded

Onboarding ==
  \/ \E s \in States : StartOAuth(s) \/ GrowOld(s)
  \/ OAuthStatus
  \/ \E g \in Grants : ExchangeOAuthCode(g) \/ CompleteOAuthSession(g)
  \/ \E g \in Grants, s \in States : OAuthCallback(g, s)
  \/ \E e \in Editors, s \in States : BindOAuthAccount(e, s)
  \/ \E e \in Editors : CreateAccount(e) \/ MarkBound(e) \/ EditAccount(e) \/ RefreshPool(e)

(* An access token is good for longer than a session and its calls last.   *)
ExpireLate(a) ==
  /\ \A s \in States : There(s) => sessions[s].old
  /\ \A g \in Grants : callback[g].at \in {"idle", "done"}
  /\ \A e \in Editors : editor[e].at \notin {"creating", "marking"}
  /\ Expire(a)

Next ==
  \/ (Credentialed \/ \E a \in Accounts : ExpireLate(a)) /\ UNCHANGED <<sessionVars, crashes>>
  \/ Onboarding
  \/ Restart

Spec == Init /\ [][Next]_vars

----------------------------------------------------------------------------
(* Properties. *)

(* Type invariant. *)
TypeOK ==
  /\ issued \in [Grants -> 0..MaxTokens]
  /\ row \in [Accounts -> Stored] /\ memory \in [Accounts -> Stored]
  /\ \A e \in Editors : copy[e] = None \/ copy[e] \in [Accounts -> Stored]
  /\ flights \in [Accounts -> Requests \cup {None}]
  /\ \A r \in Requests :
       request[r].at \in {"refreshing", "returning"} <=> \E a \in Accounts : flights[a] = r
  /\ \A a \in Accounts : jobs[a] \subseteq [at : {"row", "memory"}, token : 0..MaxTokens,
                                            held : BOOLEAN]
  /\ lost \subseteq Accounts /\ crashes \in 0..MaxCrashes
  /\ \A s \in States : sessions[s].status = "completed" => sessions[s].grant \in Grants
  /\ \A e \in Editors : editor[e].at = "marking" => editor[e].acc \in Accounts

(* A session that was marked as bound is not bound by a call that looks at *)
(* it afterwards, although a callback that comes late sets its status back *)
(* to completed (oauth_handler.go:173-180, 230-235, 272-291).              *)
BoundOnce == \A e \in Editors : editor[e].at = "creating" => ~editor[e].late

(* Nothing is refreshed by two requests at once, even when the pool got a  *)
(* new object for the account in between (account_refresh.go:34-37).       *)
RefreshedAlone ==
  \A r, q \in Requests :
    request[r].at = "refreshing" /\ request[q].at = "refreshing"
      /\ request[r].acc = request[q].acc => r = q

(* Two accounts that were bound with the same tokens share their fate. *)
Sole(a) == \A b \in Accounts \ {a} : row[b] # None => row[b].grant # row[a].grant

(* Once the goroutines of an account's refreshes are done, its row has the *)
(* refresh token that the provider issued last: they write in any order    *)
(* and only when they get to, but of two that carry tokens the second is   *)
(* never started before the first has written (account_refresh.go:94-121). *)
(* Only what is lost in a crash, a timeout or a failed write stays lost.   *)
RowCurrent ==
  \A a \in Accounts :
    row[a] # None /\ Sole(a) /\ a \notin lost /\ (\A j \in jobs[a] : j.at # "row" \/ j.token = 0)
      => row[a].token = issued[row[a].grant]

(* "Update in-memory state so subsequent requests use the new credentials" *)
(* (account_refresh.go:118; docs/current/platform-design.md:372 has it     *)
(* that refreshes update the account in memory as well): a refresh sends   *)
(* the refresh token that was issued last.  The goroutine leaves the       *)
(* refresh token of the object alone, so that the next refresh sends one   *)
(* that the provider has replaced.                                         *)
LastTokenSent ==
  \A r \in Requests :
    request[r].at = "refreshing" /\ request[r].acc \notin lost => Good(r)

=============================================================================
