---------------------------- MODULE Users_proofs ----------------------------
(***************************************************************************)
(* Theorems of module Users, for any numbers of users, keys, calls and     *)
(* codes: its types, that no code is redeemed twice, and what the counts   *)
(* that lock nothing let through; and of module Setup, which makes the     *)
(* administrator who has the rest made.                                    *)
(***************************************************************************)
EXTENDS Users, Data_proofs, TLAPS

Places == {"idle", "registering", "updating", "creating", "deleting",
           "unsubscribed", "subscribing", "redeeming"}
Calls  == [at : Places, user : People \cup {None}, email : Emails \cup {None},
           keys : SUBSET Keys, code : Codes \cup {None}]

LEMMA IdleCall == Idle \in Calls
BY DEF Idle, Calls, Places

LEMMA BeginCall ==
  ASSUME call \in [Sessions -> Calls],
         NEW s \in Sessions, NEW at \in Places, NEW u \in People \cup {None},
         NEW e \in Emails \cup {None}, NEW K \in SUBSET Keys,
         NEW c \in Codes \cup {None}, Begin(s, at, u, e, K, c)
  PROVE  /\ call' \in [Sessions -> Calls]
         /\ edits' = edits
<1> DEFINE new == [at |-> at, user |-> u, email |-> e, keys |-> K, code |-> c]
<1>1. new \in Calls
  BY DEF Calls
<1>2. call' = [call EXCEPT ![s] = new] /\ edits' = edits
  BY DEF Begin
<1> HIDE DEF new
<1>3. QED
  BY <1>1, <1>2

LEMMA AnswerCall ==
  ASSUME call \in [Sessions -> Calls], NEW s \in Sessions, Answer(s)
  PROVE  /\ call' \in [Sessions -> Calls]
         /\ edits' = edits
BY IdleCall DEF Answer

LEMMA CallFields ==
  ASSUME call \in [Sessions -> Calls], NEW s \in Sessions
  PROVE  /\ call[s].at \in Places
         /\ call[s].user \in People \cup {None}
         /\ call[s].email \in Emails \cup {None}
         /\ call[s].keys \in SUBSET Keys
         /\ call[s].code \in Codes \cup {None}
BY DEF Calls

(* Whoever creates a key, subscribes or redeems is a user, and what is     *)
(* redeemed a code.                                                        *)
Named ==
  \A s \in Sessions :
    /\ call[s].at \in {"creating", "unsubscribed", "subscribing", "redeeming"} =>
         call[s].user \in People
    /\ call[s].at = "redeeming" => call[s].code \in Codes

LEMMA NamedStep ==
  ASSUME TypeOK, Named, [Next]_vars
  PROVE  Named'
<1>1. call \in [Sessions -> Calls]
  BY DEF TypeOK, Calls, Places
<1>2. ASSUME NEW s \in Sessions, NEW at \in Places, NEW u \in People \cup {None},
             NEW e, NEW K, NEW c, Begin(s, at, u, e, K, c),
             at \in {"creating", "unsubscribed", "subscribing", "redeeming"} => u \in People,
             at = "redeeming" => c \in Codes
      PROVE  Named'
  BY <1>1, <1>2 DEF Begin, Named
<1>3. ASSUME NEW s \in Sessions, Answer(s)
      PROVE  Named'
  BY <1>1, <1>3 DEF Answer, Idle, Named
<1>4. ASSUME NEW s \in Sessions, Called(s)
      PROVE  Named'
  <2>1. ASSUME NEW e \in Emails, CheckRegister(s, e)
        PROVE  Named'
    BY <1>2, <2>1 DEF CheckRegister, Places
  <2>2. ASSUME NEW u \in People, NEW e \in Emails, CheckEmail(s, u, e)
        PROVE  Named'
    BY <1>2, <2>2 DEF CheckEmail, Places
  <2>3. ASSUME NEW u \in People, CountKeys(s, u) \/ CountPlans(s, u)
        PROVE  Named'
    BY <1>2, <2>3 DEF CountKeys, CountPlans, Places
  <2>4. ASSUME NEW k \in Keys, FindKey(s, k)
        PROVE  Named'
    <3>1. owner[k] \in People \cup {None}
      BY DEF TypeOK
    <3>2. QED
      BY <1>2, <2>4, <3>1 DEF FindKey, Places
  <2>5. ASSUME \/ Register(s) \/ UpdateEmail(s) \/ CreateKey(s)
               \/ DeleteKey(s) \/ Subscribe(s) \/ RedeemCode(s)
        PROVE  Named'
    BY <1>3, <2>5 DEF Register, UpdateEmail, CreateKey, DeleteKey, Subscribe, RedeemCode
  <2>6. ASSUME CollectKeys(s)
        PROVE  Named'
    <3>1. CASE KeysOf(call[s].user) = {}
      BY <1>3, <2>6, <3>1 DEF CollectKeys
    <3>2. CASE KeysOf(call[s].user) # {}
      <4>1. /\ call[s].at = "unsubscribed"
            /\ call' = [call EXCEPT ![s].at = "subscribing",
                                    ![s].keys = KeysOf(call[s].user)]
        BY <2>6, <3>2 DEF CollectKeys
      <4>2. /\ \A q \in Sessions : q # s => call'[q] = call[q]
            /\ call'[s].user = call[s].user /\ call'[s].at = "subscribing"
        BY <1>1, <4>1 DEF Calls
      <4>3. QED
        BY <4>1, <4>2 DEF Named
    <3>3. QED
      BY <3>1, <3>2
  <2>7. ASSUME NEW u \in People, NEW c \in Codes, LockCode(s, u, c)
        PROVE  Named'
    BY <1>2, <2>7 DEF LockCode, Places
  <2>8. QED
    BY <1>4, <2>1, <2>2, <2>3, <2>4, <2>5, <2>6, <2>7 DEF Called
<1>5. ASSUME ~ \E s \in Sessions : Called(s)
      PROVE  UNCHANGED call
  BY <1>5 DEF Next, DeleteToken, UpdateStatus, UpdateBalance, DeleteUser, vars
<1>6. QED
  BY <1>4, <1>5 DEF Named

(* No call leaves the types of the rows, whatever it has read. *)
LEMMA TypeStep ==
  ASSUME TypeOK, Named, [Next]_vars
  PROVE  TypeOK'
<1> USE UsersAssumption
<1>1. call \in [Sessions -> Calls]
  BY DEF TypeOK, Calls, Places
<1>2. ASSUME NEW s \in Sessions, NEW e \in Emails, CheckRegister(s, e)
      PROVE  TypeOK'
  <2>1. Begin(s, "registering", None, e, {}, None) /\ UNCHANGED <<userVars, keyVars, codeVars>>
    BY <1>2 DEF CheckRegister
  <2>2. call' \in [Sessions -> Calls] /\ edits' = edits
    BY <1>1, <2>1, BeginCall DEF Places
  <2>3. QED
    BY <2>1, <2>2 DEF TypeOK, Calls, Places, userVars, keyVars, codeVars
<1>3. ASSUME NEW s \in Sessions, Register(s)
      PROVE  TypeOK'
  <2>1. call' \in [Sessions -> Calls] /\ edits' = edits
    BY <1>1, <1>3, AnswerCall DEF Register
  <2>2. call[s].email \in Emails \cup {None}
    BY <1>1, CallFields
  <2>3. /\ email' \in [People -> Emails \cup {None}]
        /\ active' \in [People -> BOOLEAN]
    BY <1>3, <2>2 DEF Register, TypeOK
  <2>4. QED
    BY <1>3, <2>1, <2>3 DEF Register, TypeOK, Calls, Places, keyVars, codeVars
<1>4. ASSUME NEW s \in Sessions, NEW u \in People, NEW e \in Emails, CheckEmail(s, u, e)
      PROVE  TypeOK'
  <2>1. Begin(s, "updating", u, e, {}, None) /\ UNCHANGED <<userVars, keyVars, codeVars>>
    BY <1>4 DEF CheckEmail
  <2>2. call' \in [Sessions -> Calls] /\ edits' = edits
    BY <1>1, <2>1, BeginCall DEF Places
  <2>3. QED
    BY <2>1, <2>2 DEF TypeOK, Calls, Places, userVars, keyVars, codeVars
<1>5. ASSUME NEW s \in Sessions, UpdateEmail(s)
      PROVE  TypeOK'
  <2>1. call' \in [Sessions -> Calls] /\ edits' = edits
    BY <1>1, <1>5, AnswerCall DEF UpdateEmail
  <2>2. call[s].email \in Emails \cup {None}
    BY <1>1, CallFields
  <2>3. email' \in [People -> Emails \cup {None}]
    BY <1>5, <2>2 DEF UpdateEmail, TypeOK
  <2>4. QED
    BY <1>5, <2>1, <2>3 DEF UpdateEmail, TypeOK, Calls, Places, keyVars, codeVars
<1>6. ASSUME NEW s \in Sessions, NEW u \in People, CountKeys(s, u)
      PROVE  TypeOK'
  <2>1. Begin(s, "creating", u, None, {}, None) /\ UNCHANGED <<userVars, keyVars, codeVars>>
    BY <1>6 DEF CountKeys
  <2>2. call' \in [Sessions -> Calls] /\ edits' = edits
    BY <1>1, <2>1, BeginCall DEF Places
  <2>3. QED
    BY <2>1, <2>2 DEF TypeOK, Calls, Places, userVars, keyVars, codeVars
<1>7. ASSUME NEW s \in Sessions, NEW u \in People, CountPlans(s, u)
      PROVE  TypeOK'
  <2>1. Begin(s, "unsubscribed", u, None, {}, None) /\ UNCHANGED <<userVars, keyVars, codeVars>>
    BY <1>7 DEF CountPlans
  <2>2. call' \in [Sessions -> Calls] /\ edits' = edits
    BY <1>1, <2>1, BeginCall DEF Places
  <2>3. QED
    BY <2>1, <2>2 DEF TypeOK, Calls, Places, userVars, keyVars, codeVars
<1>8. ASSUME NEW s \in Sessions, CreateKey(s)
      PROVE  TypeOK'
  <2>1. call' \in [Sessions -> Calls] /\ edits' = edits
    BY <1>1, <1>8, AnswerCall DEF CreateKey
  <2>2. call[s].user \in People
    BY <1>8 DEF CreateKey, Named
  <2>3. QED
    BY <1>8, <2>1, <2>2 DEF CreateKey, TypeOK, Calls, Places, userVars, codeVars
<1>9. ASSUME NEW s \in Sessions, NEW k \in Keys, FindKey(s, k)
      PROVE  TypeOK'
  <2>1. Begin(s, "deleting", owner[k], None, {k}, None) /\ UNCHANGED <<userVars, keyVars, codeVars>>
    BY <1>9 DEF FindKey
  <2>2. call' \in [Sessions -> Calls] /\ edits' = edits
    BY <1>1, <2>1, BeginCall DEF Places, TypeOK
  <2>3. QED
    BY <2>1, <2>2 DEF TypeOK, Calls, Places, userVars, keyVars, codeVars
<1>10. ASSUME NEW s \in Sessions, DeleteKey(s)
       PROVE  TypeOK'
  <2>1. call' \in [Sessions -> Calls] /\ edits' = edits
    BY <1>1, <1>10, AnswerCall DEF DeleteKey
  <2>2. QED
    BY <1>10, <2>1 DEF DeleteKey, TypeOK, Calls, Places, userVars, codeVars
<1>11. ASSUME NEW s \in Sessions, CollectKeys(s)
       PROVE  TypeOK'
  <2> DEFINE K == KeysOf(call[s].user)
  <2>1. CASE K = {}
    <3>1. call' \in [Sessions -> Calls] /\ edits' = edits
      BY <1>1, <1>11, <2>1, AnswerCall DEF CollectKeys
    <3>2. QED
      BY <1>11, <3>1 DEF CollectKeys, TypeOK, Calls, Places, userVars, keyVars, codeVars
  <2>2. CASE K # {}
    <3>1. K \in SUBSET Keys
      BY DEF KeysOf, TypeOK
    <3>2. /\ call' = [call EXCEPT ![s].at = "subscribing", ![s].keys = K]
          /\ edits' = edits
      BY <1>11, <2>2 DEF CollectKeys
    <3> HIDE DEF K
    <3>3. call' \in [Sessions -> Calls]
      BY <1>1, <3>1, <3>2 DEF Calls, Places
    <3>4. QED
      BY <1>11, <3>2, <3>3 DEF CollectKeys, TypeOK, Calls, Places, userVars, keyVars, codeVars
  <2>3. QED
    BY <2>1, <2>2
<1>12. ASSUME NEW s \in Sessions, Subscribe(s)
       PROVE  TypeOK'
  <2>1. call' \in [Sessions -> Calls] /\ edits' = edits
    BY <1>1, <1>12, AnswerCall DEF Subscribe
  <2>2. rows' \in [Keys -> Nat]
    BY <1>12 DEF Subscribe, TypeOK
  <2>3. QED
    BY <1>12, <2>1, <2>2 DEF Subscribe, TypeOK, Calls, Places, userVars, codeVars
<1>13. ASSUME NEW k \in Keys, DeleteToken(k)
       PROVE  TypeOK'
  BY <1>13 DEF DeleteToken, Edit, TypeOK, userVars, codeVars
<1>14. ASSUME NEW s \in Sessions, RedeemCode(s)
       PROVE  TypeOK'
  <2>1. /\ call[s].user \in People /\ call[s].code \in Codes
        /\ Value[call[s].code] \in Nat
    BY <1>14 DEF RedeemCode, Named
  <2>2. call' \in [Sessions -> Calls] /\ edits' = edits
    BY <1>1, <1>14, AnswerCall DEF RedeemCode
  <2>3. balance' \in [People -> Nat]
    BY <1>14, <2>1 DEF RedeemCode, TypeOK
  <2>4. credited' \in [People -> SUBSET Codes]
    BY <1>14, <2>1 DEF RedeemCode, TypeOK
  <2>5. usedBy' \in [Codes -> People \cup {None}]
    BY <1>14, <2>1 DEF RedeemCode, TypeOK
  <2>6. QED
    BY <1>14, <2>2, <2>3, <2>4, <2>5 DEF RedeemCode, TypeOK, Calls, Places, keyVars
<1>15. ASSUME NEW u \in People, UpdateStatus(u)
       PROVE  TypeOK'
  BY <1>15 DEF UpdateStatus, Edit, TypeOK, keyVars, codeVars
<1>16. ASSUME NEW u \in People, UpdateBalance(u)
       PROVE  TypeOK'
  <2>1. /\ balance' \in [People -> Nat] /\ base' \in [People -> Nat]
        /\ credited' \in [People -> SUBSET Codes]
    BY <1>16 DEF UpdateBalance, TypeOK
  <2>2. QED
    BY <1>16, <2>1 DEF UpdateBalance, Edit, TypeOK, keyVars
<1>17. ASSUME NEW u \in People, DeleteUser(u)
       PROVE  TypeOK'
  BY <1>17 DEF DeleteUser, Edit, TypeOK, keyVars, codeVars
<1>18. CASE UNCHANGED vars
  BY <1>18 DEF TypeOK, vars, userVars, keyVars, codeVars
<1>19. ASSUME NEW s \in Sessions, NEW u \in People, NEW c \in Codes, LockCode(s, u, c)
       PROVE  TypeOK'
  <2>1. Begin(s, "redeeming", u, None, {}, c) /\ UNCHANGED <<userVars, keyVars, codeVars>>
    BY <1>19 DEF LockCode
  <2>2. call' \in [Sessions -> Calls] /\ edits' = edits
    BY <1>1, <2>1, BeginCall DEF Places
  <2>3. QED
    BY <2>1, <2>2 DEF TypeOK, Calls, Places, userVars, keyVars, codeVars
<1>20. QED
  BY <1>2, <1>3, <1>4, <1>5, <1>6, <1>7, <1>8, <1>9, <1>10, <1>11, <1>12, <1>13,
     <1>14, <1>15, <1>16, <1>17, <1>18, <1>19 DEF Next, Called

(* The rows of users, keys, subscriptions and codes keep their types, and  *)
(* only keys that were created are live (user/service.go).                 *)
THEOREM UsersTypeOK == Spec => []TypeOK
<1>1. Init => TypeOK /\ Named
  BY UsersAssumption DEF Init, TypeOK, Named, Idle
<1>2. TypeOK /\ Named /\ [Next]_vars => (TypeOK /\ Named)'
  BY TypeStep, NamedStep
<1>3. QED
  BY <1>1, <1>2, PTL DEF Spec

----------------------------------------------------------------------------
(* The maximum of keys. *)

(* The calls that have counted the keys of a user and will create one. *)
Creating(u) == {s \in Sessions : call[s].at = "creating" /\ call[s].user = u}

(* A call that has counted may be behind each key it did not count, so the *)
(* keys and these calls are bounded together.                              *)
KeyRoom ==
  \A u \in People :
    Cardinality(KeysOf(u)) + Cardinality(Creating(u)) < MaxKeys + Cardinality(Sessions)

LEMMA KeysFinite ==
  ASSUME TypeOK, NEW u
  PROVE  /\ IsFiniteSet(KeysOf(u)) /\ Cardinality(KeysOf(u)) \in Nat
         /\ IsFiniteSet(Creating(u)) /\ Cardinality(Creating(u)) \in Nat
         /\ Cardinality(Creating(u)) <= Cardinality(Sessions)
         /\ Cardinality(Sessions) \in Nat
<1>1. KeysOf(u) \in SUBSET Keys /\ Creating(u) \in SUBSET Sessions
  BY DEF KeysOf, Creating, TypeOK
<1>2. QED
  BY <1>1, UsersAssumption, FS_Subset, FS_CardinalityType

LEMMA KeyRoomShrinks ==
  ASSUME TypeOK, TypeOK', NEW u \in People,
         Cardinality(KeysOf(u)) + Cardinality(Creating(u)) < MaxKeys + Cardinality(Sessions),
         KeysOf(u)' \subseteq KeysOf(u), Creating(u)' \subseteq Creating(u)
  PROVE  Cardinality(KeysOf(u)') + Cardinality(Creating(u)') < MaxKeys + Cardinality(Sessions)
<1> DEFINE K == KeysOf(u)  L == KeysOf(u)'  C == Creating(u)  D == Creating(u)'
<1>1. /\ IsFiniteSet(K) /\ Cardinality(K) \in Nat
      /\ IsFiniteSet(C) /\ Cardinality(C) \in Nat /\ Cardinality(Sessions) \in Nat
  BY KeysFinite
<1>2. L \in SUBSET K /\ D \in SUBSET C
  OBVIOUS
<1> HIDE DEF K, L, C, D
<1>3. /\ IsFiniteSet(L) /\ Cardinality(L) <= Cardinality(K) /\ Cardinality(L) \in Nat
      /\ IsFiniteSet(D) /\ Cardinality(D) <= Cardinality(C) /\ Cardinality(D) \in Nat
  BY <1>1, <1>2, FS_Subset, FS_CardinalityType
<1>4. Cardinality(L) + Cardinality(D) < MaxKeys + Cardinality(Sessions)
  <2>1. Cardinality(K) + Cardinality(C) < MaxKeys + Cardinality(Sessions)
    BY DEF K, C
  <2>2. QED
    BY <1>1, <1>3, <2>1, UsersAssumption
<1>5. QED
  BY <1>4 DEF L, D

(* Only the call that counts adds to the sum, and it has counted fewer     *)
(* keys than the maximum; the insertion turns a call into a key.           *)
LEMMA KeyRoomStep ==
  ASSUME TypeOK, Named, TypeOK', KeyRoom, [Next]_vars
  PROVE  KeyRoom'
<1>1. call \in [Sessions -> Calls]
  BY DEF TypeOK, Calls, Places
<1> SUFFICES ASSUME NEW u \in People
             PROVE  Cardinality(KeysOf(u)') + Cardinality(Creating(u)')
                      < MaxKeys + Cardinality(Sessions)
  BY DEF KeyRoom
<1> DEFINE Goal == Cardinality(KeysOf(u)') + Cardinality(Creating(u)')
                     < MaxKeys + Cardinality(Sessions)
<1>2. ASSUME KeysOf(u)' \subseteq KeysOf(u), Creating(u)' \subseteq Creating(u)
      PROVE  Goal
  <2>1. Cardinality(KeysOf(u)) + Cardinality(Creating(u)) < MaxKeys + Cardinality(Sessions)
    BY DEF KeyRoom
  <2>2. QED
    BY <1>2, <2>1, KeyRoomShrinks
<1>3. ASSUME owner' = owner, live' \subseteq live
      PROVE  KeysOf(u)' \subseteq KeysOf(u)
  BY <1>3 DEF KeysOf
<1>4. ASSUME NEW s \in Sessions, NEW at, NEW v, NEW e, NEW K, NEW d,
             Begin(s, at, v, e, K, d), at # "creating" \/ v # u
      PROVE  Creating(u)' \subseteq Creating(u)
  BY <1>1, <1>4 DEF Begin, Creating
<1>5. ASSUME NEW s \in Sessions, Answer(s)
      PROVE  Creating(u)' \subseteq Creating(u) \ {s}
  BY <1>1, <1>5 DEF Answer, Idle, Creating
<1>6. ASSUME call' = call
      PROVE  Creating(u)' \subseteq Creating(u)
  BY <1>6 DEF Creating
<1>7. ASSUME NEW s \in Sessions, Called(s)
      PROVE  Goal
  <2>1. ASSUME \/ \E e \in Emails : CheckRegister(s, e)
               \/ \E v \in People, e \in Emails : CheckEmail(s, v, e)
               \/ \E v \in People : CountPlans(s, v)
               \/ \E k \in Keys : FindKey(s, k)
               \/ \E v \in People, c \in Codes : LockCode(s, v, c)
        PROVE  Goal
    <3>1. owner' = owner /\ live' = live
      BY <2>1 DEF CheckRegister, CheckEmail, CountPlans, FindKey, LockCode, keyVars
    <3>2. Creating(u)' \subseteq Creating(u)
      <4>1. CASE \E e \in Emails : CheckRegister(s, e)
        BY <1>4, <4>1 DEF CheckRegister
      <4>2. CASE \E v \in People, e \in Emails : CheckEmail(s, v, e)
        BY <1>4, <4>2 DEF CheckEmail
      <4>3. CASE \E v \in People : CountPlans(s, v)
        BY <1>4, <4>3 DEF CountPlans
      <4>4. CASE \E k \in Keys : FindKey(s, k)
        BY <1>4, <4>4 DEF FindKey
      <4>5. CASE \E v \in People, c \in Codes : LockCode(s, v, c)
        BY <1>4, <4>5 DEF LockCode
      <4>6. QED
        BY <2>1, <4>1, <4>2, <4>3, <4>4, <4>5
    <3>3. QED
      BY <1>2, <1>3, <3>1, <3>2
  <2>2. ASSUME \/ Register(s) \/ UpdateEmail(s) \/ DeleteKey(s)
               \/ Subscribe(s) \/ RedeemCode(s)
        PROVE  Goal
    <3>1. owner' = owner /\ live' \subseteq live /\ Answer(s)
      BY <2>2 DEF Register, UpdateEmail, DeleteKey, Subscribe, RedeemCode, keyVars
    <3>2. QED
      BY <1>2, <1>3, <1>5, <3>1
  <2>3. ASSUME CollectKeys(s)
        PROVE  Goal
    <3>1. owner' = owner /\ live' = live
      BY <2>3 DEF CollectKeys, keyVars
    <3>2. CASE KeysOf(call[s].user) = {}
      BY <1>2, <1>3, <1>5, <2>3, <3>1, <3>2 DEF CollectKeys
    <3>3. CASE KeysOf(call[s].user) # {}
      <4>1. call' = [call EXCEPT ![s].at = "subscribing", ![s].keys = KeysOf(call[s].user)]
        BY <2>3, <3>3 DEF CollectKeys
      <4>2. /\ call'[s].at = "subscribing"
            /\ \A q \in Sessions : q # s => call'[q] = call[q]
        BY <1>1, <4>1 DEF Calls
      <4>3. Creating(u)' \subseteq Creating(u)
        BY <4>2 DEF Creating
      <4>4. QED
        BY <1>2, <1>3, <3>1, <4>3
    <3>4. QED
      BY <3>2, <3>3
  <2>4. ASSUME NEW v \in People, CountKeys(s, v)
        PROVE  Goal
    <3>1. owner' = owner /\ live' = live /\ Begin(s, "creating", v, None, {}, None)
      BY <2>4 DEF CountKeys, keyVars
    <3>2. CASE v # u
      BY <1>2, <1>3, <1>4, <3>1, <3>2
    <3>3. CASE v = u
      <4>1. KeysOf(u)' = KeysOf(u) /\ Cardinality(KeysOf(u)) < MaxKeys
        BY <2>4, <3>1, <3>3 DEF CountKeys, KeysOf
      <4>2. Creating(u)' \in SUBSET Sessions
        BY DEF Creating
      <4>3. /\ Cardinality(Creating(u)') <= Cardinality(Sessions)
            /\ Cardinality(Creating(u)') \in Nat /\ Cardinality(Sessions) \in Nat
        BY <4>2, UsersAssumption, FS_Subset, FS_CardinalityType
      <4>4. Cardinality(KeysOf(u)) \in Nat
        BY KeysFinite
      <4>5. QED
        BY <4>1, <4>3, <4>4, UsersAssumption
    <3>4. QED
      BY <3>2, <3>3
  <2>5. ASSUME CreateKey(s)
        PROVE  Goal
    <3>1. Answer(s) /\ call[s].at = "creating"
      BY <2>5 DEF CreateKey
    <3>2. CASE owner' = owner /\ live' = live
      BY <1>2, <1>3, <1>5, <3>1, <3>2
    <3>3. ASSUME NEW k \in Keys, owner[k] = None,
                 owner' = [owner EXCEPT ![k] = call[s].user], live' = live \cup {k}
          PROVE  Goal
      <4>1. owner \in [Keys -> People \cup {None}] /\ live \subseteq Keys /\ k \notin live
        BY <3>3 DEF TypeOK
      <4>2. CASE call[s].user # u
        <5>1. KeysOf(u)' \subseteq KeysOf(u)
          BY <3>3, <4>1, <4>2 DEF KeysOf
        <5>2. QED
          BY <1>2, <1>5, <3>1, <5>1
      <4>3. CASE call[s].user = u
        <5>1. s \in Creating(u)
          BY <3>1, <4>3 DEF Creating
        <5>2. KeysOf(u)' \in SUBSET (KeysOf(u) \cup {k})
          BY <3>3, <4>1 DEF KeysOf
        <5>3. Creating(u)' \in SUBSET (Creating(u) \ {s})
          BY <1>5, <3>1
        <5>4. /\ IsFiniteSet(KeysOf(u)) /\ Cardinality(KeysOf(u)) \in Nat
              /\ IsFiniteSet(Creating(u)) /\ Cardinality(Creating(u)) \in Nat
              /\ Cardinality(Sessions) \in Nat
          BY KeysFinite
        <5>5. /\ IsFiniteSet(KeysOf(u) \cup {k})
              /\ Cardinality(KeysOf(u) \cup {k}) <= Cardinality(KeysOf(u)) + 1
          BY <5>4, FS_AddElement
        <5>6. /\ IsFiniteSet(Creating(u) \ {s})
              /\ Cardinality(Creating(u) \ {s}) = Cardinality(Creating(u)) - 1
          BY <5>1, <5>4, FS_RemoveElement
        <5>7. /\ Cardinality(KeysOf(u)') \in Nat
              /\ Cardinality(KeysOf(u)') <= Cardinality(KeysOf(u) \cup {k})
              /\ Cardinality(KeysOf(u) \cup {k}) \in Nat
          BY <5>2, <5>5, FS_Subset, FS_CardinalityType
        <5>8. /\ Cardinality(Creating(u)') \in Nat
              /\ Cardinality(Creating(u)') <= Cardinality(Creating(u) \ {s})
          BY <5>3, <5>6, FS_Subset, FS_CardinalityType
        <5>9. Cardinality(KeysOf(u)) + Cardinality(Creating(u)) < MaxKeys + Cardinality(Sessions)
          BY DEF KeyRoom
        <5>10. QED
          BY <5>4, <5>5, <5>6, <5>7, <5>8, <5>9, UsersAssumption
      <4>4. QED
        BY <4>2, <4>3
    <3>4. QED
      BY <2>5, <3>2, <3>3 DEF CreateKey
  <2>6. QED
    BY <1>7, <2>1, <2>2, <2>3, <2>4, <2>5 DEF Called
<1>8. ASSUME ~ \E s \in Sessions : Called(s)
      PROVE  owner' = owner /\ live' \subseteq live /\ call' = call
  BY <1>8 DEF Next, DeleteToken, UpdateStatus, UpdateBalance, DeleteUser,
              vars, keyVars
<1>9. QED
  BY <1>2, <1>3, <1>6, <1>7, <1>8

(* However many calls count at once, a user has fewer keys than the        *)
(* maximum and the number of calls (service.go:237-256).                   *)
THEOREM UsersKeysBounded == Spec => []KeysBounded
<1> DEFINE Inv == TypeOK /\ Named /\ KeyRoom
<1>1. Init => Inv
  <2> SUFFICES ASSUME Init
               PROVE  Inv
    OBVIOUS
  <2>1. TypeOK /\ Named
    BY UsersAssumption DEF Init, TypeOK, Named, Idle
  <2>2. ASSUME NEW u \in People
        PROVE  KeysOf(u) = {} /\ Creating(u) = {}
    BY DEF Init, KeysOf, Creating, Idle
  <2>3. Cardinality({}) = 0 /\ Cardinality(Sessions) \in Nat \ {0}
    BY UsersAssumption, FS_EmptySet, FS_CardinalityType
  <2>4. KeyRoom
    <3> SUFFICES ASSUME NEW u \in People
                 PROVE  Cardinality(KeysOf(u)) + Cardinality(Creating(u))
                          < MaxKeys + Cardinality(Sessions)
      BY DEF KeyRoom
    <3>1. KeysOf(u) = {} /\ Creating(u) = {}
      BY <2>2
    <3>2. QED
      BY <2>3, <3>1, UsersAssumption
  <2>5. QED
    BY <2>1, <2>4
<1>2. Inv /\ [Next]_vars => Inv'
  BY TypeStep, NamedStep, KeyRoomStep
<1>3. Inv => KeysBounded
  <2> SUFFICES ASSUME Inv, NEW u \in People
               PROVE  Cardinality(KeysOf(u)) < MaxKeys + Cardinality(Sessions)
    BY DEF KeysBounded
  <2>1. Cardinality(KeysOf(u)) + Cardinality(Creating(u)) < MaxKeys + Cardinality(Sessions)
    BY DEF KeyRoom
  <2>2. QED
    BY <2>1, KeysFinite, UsersAssumption
<1>4. QED
  BY <1>1, <1>2, <1>3, PTL DEF Spec

----------------------------------------------------------------------------
(* Subscriptions. *)

(* The calls that will subscribe a key, or may collect it to do so. *)
Asking(k) ==
  {s \in Sessions : \/ call[s].at = "subscribing" /\ k \in call[s].keys
                    \/ call[s].at = "unsubscribed" /\ k \in live /\ call[s].user = owner[k]}

(* A key that was not created is in no subscription.  A subscription turns *)
(* a call into a row.                                                      *)
Unborn ==
  \A k \in Keys : owner[k] = None =>
    rows[k] = 0 /\ \A s \in Sessions : call[s].at = "subscribing" => k \notin call[s].keys

RowRoom == \A k \in Keys : rows[k] + Cardinality(Asking(k)) <= Cardinality(Sessions)

LEMMA AskingFinite ==
  ASSUME NEW k
  PROVE  /\ IsFiniteSet(Asking(k)) /\ Cardinality(Asking(k)) \in Nat
         /\ Cardinality(Asking(k)) <= Cardinality(Sessions)
         /\ Cardinality(Sessions) \in Nat
<1>1. Asking(k) \in SUBSET Sessions
  BY DEF Asking
<1>2. QED
  BY <1>1, UsersAssumption, FS_Subset, FS_CardinalityType

LEMMA AskingFiniteNext ==
  ASSUME NEW k
  PROVE  /\ IsFiniteSet(Asking(k)') /\ Cardinality(Asking(k)') \in Nat
         /\ Cardinality(Asking(k)') <= Cardinality(Sessions)
<1>1. Asking(k)' \in SUBSET Sessions
  BY DEF Asking
<1>2. QED
  BY <1>1, UsersAssumption, FS_Subset, FS_CardinalityType

LEMMA UnbornStep ==
  ASSUME TypeOK, Named, Unborn, [Next]_vars
  PROVE  Unborn'
<1>1. call \in [Sessions -> Calls] /\ owner \in [Keys -> People \cup {None}]
  BY DEF TypeOK, Calls, Places
<1> SUFFICES ASSUME NEW k \in Keys, owner'[k] = None
             PROVE  /\ rows'[k] = 0
                    /\ \A q \in Sessions : call'[q].at = "subscribing" => k \notin call'[q].keys
  BY DEF Unborn
<1> DEFINE Goal == /\ rows'[k] = 0
                   /\ \A q \in Sessions : call'[q].at = "subscribing" => k \notin call'[q].keys
<1>2. owner[k] = None
  <2>1. CASE owner' = owner
    BY <2>1
  <2>2. ASSUME NEW s \in Sessions, CreateKey(s)
        PROVE  owner[k] = None
    <3>1. call[s].user # None
      BY <2>2, UsersAssumption DEF CreateKey, Named
    <3>2. QED
      BY <1>1, <2>2, <3>1 DEF CreateKey
  <2>3. QED
    BY <2>1, <2>2 DEF Next, Called, CheckRegister, Register, CheckEmail, UpdateEmail, CountKeys,
       CountPlans, FindKey, DeleteKey, CollectKeys, Subscribe, LockCode, RedeemCode, DeleteToken,
       UpdateStatus, UpdateBalance, DeleteUser, vars, keyVars
<1>3. /\ rows[k] = 0
      /\ \A q \in Sessions : call[q].at = "subscribing" => k \notin call[q].keys
  BY <1>2 DEF Unborn
<1>4. ASSUME NEW s \in Sessions, NEW at, NEW v, NEW e, NEW K, NEW c,
             Begin(s, at, v, e, K, c), at # "subscribing", rows' = rows
      PROVE  Goal
  BY <1>1, <1>3, <1>4 DEF Begin
<1>5. ASSUME NEW s \in Sessions, Answer(s), rows'[k] = rows[k]
      PROVE  Goal
  BY <1>1, <1>3, <1>5 DEF Answer, Idle
<1>6. ASSUME NEW s \in Sessions, Called(s)
      PROVE  Goal
  <2>1. CASE \E e \in Emails : CheckRegister(s, e)
    BY <1>4, <2>1 DEF CheckRegister, keyVars
  <2>2. CASE \E v \in People, e \in Emails : CheckEmail(s, v, e)
    BY <1>4, <2>2 DEF CheckEmail, keyVars
  <2>3. CASE \E v \in People : CountPlans(s, v)
    BY <1>4, <2>3 DEF CountPlans, keyVars
  <2>4. CASE \E v \in People : CountKeys(s, v)
    BY <1>4, <2>4 DEF CountKeys, keyVars
  <2>5. CASE \E x \in Keys : FindKey(s, x)
    BY <1>4, <2>5 DEF FindKey, keyVars
  <2>6. CASE Register(s) \/ UpdateEmail(s) \/ CreateKey(s) \/ DeleteKey(s) \/ RedeemCode(s)
    BY <1>5, <2>6 DEF Register, UpdateEmail, CreateKey, DeleteKey, RedeemCode, keyVars
  <2>7. CASE Subscribe(s)
    <3>1. k \notin call[s].keys
      BY <1>3, <2>7 DEF Subscribe
    <3>2. rows'[k] = rows[k] /\ Answer(s)
      BY <2>7, <3>1 DEF Subscribe
    <3>3. QED
      BY <1>5, <3>2
  <2>8. CASE CollectKeys(s)
    <3>1. CASE KeysOf(call[s].user) = {}
      BY <1>5, <2>8, <3>1 DEF CollectKeys, keyVars
    <3>2. CASE KeysOf(call[s].user) # {}
      <4>1. /\ call' = [call EXCEPT ![s].at = "subscribing", ![s].keys = KeysOf(call[s].user)]
            /\ rows' = rows
        BY <2>8, <3>2 DEF CollectKeys, keyVars
      <4>2. /\ call'[s].keys = KeysOf(call[s].user)
            /\ \A q \in Sessions : q # s => call'[q] = call[q]
        BY <1>1, <4>1 DEF Calls
      <4>3. k \notin KeysOf(call[s].user)
        BY <1>2 DEF KeysOf, TypeOK
      <4>4. QED
        BY <1>3, <4>1, <4>2, <4>3
    <3>3. QED
      BY <3>1, <3>2
  <2>9. CASE \E v \in People, c \in Codes : LockCode(s, v, c)
    BY <1>4, <2>9 DEF LockCode, keyVars
  <2>10. QED
    BY <1>6, <2>1, <2>2, <2>3, <2>4, <2>5, <2>6, <2>7, <2>8, <2>9 DEF Called
<1>7. ASSUME ~ \E s \in Sessions : Called(s)
      PROVE  rows' = rows /\ call' = call
  BY <1>7 DEF Next, DeleteToken, UpdateStatus, UpdateBalance, DeleteUser,
              vars, keyVars, codeVars
<1>8. QED
  BY <1>3, <1>6, <1>7

(* A call begins to ask for a key only when it has no row, and asks for    *)
(* what it has collected; what is created meanwhile it does not ask for.   *)
LEMMA RowRoomStep ==
  ASSUME TypeOK, Named, TypeOK', Unborn, RowRoom, [Next]_vars
  PROVE  RowRoom'
<1>1. call \in [Sessions -> Calls] /\ owner \in [Keys -> People \cup {None}]
  BY DEF TypeOK, Calls, Places
<1> SUFFICES ASSUME NEW k \in Keys
             PROVE  rows'[k] + Cardinality(Asking(k)') <= Cardinality(Sessions)
  BY DEF RowRoom
<1> DEFINE Goal == rows'[k] + Cardinality(Asking(k)') <= Cardinality(Sessions)
<1>2. /\ rows[k] \in Nat /\ rows'[k] \in Nat
      /\ rows[k] + Cardinality(Asking(k)) <= Cardinality(Sessions)
  BY DEF TypeOK, RowRoom
<1>3. ASSUME rows'[k] = rows[k], Asking(k)' \subseteq Asking(k)
      PROVE  Goal
  <2>1. Asking(k)' \in SUBSET Asking(k)
    BY <1>3
  <2>2. Cardinality(Asking(k)') <= Cardinality(Asking(k))
    BY <2>1, AskingFinite, FS_Subset
  <2>3. QED
    BY <1>2, <1>3, <2>2, AskingFinite, AskingFiniteNext
<1>4. ASSUME rows'[k] = 0
      PROVE  Goal
  BY <1>4, AskingFinite, AskingFiniteNext
<1>5. ASSUME NEW s \in Sessions, NEW at, NEW v, NEW e, NEW K, NEW c,
             Begin(s, at, v, e, K, c),
             \/ at \notin {"subscribing", "unsubscribed"}
             \/ at = "unsubscribed" /\ (k \notin live \/ v # owner[k]),
             UNCHANGED keyVars
      PROVE  Goal
  <2>1. Asking(k)' \subseteq Asking(k)
    BY <1>1, <1>5 DEF Begin, Asking, keyVars
  <2>2. QED
    BY <1>3, <1>5, <2>1 DEF keyVars
<1>6. ASSUME NEW s \in Sessions, Answer(s), owner'[k] = owner[k], k \in live' => k \in live
      PROVE  Asking(k)' \subseteq Asking(k) \ {s}
  BY <1>1, <1>6 DEF Answer, Idle, Asking
<1>7. ASSUME NEW s \in Sessions, Called(s)
      PROVE  Goal
  <2>1. CASE \E e \in Emails : CheckRegister(s, e)
    BY <1>5, <2>1 DEF CheckRegister
  <2>2. CASE \E v \in People, e \in Emails : CheckEmail(s, v, e)
    BY <1>5, <2>2 DEF CheckEmail
  <2>3. CASE \E v \in People : CountKeys(s, v)
    BY <1>5, <2>3 DEF CountKeys
  <2>4. CASE \E x \in Keys : FindKey(s, x)
    BY <1>5, <2>4 DEF FindKey
  <2>5. ASSUME NEW v \in People, CountPlans(s, v)
        PROVE  Goal
    <3>1. Begin(s, "unsubscribed", v, None, {}, None) /\ UNCHANGED keyVars
      BY <2>5 DEF CountPlans
    <3>2. CASE k \notin live \/ v # owner[k]
      BY <1>5, <3>1, <3>2
    <3>3. CASE k \in live /\ v = owner[k]
      <4>1. rows[k] = 0
        BY <2>5, <3>3 DEF CountPlans, KeysOf
      <4>2. QED
        BY <1>4, <3>1, <4>1 DEF keyVars
    <3>4. QED
      BY <3>2, <3>3
  <2>6. CASE Register(s) \/ UpdateEmail(s) \/ DeleteKey(s) \/ RedeemCode(s)
    BY <1>3, <1>6, <2>6 DEF Register, UpdateEmail, DeleteKey, RedeemCode, keyVars
  <2>7. CASE CreateKey(s)
    <3>1. Answer(s) /\ rows' = rows
      BY <2>7 DEF CreateKey
    <3>2. CASE owner' = owner /\ live' = live
      BY <1>3, <1>6, <3>1, <3>2
    <3>3. ASSUME NEW x \in Keys, owner[x] = None,
                 owner' = [owner EXCEPT ![x] = call[s].user], live' = live \cup {x}
          PROVE  Goal
      <4>1. CASE x = k
        BY <1>4, <3>1, <3>3, <4>1 DEF Unborn
      <4>2. CASE x # k
        BY <1>1, <1>3, <1>6, <3>1, <3>3, <4>2
      <4>3. QED
        BY <4>1, <4>2
    <3>4. QED
      BY <2>7, <3>2, <3>3 DEF CreateKey
  <2>8. CASE CollectKeys(s)
    <3>1. CASE KeysOf(call[s].user) = {}
      BY <1>3, <1>6, <2>8, <3>1 DEF CollectKeys, keyVars
    <3>2. CASE KeysOf(call[s].user) # {}
      <4>1. /\ call[s].at = "unsubscribed"
            /\ call' = [call EXCEPT ![s].at = "subscribing", ![s].keys = KeysOf(call[s].user)]
            /\ rows' = rows /\ owner' = owner /\ live' = live
        BY <2>8, <3>2 DEF CollectKeys, keyVars
      <4>2. /\ call'[s].at = "subscribing" /\ call'[s].keys = KeysOf(call[s].user)
            /\ \A q \in Sessions : q # s => call'[q] = call[q]
        BY <1>1, <4>1 DEF Calls
      <4>3. Asking(k)' \subseteq Asking(k)
        BY <4>1, <4>2 DEF Asking, KeysOf
      <4>4. QED
        BY <1>3, <4>1, <4>3
    <3>3. QED
      BY <3>1, <3>2
  <2>9. CASE Subscribe(s)
    <3>1. /\ call[s].at = "subscribing" /\ Answer(s) /\ owner' = owner /\ live' = live
          /\ rows'[k] = IF k \in call[s].keys THEN rows[k] + 1 ELSE rows[k]
      BY <2>9 DEF Subscribe
    <3>2. Asking(k)' \in SUBSET (Asking(k) \ {s})
      BY <1>6, <3>1
    <3>3. CASE k \notin call[s].keys
      BY <1>3, <3>1, <3>2, <3>3
    <3>4. CASE k \in call[s].keys
      <4>1. s \in Asking(k)
        BY <3>1, <3>4 DEF Asking
      <4>2. /\ IsFiniteSet(Asking(k) \ {s})
            /\ Cardinality(Asking(k) \ {s}) = Cardinality(Asking(k)) - 1
        BY <4>1, AskingFinite, FS_RemoveElement
      <4>3. Cardinality(Asking(k)') <= Cardinality(Asking(k) \ {s})
        BY <3>2, <4>2, FS_Subset
      <4>4. QED
        BY <1>2, <3>1, <3>4, <4>2, <4>3, AskingFinite, AskingFiniteNext
    <3>5. QED
      BY <3>3, <3>4
  <2>10. CASE \E v \in People, c \in Codes : LockCode(s, v, c)
    BY <1>5, <2>10 DEF LockCode
  <2>11. QED
    BY <1>7, <2>1, <2>2, <2>3, <2>4, <2>5, <2>6, <2>7, <2>8, <2>9, <2>10 DEF Called
<1>8. ASSUME ~ \E s \in Sessions : Called(s)
      PROVE  rows' = rows /\ owner' = owner /\ live' \subseteq live /\ call' = call
  BY <1>8 DEF Next, DeleteToken, UpdateStatus, UpdateBalance, DeleteUser,
              vars, keyVars, codeVars
<1>9. CASE ~ \E s \in Sessions : Called(s)
  <2>1. Asking(k)' \subseteq Asking(k)
    BY <1>8, <1>9 DEF Asking
  <2>2. QED
    BY <1>3, <1>8, <1>9, <2>1
<1>10. QED
  BY <1>7, <1>9

(* However many calls look for subscriptions at once, a key gets no more   *)
(* rows than there are calls (service.go:459-486).  This is what is left   *)
(* of the one row that the comment of line 458 speaks of, which the model  *)
(* violates with two calls (OneSubscription).                              *)
THEOREM UsersSubscriptionsBounded == Spec => []SubscriptionsBounded
<1> DEFINE Inv == TypeOK /\ Named /\ Unborn /\ RowRoom
<1>1. Init => Inv
  <2> SUFFICES ASSUME Init
               PROVE  Inv
    OBVIOUS
  <2>1. TypeOK /\ Named /\ Unborn
    BY UsersAssumption DEF Init, TypeOK, Named, Unborn, Idle
  <2>2. ASSUME NEW k \in Keys
        PROVE  rows[k] + Cardinality(Asking(k)) <= Cardinality(Sessions)
    <3>1. rows[k] = 0
      BY DEF Init
    <3>2. QED
      BY <3>1, AskingFinite
  <2>3. QED
    BY <2>1, <2>2 DEF RowRoom
<1>2. Inv /\ [Next]_vars => Inv'
  BY TypeStep, NamedStep, UnbornStep, RowRoomStep
<1>3. Inv => SubscriptionsBounded
  <2> SUFFICES ASSUME Inv, NEW k \in Keys
               PROVE  rows[k] <= Cardinality(Sessions)
    BY DEF SubscriptionsBounded
  <2>1. rows[k] \in Nat /\ rows[k] + Cardinality(Asking(k)) <= Cardinality(Sessions)
    BY DEF RowRoom, TypeOK
  <2>2. QED
    BY <2>1, AskingFinite
<1>4. QED
  BY <1>1, <1>2, <1>3, PTL DEF Spec

----------------------------------------------------------------------------
(* Credit. *)

WorthOf(C) == [c \in Codes |-> IF c \in C THEN Value[c] ELSE 0]
Total(C)   == Cardinality(UnitsOver(Codes, MaxValue, WorthOf(C)))

LEMMA WorthType == ASSUME NEW C PROVE WorthOf(C) \in [Codes -> 0..MaxValue]
BY UsersAssumption DEF WorthOf

LEMMA TotalNone == Total({}) = 0
<1>1. {c \in Codes : WorthOf({})[c] > 0} = {}
  BY DEF WorthOf
<1>2. QED
  BY <1>1, WorthType, UnitsOverNone, UsersAssumption DEF Total

LEMMA TotalAdd ==
  ASSUME NEW C \in SUBSET Codes, NEW c \in Codes \ C
  PROVE  /\ Total(C) \in Nat /\ Total(C \cup {c}) \in Nat
         /\ Total(C \cup {c}) = Total(C) + Value[c]
<1> DEFINE f == WorthOf(C)
           g == WorthOf(C \cup {c})
<1>1. f \in [Codes -> 0..MaxValue] /\ g \in [Codes -> 0..MaxValue]
  BY WorthType
<1>2. f[c] = 0 /\ g[c] = Value[c] /\ \A x \in Codes \ {c} : g[x] = f[x]
  BY DEF WorthOf
<1> HIDE DEF f, g
<1>3. Cardinality(UnitsOver(Codes, MaxValue, g)) + f[c]
        = Cardinality(UnitsOver(Codes, MaxValue, f)) + g[c]
  BY <1>1, <1>2, UnitsOverExcept, UsersAssumption
<1>4. /\ Cardinality(UnitsOver(Codes, MaxValue, f)) \in Nat
      /\ Cardinality(UnitsOver(Codes, MaxValue, g)) \in Nat
  BY <1>1, UnitsOverFinite, UsersAssumption
<1>5. QED
  BY <1>2, <1>3, <1>4, UsersAssumption DEF Total, f, g

(* A code that a call redeems is unused, and no other call has it. *)
Held ==
  \A s \in Sessions :
    call[s].at = "redeeming" =>
      /\ usedBy[call[s].code] = None
      /\ \A q \in Sessions \ {s} : call[q].code # call[s].code

LEMMA HeldStep ==
  ASSUME TypeOK, Named, Held, [Next]_vars
  PROVE  Held'
<1>1. /\ call \in [Sessions -> Calls] /\ usedBy \in [Codes -> People \cup {None}]
      /\ None \notin Codes
  BY UsersAssumption DEF TypeOK, Calls, Places
<1>2. ASSUME NEW s \in Sessions, NEW at, NEW u, NEW e, NEW K, Begin(s, at, u, e, K, None),
             at # "redeeming", usedBy' = usedBy
      PROVE  Held'
  <2>1. /\ call'[s].at = at /\ call'[s].code = None
        /\ \A q \in Sessions : q # s => call'[q] = call[q]
    BY <1>1, <1>2 DEF Begin
  <2>2. QED
    BY <1>1, <1>2, <2>1 DEF Held, Named
<1>3. ASSUME NEW s \in Sessions, Answer(s),
             \/ usedBy' = usedBy
             \/ /\ call[s].at = "redeeming"
                /\ usedBy' = [usedBy EXCEPT ![call[s].code] = call[s].user]
      PROVE  Held'
  <2>1. /\ call'[s].at = "idle" /\ call'[s].code = None
        /\ \A q \in Sessions : q # s => call'[q] = call[q]
    BY <1>1, <1>3 DEF Answer, Idle
  <2>2. \A q \in Sessions : q # s /\ call[q].at = "redeeming" =>
          usedBy'[call[q].code] = usedBy[call[q].code]
    BY <1>1, <1>3 DEF Held, Named
  <2>3. QED
    BY <1>1, <2>1, <2>2 DEF Held, Named
<1>4. ASSUME NEW s \in Sessions, Called(s)
      PROVE  Held'
  <2>1. CASE \E e \in Emails : CheckRegister(s, e)
    BY <1>2, <2>1 DEF CheckRegister, codeVars
  <2>2. CASE \E v \in People, e \in Emails : CheckEmail(s, v, e)
    BY <1>2, <2>2 DEF CheckEmail, codeVars
  <2>3. CASE \E v \in People : CountPlans(s, v)
    BY <1>2, <2>3 DEF CountPlans, codeVars
  <2>4. CASE \E v \in People : CountKeys(s, v)
    BY <1>2, <2>4 DEF CountKeys, codeVars
  <2>5. CASE \E x \in Keys : FindKey(s, x)
    BY <1>2, <2>5 DEF FindKey, codeVars
  <2>6. CASE \/ Register(s) \/ UpdateEmail(s) \/ CreateKey(s)
             \/ DeleteKey(s) \/ Subscribe(s)
    BY <1>3, <2>6 DEF Register, UpdateEmail, CreateKey, DeleteKey, Subscribe, codeVars
  <2>7. CASE RedeemCode(s)
    BY <1>3, <2>7 DEF RedeemCode
  <2>8. CASE CollectKeys(s)
    <3>1. CASE KeysOf(call[s].user) = {}
      BY <1>3, <2>8, <3>1 DEF CollectKeys, codeVars
    <3>2. CASE KeysOf(call[s].user) # {}
      <4>1. /\ call' = [call EXCEPT ![s].at = "subscribing", ![s].keys = KeysOf(call[s].user)]
            /\ usedBy' = usedBy
        BY <2>8, <3>2 DEF CollectKeys, codeVars
      <4>2. /\ call'[s].at = "subscribing" /\ call'[s].code = call[s].code
            /\ \A q \in Sessions : q # s => call'[q] = call[q]
        BY <1>1, <4>1 DEF Calls
      <4>3. \A q \in Sessions : /\ call'[q].code = call[q].code
                                /\ call'[q].at = "redeeming" => call[q].at = "redeeming"
        BY <4>2
      <4>4. QED
        BY <4>1, <4>3 DEF Held
    <3>3. QED
      BY <3>1, <3>2
  <2>9. ASSUME NEW u \in People, NEW c \in Codes, LockCode(s, u, c)
        PROVE  Held'
    <3>1. /\ call'[s].at = "redeeming" /\ call'[s].code = c
          /\ \A q \in Sessions : q # s => call'[q] = call[q]
          /\ usedBy' = usedBy /\ usedBy[c] = None
          /\ \A q \in Sessions : call[q].code # c
      BY <1>1, <2>9 DEF LockCode, Begin, codeVars
    <3>2. QED
      BY <3>1 DEF Held
  <2>10. QED
    BY <1>4, <2>1, <2>2, <2>3, <2>4, <2>5, <2>6, <2>7, <2>8, <2>9 DEF Called
<1>5. ASSUME ~ \E s \in Sessions : Called(s)
      PROVE  UNCHANGED <<call, usedBy>>
  BY <1>5 DEF Next, DeleteToken, UpdateStatus, UpdateBalance, DeleteUser, vars, codeVars
<1>6. QED
  BY <1>4, <1>5 DEF Held

LEMMA RedeemStep ==
  ASSUME TypeOK, Named, Held, RedeemedOnce, [Next]_vars
  PROVE  RedeemedOnce'
<1> SUFFICES ASSUME NEW v \in People
             PROVE  /\ balance'[v] = base'[v] + Total(credited'[v])
                    /\ \A x \in credited'[v] : usedBy'[x] = v
  BY DEF RedeemedOnce, Credit, Total, WorthOf
<1>1. /\ balance[v] = base[v] + Total(credited[v])
      /\ \A x \in credited[v] : usedBy[x] = v
  BY DEF RedeemedOnce, Credit, Total, WorthOf
<1>2. /\ balance[v] \in Nat /\ base[v] \in Nat /\ credited[v] \in SUBSET Codes
      /\ balance \in [People -> Nat] /\ base \in [People -> Nat]
      /\ credited \in [People -> SUBSET Codes] /\ usedBy \in [Codes -> People \cup {None}]
  BY DEF TypeOK
<1>3. CASE UNCHANGED <<balance, codeVars>>
  BY <1>1, <1>3 DEF codeVars
<1>4. ASSUME NEW s \in Sessions, RedeemCode(s),
             NEW u, NEW c, u = call[s].user, c = call[s].code,
             ~ UNCHANGED <<balance, codeVars>>
      PROVE  /\ balance'[v] = base'[v] + Total(credited'[v])
             /\ \A x \in credited'[v] : usedBy'[x] = v
  <2>1. u \in People /\ c \in Codes /\ usedBy[c] = None
    BY <1>4 DEF RedeemCode, Named, Held
  <2>2. /\ usedBy' = [usedBy EXCEPT ![c] = u]
        /\ balance' = [balance EXCEPT ![u] = @ + Value[c]] /\ base' = base
        /\ credited' = [credited EXCEPT ![u] = @ \cup {c}]
    BY <1>4 DEF RedeemCode, codeVars
  <2>3. c \notin credited[v]
    BY <1>1, <2>1, UsersAssumption
  <2>4. CASE v = u
    <3>1. balance'[v] = balance[v] + Value[c] /\ credited'[v] = credited[v] \cup {c}
      BY <1>2, <2>1, <2>2, <2>4
    <3>2. Total(credited[v] \cup {c}) = Total(credited[v]) + Value[c] /\ Total(credited[v]) \in Nat
      BY <1>2, <2>1, <2>3, TotalAdd
    <3>3. Value[c] \in Nat
      BY <2>1, UsersAssumption
    <3>4. balance'[v] = base'[v] + Total(credited'[v])
      <4>1. Total(credited'[v]) = Total(credited[v]) + Value[c]
        BY <3>1, <3>2
      <4>2. /\ base'[v] = base[v] /\ base[v] \in Nat
            /\ balance[v] = base[v] + Total(credited[v])
            /\ balance'[v] = balance[v] + Value[c]
        BY <1>1, <1>2, <2>2, <3>1
      <4>3. Total(credited[v]) \in Nat
        BY <3>2
      <4>4. QED
        BY <3>3, <4>1, <4>2, <4>3
    <3>5. QED
      BY <1>1, <1>2, <2>1, <2>2, <2>4, <3>1, <3>4
  <2>5. CASE v # u
    <3>1. balance'[v] = balance[v] /\ credited'[v] = credited[v]
      BY <1>2, <2>2, <2>5
    <3>2. QED
      BY <1>1, <1>2, <2>1, <2>2, <2>3, <3>1
  <2>6. QED
    BY <2>4, <2>5
<1>5. ASSUME NEW u \in People, UpdateBalance(u)
      PROVE  /\ balance'[v] = base'[v] + Total(credited'[v])
             /\ \A x \in credited'[v] : usedBy'[x] = v
  <2>1. PICK b \in Balances : /\ balance' = [balance EXCEPT ![u] = b]
                              /\ base' = [base EXCEPT ![u] = b]
                              /\ credited' = [credited EXCEPT ![u] = {}]
                              /\ usedBy' = usedBy
    BY <1>5 DEF UpdateBalance
  <2>2. CASE v = u
    <3>1. balance'[v] = b /\ base'[v] = b /\ credited'[v] = {} /\ b \in Nat
      BY <1>2, <2>1, <2>2, UsersAssumption
    <3>2. QED
      BY <3>1, TotalNone
  <2>3. CASE v # u
    BY <1>1, <1>2, <2>1, <2>3
  <2>4. QED
    BY <2>2, <2>3
<1>6. QED
  BY <1>4, <1>5, <1>3 DEF Next, Called, CheckRegister, Register, CheckEmail, UpdateEmail, CountKeys,
     CountPlans, CreateKey, FindKey, DeleteKey, CollectKeys, Subscribe, LockCode, DeleteToken,
     UpdateStatus, DeleteUser, vars, userVars

(* However many calls have a code at once, it is redeemed once, and        *)
(* whatever fails, its value comes with it (service.go:490-511).           *)
THEOREM UsersRedeemedOnce == Spec => []RedeemedOnce
<1> DEFINE Inv == TypeOK /\ Named /\ Held /\ RedeemedOnce
<1>1. Init => Inv
  <2> SUFFICES ASSUME Init
               PROVE  Inv
    OBVIOUS
  <2>1. TypeOK /\ Named
    BY UsersAssumption DEF Init, TypeOK, Named, Idle
  <2>2. ASSUME NEW v \in People
        PROVE  /\ balance[v] = base[v] + Total(credited[v])
               /\ \A x \in credited[v] : usedBy[x] = v
    BY TotalNone DEF Init
  <2>3. RedeemedOnce
    BY <2>2 DEF RedeemedOnce, Credit, Total, WorthOf
  <2>4. Held
    BY DEF Init, Held, Idle
  <2>5. QED
    BY <2>1, <2>3, <2>4
<1>2. Inv /\ [Next]_vars => Inv'
  BY TypeStep, NamedStep, HeldStep, RedeemStep
<1>3. QED
  BY <1>1, <1>2, PTL DEF Spec

----------------------------------------------------------------------------
(* The set-up of the administrator (module Setup), for any number of       *)
(* set-ups, crashes and restarts.                                          *)

CONSTANTS SetUps, Administrators, Secrets, Nothing

VARIABLES file, memory, stage, setting, setupMu, setupDone, done

SetUp == INSTANCE Setup WITH
  Calls <- SetUps, Admins <- Administrators, Keys <- Secrets, None <- Nothing,
  call <- setting

LEMMA BlankTyped ==
  /\ SetUp!Blank \in [admin : Administrators \cup {Nothing}, key : Secrets \cup {Nothing}]
  /\ SetUp!NoOne \in [SetUps -> {"idle", "waiting", "saving", "writing"}]
<1>1. SetUp!NoOne \in [SetUps -> {"idle", "waiting", "saving", "writing"}]
  BY DEF SetUp!NoOne
<1> QED
  BY <1>1 DEF SetUp!Blank

LEMMA SetupInitTyped == ASSUME SetUp!Init PROVE SetUp!TypeOK
<1>1. setupDone \in BOOLEAN
  BY DEF SetUp!Init
<1>2. setting \in [SetUps -> {"idle", "waiting", "saving", "writing"}]
  BY BlankTyped DEF SetUp!Init
<1>3. /\ file \in [admin : Administrators \cup {Nothing}, key : Secrets \cup {Nothing}]
      /\ memory \in [admin : Administrators \cup {Nothing}, key : Secrets \cup {Nothing}]
  BY BlankTyped DEF SetUp!Init
<1>4. /\ stage \in {"down", "loading", "storing", "up"}
      /\ setupMu \in SetUps \cup {Nothing} /\ done \in Nat
  BY DEF SetUp!Init
<1> QED
  BY <1>1, <1>2, <1>3, <1>4 DEF SetUp!TypeOK

(* Type correctness of a set-up (handler.go:164-225, config.go:72-123). *)
THEOREM SetupTypeOK == ASSUME SetUp!Distinct PROVE SetUp!Spec => []SetUp!TypeOK
<1>1. SetUp!Init => SetUp!TypeOK
  BY SetupInitTyped
<1>2. SetUp!TypeOK /\ [SetUp!Next]_(SetUp!vars) => SetUp!TypeOK'
  <2> SUFFICES ASSUME SetUp!TypeOK, [SetUp!Next]_(SetUp!vars) PROVE SetUp!TypeOK'
    OBVIOUS
  <2> USE DEF SetUp!TypeOK
  <2>1. CASE SetUp!Load
    BY <2>1 DEF SetUp!Load, SetUp!GenerateSecrets
  <2>2. CASE SetUp!OpenLoaded
    BY <2>2 DEF SetUp!OpenLoaded, SetUp!Blank
  <2>3. CASE SetUp!WriteLoaded
    BY <2>3 DEF SetUp!WriteLoaded
  <2>4. CASE SetUp!Stop
    BY <2>4 DEF SetUp!Stop, SetUp!Blank, SetUp!NoOne
  <2>5. ASSUME NEW c \in SetUps, SetUp!CheckSetup(c) PROVE SetUp!TypeOK'
    BY <2>5 DEF SetUp!CheckSetup
  <2>6. ASSUME NEW c \in SetUps, SetUp!LockSetup(c) PROVE SetUp!TypeOK'
    BY <2>6 DEF SetUp!LockSetup
  <2>7. ASSUME NEW c \in SetUps, SetUp!OpenFile(c) PROVE SetUp!TypeOK'
    BY <2>7 DEF SetUp!OpenFile, SetUp!Blank
  <2>8. ASSUME NEW c \in SetUps, SetUp!WriteFile(c) PROVE SetUp!TypeOK'
    BY <2>8 DEF SetUp!WriteFile
  <2>9. ASSUME NEW c \in SetUps, SetUp!SaveFails(c) PROVE SetUp!TypeOK'
    BY <2>9 DEF SetUp!SaveFails
  <2>10. CASE UNCHANGED SetUp!vars
    BY <2>10 DEF SetUp!vars
  <2> QED
    BY <2>1, <2>2, <2>3, <2>4, <2>5, <2>6, <2>7, <2>8, <2>9, <2>10 DEF SetUp!Next
<1> QED
  BY <1>1, <1>2, PTL DEF SetUp!Spec

----------------------------------------------------------------------------
(* Whoever saves holds the lock, so at most one set-up does. *)
Alone == \A c \in SetUps : setting[c] \in {"saving", "writing"} => setupMu = c

(* What is in memory can be saved, and requests are only under way while   *)
(* they are served.                                                        *)
Loaded ==
  /\ stage # "down" => memory.key # Nothing
  /\ stage = "down" => setupMu = Nothing
  /\ stage # "up" => ~setupDone /\ \A c \in SetUps : setting[c] = "idle"
  /\ \A c \in SetUps : setting[c] \in {"saving", "writing"} => memory.admin # Nothing

(* A set-up that is done has left the file whole, and so has one before the*)
(* last restart; from then on the process has what is in the file, and     *)
(* those that still wait will find it done.                                *)
Settled ==
  /\ setupDone => SetUp!Whole
  /\ SetUp!Whole =>
       /\ stage \in {"down", "up"}
       /\ stage = "up" => memory = file
       /\ \A c \in SetUps : setting[c] \notin {"saving", "writing"}
       /\ ~setupDone => \A c \in SetUps : setting[c] = "idle"

Once == done <= 1 /\ (done = 1 => SetUp!Whole)

SInv == SetUp!TypeOK /\ Alone /\ Loaded /\ Settled /\ Once

LEMMA SetupInit == ASSUME SetUp!Distinct, SetUp!Init PROVE SInv
<1>1. \A c \in SetUps : setting[c] = "idle"
  BY DEF SetUp!Init, SetUp!NoOne
<1>2. SetUp!TypeOK
  BY SetupInitTyped
<1>3. ~setupDone
  BY DEF SetUp!Init
<1>4. stage = "down" /\ setupMu = Nothing /\ done = 0
  BY DEF SetUp!Init
<1> QED
  BY <1>1, <1>2, <1>3, <1>4 DEF SInv, Alone, Loaded, Settled, SetUp!Whole, Once

(* The start of the process and its end.*)
LEMMA SetupStart ==
  ASSUME SetUp!Distinct, SInv, SetUp!Load \/ SetUp!OpenLoaded \/ SetUp!WriteLoaded \/ SetUp!Stop, SetUp!TypeOK'
  PROVE  SInv' /\ (SetUp!Whole => file' = file)
<1> USE DEF SetUp!Distinct, SInv, SetUp!TypeOK, Alone, Loaded, Settled, SetUp!Whole, Once
<1>1. CASE SetUp!Load
  BY <1>1 DEF SetUp!Load, SetUp!GenerateSecrets
<1>2. CASE SetUp!OpenLoaded
  BY <1>2 DEF SetUp!OpenLoaded, SetUp!Blank
<1>3. CASE SetUp!WriteLoaded
  BY <1>3 DEF SetUp!WriteLoaded
<1>4. CASE SetUp!Stop
  BY <1>4 DEF SetUp!Stop, SetUp!Blank, SetUp!NoOne
<1> QED
  BY <1>1, <1>2, <1>3, <1>4

(* The steps of a set-up. *)
LEMMA SetupCall ==
  ASSUME SetUp!Distinct, SInv, NEW c \in SetUps, SetUp!TypeOK',
         SetUp!CheckSetup(c) \/ SetUp!LockSetup(c) \/ SetUp!OpenFile(c) \/ SetUp!WriteFile(c) \/ SetUp!SaveFails(c)
  PROVE  SInv' /\ (SetUp!Whole => file' = file)
<1> USE DEF SetUp!Distinct, SInv, SetUp!TypeOK, Alone, Loaded, Settled, SetUp!Whole, Once
<1>1. CASE SetUp!CheckSetup(c)
  BY <1>1 DEF SetUp!CheckSetup, SetUp!Initialized
<1>2. CASE SetUp!LockSetup(c)
  BY <1>2 DEF SetUp!LockSetup
<1>3. CASE SetUp!OpenFile(c)
  BY <1>3 DEF SetUp!OpenFile, SetUp!Blank
<1>4. CASE SetUp!WriteFile(c)
  BY <1>4 DEF SetUp!WriteFile
<1>5. CASE SetUp!SaveFails(c)
  BY <1>5 DEF SetUp!SaveFails
<1> QED
  BY <1>1, <1>2, <1>3, <1>4, <1>5

LEMMA SetupStep ==
  ASSUME SetUp!Distinct, SInv, [SetUp!Next]_(SetUp!vars), SetUp!TypeOK'
  PROVE  SInv' /\ (SetUp!Whole => file' = file)
<1>1. CASE UNCHANGED SetUp!vars
  BY <1>1 DEF SetUp!vars, SInv, SetUp!TypeOK, Alone, Loaded, Settled, SetUp!Whole, Once
<1>2. CASE SetUp!Next
  BY <1>2, SetupStart, SetupCall DEF SetUp!Next
<1> QED
  BY <1>1, <1>2

----------------------------------------------------------------------------
(* No second set-up is ever answered with a token, whatever crashes,       *)
(* restarts and failures to save lie between (handler.go:164-225,          *)
(* config.go:72-123).                                                      *)
THEOREM SetupSetUpOnce == ASSUME SetUp!Distinct PROVE SetUp!Spec => []SetUp!SetUpOnce
<1>1. SetUp!Init => SInv
  BY SetupInit
<1>2. SInv /\ SetUp!TypeOK' /\ [SetUp!Next]_(SetUp!vars) => SInv'
  BY SetupStep
<1>3. SInv => SetUp!SetUpOnce
  BY DEF SInv, SetUp!TypeOK, Settled, Once, SetUp!SetUpOnce, SetUp!Whole
<1> QED
  BY <1>1, <1>2, <1>3, SetupTypeOK, PTL DEF SetUp!Spec

(* No step, failure or restart writes a file that holds an administrator   *)
(* and the secrets (handler.go:166-177, config.go:72-123).                 *)
THEOREM SetupFileKept == ASSUME SetUp!Distinct PROVE SetUp!Spec => SetUp!FileKept
<1>1. SetUp!Init => SInv
  BY SetupInit
<1>2. SInv /\ SetUp!TypeOK' /\ [SetUp!Next]_(SetUp!vars) => SInv'
  BY SetupStep
<1>3. SInv /\ SetUp!TypeOK' /\ [SetUp!Next]_(SetUp!vars) => [SetUp!Whole => file' = file]_(SetUp!vars)
  BY SetupStep
<1> QED
  BY <1>1, <1>2, <1>3, SetupTypeOK, PTL DEF SetUp!Spec, SetUp!FileKept

=============================================================================
