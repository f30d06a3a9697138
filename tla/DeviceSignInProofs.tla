------------------------- MODULE DeviceSignInProofs -------------------------
(***************************************************************************)
(* For any codes, sessions and bounds: the types of DeviceSignIn, that     *)
(* whoever is signed out stays so, and that a withdrawn code never yields  *)
(* a token.                                                                *)
(***************************************************************************)
EXTENDS DeviceSignIn, TLAPS

(* A sign-in carries a generation of its past, and none is 0. *)
EraInv ==
  /\ account <= clock /\ saved <= clock
  /\ \A s \in Sessions : era[s] <= clock /\ (kind[s] # "none" => era[s] # 0)

(* No restart can bring an ended sign-in's generation back. *)
Dead(s) == s \notin active \/ era[s] \notin {account, saved}
OverInv == \A s \in over : kind[s] # "none" /\ Dead(s)

(* A withdrawn code cannot be granted, now or after a restart. *)
Closed(c) ==
  \/ code[c] \in {"denied", "cancelled", "consumed"}
  \/ c \in outdated
  \/ code[c] = "approved" /\ Dead(by[c])
WithdrawnInv == \A c \in withdrawn : Closed(c)

IInv == TypeOK /\ EraInv /\ OverInv /\ WithdrawnInv

LEMMA InitInv == Init => IInv
PROOF
<1> SUFFICES ASSUME Init PROVE IInv
  OBVIOUS
<1>. USE SignInAssumption DEF Init
<1>1. 0 \in Eras /\ "none" \in States
  BY DEF Eras, States
<1>2. TypeOK
  BY <1>1 DEF TypeOK
<1>3. EraInv
  BY DEF EraInv
<1>4. OverInv /\ WithdrawnInv
  BY DEF OverInv, WithdrawnInv
<1>. QED BY <1>2, <1>3, <1>4 DEF IInv

(* A new sign-in is nobody's approver and was never ended. *)
LEMMA CreateInv ==
  ASSUME IInv, NEW s \in Sessions, NEW k \in {"browser", "tv"}, account # 0, Create(s, k),
         UNCHANGED <<accounts, by, outdated, over>>,
         code' \in [Codes -> States], withdrawn' \subseteq Codes,
         \A c \in Codes : code'[c] = code[c] \/ code'[c] = "consumed",
         \A c \in withdrawn' : c \in withdrawn \/ code'[c] = "consumed",
         polls' \subseteq Codes, decisions' \subseteq Codes \X Sessions, enrolling' \in BOOLEAN
  PROVE  IInv'
PROOF
<1>. USE DEF IInv, Create, accounts
<1>1. TypeOK'
  BY SignInAssumption DEF TypeOK, States, Eras
<1>2. EraInv'
  BY DEF EraInv, TypeOK, Eras
<1>3. \A r \in Sessions : r # s => (Dead(r)' <=> Dead(r)) /\ kind'[r] = kind[r]
  BY DEF Dead, TypeOK
<1>4. OverInv'
  <2>1. s \notin over
    BY DEF OverInv
  <2> QED BY <1>3, <2>1 DEF OverInv, TypeOK
<1>5. WithdrawnInv'
  <2> SUFFICES ASSUME NEW c \in withdrawn', code'[c] # "consumed" PROVE Closed(c)'
    BY DEF WithdrawnInv, Closed
  <2>1. c \in Codes /\ Closed(c) /\ code'[c] = code[c]
    BY DEF WithdrawnInv
  <2>2. CASE code[c] = "approved"
    <3>1. by[c] \in Sessions /\ by[c] # s
      BY <2>1, <2>2 DEF TypeOK
    <3>. QED BY <1>3, <2>1, <3>1 DEF Closed
  <2>. QED BY <2>1, <2>2 DEF Closed
<1>. QED BY <1>1, <1>2, <1>4, <1>5

(* A step that ends sessions and withdraws codes, and creates none. *)
LEMMA EndInv ==
  ASSUME IInv, UNCHANGED <<account, saved, clock, kind, era>>,
         changing' = changing \/ ~changing', changing' \in BOOLEAN, enrolling' \in BOOLEAN,
         active' \subseteq active, outdated \subseteq outdated', outdated' \subseteq Codes,
         code' \in [Codes -> States], by' \in [Codes -> Sessions \cup {Nobody}],
         \A c \in Codes : code'[c] = "approved" =>
            /\ by'[c] # Nobody /\ kind[by'[c]] = "browser"
            /\ (code[c] = "approved" /\ by'[c] = by[c]) \/ c \notin withdrawn',
         \A c \in Codes : code'[c] \in {"none", "pending"} => code'[c] = code[c] \/ c \notin withdrawn',
         over' \subseteq over \cup (active \ active'),
         \A c \in withdrawn' : c \in withdrawn \/ Closed(c)',
         withdrawn' \subseteq Codes,
         \A c \in Codes : code[c] \in {"denied", "cancelled", "consumed"} => code'[c] = code[c],
         polls' \subseteq Codes, decisions' \subseteq Codes \X Sessions
  PROVE  IInv'
PROOF
<1>. USE DEF IInv
<1>1. TypeOK'
  BY SignInAssumption DEF TypeOK
<1>2. EraInv'
  BY DEF EraInv
<1>3. \A r \in Sessions : Dead(r) => Dead(r)'
  BY DEF Dead
<1>4. OverInv'
  BY <1>3 DEF OverInv, TypeOK, Dead
<1>5. WithdrawnInv'
  <2> SUFFICES ASSUME NEW c \in withdrawn', c \in withdrawn PROVE Closed(c)'
    BY DEF WithdrawnInv
  <2>1. c \in Codes /\ Closed(c)
    BY DEF WithdrawnInv, TypeOK
  <2>2. CASE code[c] \in {"denied", "cancelled", "consumed"}
    BY <2>1, <2>2 DEF Closed
  <2>3. CASE c \in outdated
    BY <2>3 DEF Closed
  <2>4. CASE code[c] = "approved" /\ Dead(by[c])
    <3>1. by[c] \in Sessions
      BY <2>1, <2>4 DEF TypeOK
    <3>2. code'[c] \in States /\ code'[c] \notin {"none", "pending"}
      BY <2>1, <2>4
    <3>. QED BY <1>3, <2>1, <2>4, <3>1, <3>2 DEF Closed, States
  <2>. QED BY <2>1, <2>2, <2>3, <2>4 DEF Closed
<1>. QED BY <1>1, <1>2, <1>4, <1>5

(* A generation that was never used ends them all. *)
LEMMA StoreInv ==
  ASSUME IInv, NEW g \in {0, clock + 1}, NEW landed \in BOOLEAN, Store(g, landed),
         changing' \in BOOLEAN, changing' => landed,
         UNCHANGED <<enrolling, codes, sessions, requests>>
  PROVE  IInv'
PROOF
<1>. USE SignInAssumption DEF IInv, Store, codes, sessions, requests, history
<1>1. TypeOK'
  <2>1. clock' \in Eras /\ account' \in Eras /\ saved' \in Eras
    BY DEF TypeOK, Eras
  <2>2. withdrawn' \subseteq Codes /\ over' \subseteq Sessions
    BY DEF TypeOK, CodesIn
  <2>. QED BY <2>1, <2>2 DEF TypeOK
<1>2. EraInv'
  BY DEF EraInv, TypeOK, Eras
<1>3. \A s \in Sessions : kind[s] # "none" => era[s] # account'
  BY DEF EraInv, TypeOK, Eras
<1>4. landed => \A s \in Sessions : kind[s] # "none" => Dead(s)'
  BY <1>3 DEF Dead
<1>5. \A s \in Sessions : kind[s] # "none" /\ Dead(s) => Dead(s)'
  BY <1>3 DEF Dead
<1>6. OverInv'
  BY <1>4, <1>5 DEF OverInv, TypeOK
<1>7. WithdrawnInv'
  <2> SUFFICES ASSUME NEW c \in withdrawn' PROVE Closed(c)'
    BY DEF WithdrawnInv
  <2>1. c \in Codes /\ (c \in withdrawn => Closed(c))
    BY DEF WithdrawnInv, TypeOK, CodesIn
  <2>2. code[c] = "approved" => by[c] \in Sessions /\ kind[by[c]] # "none"
    BY <2>1 DEF TypeOK
  <2>3. c \in withdrawn \/ (landed /\ code[c] = "approved")
    BY DEF CodesIn
  <2>. QED BY <1>4, <1>5, <2>1, <2>2, <2>3 DEF Closed
<1>. QED BY <1>1, <1>2, <1>6, <1>7

LEMMA NextInv == IInv /\ [Next]_vars => IInv'
PROOF
<1> SUFFICES ASSUME IInv, [Next]_vars PROVE IInv'
  OBVIOUS
<1>. USE DEF accounts, codes, sessions, requests, history
<1>t. TypeOK /\ OverInv /\ WithdrawnInv
  BY DEF IInv
<1>1. ASSUME NEW s \in Sessions, NEW k \in {"browser", "tv"}, SignIn(s, k) PROVE IInv'
  <2>1. code' \in [Codes -> States] /\ withdrawn' \subseteq Codes
    BY <1>1, <1>t DEF SignIn, TypeOK
  <2>. QED BY <1>1, <1>t, <2>1, CreateInv DEF SignIn, TypeOK
<1>2. ASSUME NEW s \in Sessions, Revoke(s) PROVE IInv'
  <2>. USE <1>2, <1>t DEF Revoke, SetCodes, Approved, CodesIn, TypeOK
  <2>1. code' \in [Codes -> States] /\ withdrawn' \subseteq Codes
    BY DEF States
  <2>2. \A c \in withdrawn' : c \in withdrawn \/ Closed(c)'
    BY DEF Closed
  <2>. QED BY <2>1, <2>2, EndInv
<1>3. ASSUME NEW kept \in SUBSET Sessions, RevokeAllBut(kept),
             UNCHANGED <<account, saved, clock, enrolling, requests>>,
             changing' = changing \/ ~changing', changing' \in BOOLEAN
      PROVE  IInv'
  <2>. USE <1>3, <1>t DEF RevokeAllBut, SetCodes, Open, CodesIn, TypeOK
  <2>1. code' \in [Codes -> States] /\ withdrawn' \subseteq Codes
    BY DEF States
  <2>2. \A c \in withdrawn' : c \in withdrawn \/ Closed(c)'
    BY DEF Closed
  <2>. QED BY <2>1, <2>2, EndInv
<1>4. ASSUME NEW s \in Sessions, RevokeOthers(s) PROVE IInv'
  BY <1>3, <1>4, <1>t DEF RevokeOthers, TypeOK
<1>5. ASSUME NEW s \in Sessions, ExpireSession(s) PROVE IInv'
  <2>. USE <1>5, <1>t DEF ExpireSession, Approved, CodesIn, TypeOK
  <2>1. withdrawn' \subseteq Codes
    OBVIOUS
  <2>2. \A c \in withdrawn' : c \in withdrawn \/ Closed(c)'
    BY DEF Closed, Dead
  <2>. QED BY <2>1, <2>2, EndInv
<1>6. ASSUME NEW c \in Codes, Authorize(c) PROVE IInv'
  <2>. USE <1>6, <1>t DEF Authorize, SetCodes, TypeOK
  <2>1. code' \in [Codes -> States]
    BY DEF States
  <2>2. c \notin withdrawn \/ c \in outdated
    BY DEF WithdrawnInv, Closed
  <2>. QED BY <2>1, <2>2 DEF IInv, EraInv, OverInv, WithdrawnInv, Closed, Dead
<1>7. ASSUME NEW c \in Codes, AskForToken(c) PROVE IInv'
  BY <1>7, <1>t, EndInv DEF AskForToken, TypeOK
<1>8. ASSUME NEW c \in Codes, Exchange(c) PROVE IInv'
  <2>1. CASE Grant(c)
    <3>. USE <1>8, <1>t, <2>1 DEF Exchange, Grant, SetCodes
    <3>1. code' \in [Codes -> States] /\ withdrawn' \subseteq Codes
      BY DEF TypeOK, States
    <3>2. polls' \subseteq Codes /\ decisions' \subseteq Codes \X Sessions /\ enrolling' \in BOOLEAN
      BY DEF TypeOK
    <3>3. PICK s \in Sessions : Create(s, "tv")
      OBVIOUS
    <3>4. account # 0
      BY DEF ActiveBrowser, Accepted
    <3>5. \A d \in Codes : code'[d] = code[d] \/ code'[d] = "consumed"
      OBVIOUS
    <3>6. \A d \in withdrawn' : d \in withdrawn \/ code'[d] = "consumed"
      OBVIOUS
    <3>. QED BY <3>1, <3>2, <3>3, <3>4, <3>5, <3>6, CreateInv
  <2>2. CASE UNCHANGED <<code, sessions, withdrawn>>
    BY <1>8, <1>t, <2>2, EndInv DEF Exchange, TypeOK
  <2>. QED BY <1>8, <2>1, <2>2 DEF Exchange
<1>9. ASSUME NEW c \in Codes, Cancel(c) PROVE IInv'
  <2>. USE <1>9, <1>t DEF Cancel, SetCodes, Open, CodesIn, TypeOK
  <2>1. code' \in [Codes -> States] /\ withdrawn' \subseteq Codes
    BY DEF States
  <2>2. \A d \in withdrawn' : d \in withdrawn \/ Closed(d)'
    BY DEF Closed
  <2>. QED BY <2>1, <2>2, EndInv
<1>10. ASSUME NEW c \in Codes, ExpireCode(c) PROVE IInv'
  <2>1. \A d \in withdrawn' : d \in withdrawn \/ Closed(d)'
    BY <1>10 DEF ExpireCode, Closed
  <2>. QED BY <1>10, <1>t, <2>1, EndInv DEF ExpireCode, TypeOK
<1>11. ASSUME NEW c \in Codes, NEW s \in Sessions, AskToDecide(c, s) PROVE IInv'
  BY <1>11, <1>t, EndInv DEF AskToDecide, TypeOK
<1>12. ASSUME NEW c \in Codes, NEW s \in Sessions, Decide(c, s) PROVE IInv'
  <2>. USE <1>12, <1>t DEF Decide, TypeOK
  <2>1. CASE enrolling /\ ActiveBrowser(s) /\ code[c] = "pending" /\ c \notin outdated
    <3>. USE <2>1 DEF SetCodes, ActiveBrowser
    <3>1. c \notin withdrawn
      BY DEF WithdrawnInv, Closed
    <3>2. s \in Sessions /\ s # Nobody /\ by' = [by EXCEPT ![c] = s]
      BY SignInAssumption
    <3>3. CASE SetCodes({c}, "approved") /\ UNCHANGED withdrawn
      <4>1. code' \in [Codes -> States]
        BY <3>3 DEF States
      <4>. QED BY <3>1, <3>2, <3>3, <4>1, EndInv
    <3>4. CASE SetCodes({c}, "denied") /\ withdrawn' = withdrawn \cup {c}
      <4>1. code' \in [Codes -> States]
        BY <3>4 DEF States
      <4>2. \A d \in withdrawn' : d \in withdrawn \/ Closed(d)'
        BY <3>4 DEF Closed
      <4>. QED BY <3>1, <3>2, <3>4, <4>1, <4>2, EndInv
    <3>. QED BY <3>3, <3>4
  <2>. QED BY <2>1, EndInv
<1>13. CASE SetUp
  BY <1>13, <1>t, StoreInv DEF SetUp, TypeOK
<1>14. CASE Change
  BY <1>14, <1>t, StoreInv DEF Change, TypeOK
<1>15. CASE ChangeEnds
  <2>1. CASE RevokeAllBut({})
    BY <1>3, <1>15, <2>1 DEF ChangeEnds
  <2>2. CASE UNCHANGED <<codes, sessions, history>>
    BY <1>15, <1>t, <2>2, EndInv DEF ChangeEnds, TypeOK
  <2>. QED BY <1>15, <2>1, <2>2 DEF ChangeEnds
<1>16. CASE Restart
  BY <1>16, <1>t DEF Restart, IInv, TypeOK, EraInv, OverInv, WithdrawnInv, Closed, Dead
<1>17. ASSUME NEW on \in BOOLEAN, SetEnrollment(on) PROVE IInv'
  <2>. USE <1>17, <1>t DEF SetEnrollment, SetCodes, Open, CodesIn, TypeOK
  <2>1. code' \in [Codes -> States] /\ withdrawn' \subseteq Codes
    BY DEF States
  <2>2. \A d \in withdrawn' : d \in withdrawn \/ Closed(d)'
    BY DEF Closed
  <2>. QED BY <2>1, <2>2, EndInv
<1>18. CASE UNCHANGED vars
  BY <1>18 DEF vars, IInv, TypeOK, EraInv, OverInv, WithdrawnInv, Closed, Dead
<1>. QED
  BY <1>1, <1>2, <1>4, <1>5, <1>6, <1>7, <1>8, <1>9, <1>10, <1>11, <1>12, <1>13, <1>14,
     <1>15, <1>16, <1>17, <1>18 DEF Next

LEMMA Inductive == Spec => []IInv
  BY InitInv, NextInv, PTL DEF Spec

-----------------------------------------------------------------------------
(* The fields of codes and sign-ins keep their types, and an approved code *)
(* has a browser that approved it (device_service.py, decide).             *)
THEOREM TypeCorrect == Spec => []TypeOK
  BY Inductive, PTL DEF IInv

(* Whoever was signed out is never accepted again, whatever failed and     *)
(* whenever the process stopped (service.py, invalidate_all_sessions).     *)
THEOREM EndedForGood == Spec => []SignedOut
PROOF
<1>1. IInv => SignedOut
  BY DEF IInv, OverInv, TypeOK, SignedOut, Accepted, Dead
<1>. QED BY <1>1, Inductive, PTL

(* A code yields one token at most, and none once it was withdrawn         *)
(* (device_service.py, exchange).                                          *)
THEOREM OneTokenOrNone == Spec => Honoured
PROOF
<1>1. IInv /\ [Next]_vars => [\A c \in Codes : Issued(c) => c \notin withdrawn]_vars
  <2> SUFFICES ASSUME IInv, Next, NEW c \in Codes, Issued(c) PROVE c \notin withdrawn
    BY DEF vars
  <2>. USE DEF Issued, SetCodes, codes
  <2>1. PICK d \in Codes : Exchange(d) /\ Grant(d)
    BY DEF Next, SignIn, Revoke, RevokeOthers, RevokeAllBut, ExpireSession, Authorize, AskForToken,
           Exchange, Cancel, ExpireCode, AskToDecide, Decide, SetUp, Change, ChangeEnds, Restart,
           SetEnrollment
  <2>2. c = d
    BY <2>1 DEF Grant
  <2>3. ~Closed(c)
    BY <2>1, <2>2 DEF Grant, ActiveBrowser, Accepted, Closed, Dead
  <2>. QED BY <2>3 DEF IInv, WithdrawnInv
<1>. QED BY <1>1, Inductive, PTL DEF Spec, Honoured
=============================================================================
