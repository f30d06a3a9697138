---------------------------- MODULE DeviceSignIn ----------------------------
(***************************************************************************)
(* How a TV gets a token: it asks for a code, the user approves or         *)
(* declines the code in a signed-in browser, the TV polls for its token    *)
(* (src/src/auth/device_service.py, session_store.py).  The sign-ins and   *)
(* codes are rows of an SQLite file, of which each method of the store is  *)
(* one transaction; the account is in auth.json, with the generation that  *)
(* the sign-ins of now carry (auth/service.py).  A change of the account   *)
(* writes the one, then the other.                                         *)
(***************************************************************************)
EXTENDS Naturals, FiniteSets

CONSTANTS Codes,     \* the codes TVs ask for
          Sessions,  \* the sign-ins; bound of SessionLimit
          Clock,     \* bound: the last generation
          Asked,     \* bound: the requests under way
          Nobody     \* no session

ASSUME SignInAssumption == Nobody \notin Sessions /\ Clock \in Nat /\ Asked \in Nat

VARIABLES account,    \* the generation of the account in memory; 0: no account
          saved,      \* the one in auth.json
          clock,      \* the last value of _monotonic_ms
          changing,   \* auth.json is saved and the rows are not revoked yet
          enrolling,  \* the setting tv_enabled
          code,       \* per code: its row's state; "none" before it
          by,         \* its approving_session_id
          outdated,   \* the codes past their expires_ms
          kind,       \* per session: "browser" or "tv"; "none" before its row
          era,        \* its account_generation
          active,     \* the sessions neither revoked nor expired
          polls,      \* codes a TV asks about, past require_enrollment
          decisions,  \* <<code, session>>: past require_browser_mutation
          withdrawn,  \* history: codes that must not yield a token any more
          over        \* history: sessions that must not be accepted any more

accounts == <<account, saved, clock, changing>>
codes    == <<code, by, outdated>>
sessions == <<kind, era, active>>
requests == <<polls, decisions>>
history  == <<withdrawn, over>>
vars == <<accounts, enrolling, codes, sessions, requests, history>>

States == {"none", "pending", "approved", "denied", "cancelled", "consumed"}
Eras   == 0 .. Clock

TypeOK ==
  /\ account \in Eras /\ saved \in Eras /\ clock \in Eras
  /\ changing \in BOOLEAN /\ enrolling \in BOOLEAN
  /\ code \in [Codes -> States] /\ by \in [Codes -> Sessions \cup {Nobody}]
  /\ outdated \subseteq Codes
  /\ kind \in [Sessions -> {"none", "browser", "tv"}] /\ era \in [Sessions -> Eras]
  /\ active \subseteq Sessions
  /\ polls \subseteq Codes /\ decisions \subseteq Codes \X Sessions
  /\ withdrawn \subseteq Codes /\ over \subseteq Sessions
  /\ \A c \in Codes : code[c] = "approved" => by[c] # Nobody /\ kind[by[c]] = "browser"
  /\ \A s \in Sessions : kind[s] = "none" => s \notin active
  /\ changing => account = saved

Init ==
  /\ account = 0 /\ saved = 0 /\ clock = 0
  /\ changing = FALSE /\ enrolling = TRUE
  /\ code = [c \in Codes |-> "none"] /\ by = [c \in Codes |-> Nobody]
  /\ outdated = {}
  /\ kind = [s \in Sessions |-> "none"] /\ era = [s \in Sessions |-> 0]
  /\ active = {}
  /\ polls = {} /\ decisions = {}
  /\ withdrawn = {} /\ over = {}

CodesIn(states) == {c \in Codes : code[c] \in states}
Open == CodesIn({"pending", "approved"})

(* Codes whose approval is a session's. *)
Approved(who) == {c \in CodesIn({"approved"}) : by[c] \in who}

SetCodes(which, state) == code' = [c \in Codes |-> IF c \in which THEN state ELSE code[c]]

-----------------------------------------------------------------------------
(* Sign-ins. *)

(* create_session, by a password or a code.  The row is of this account.   *)
Create(s, k) ==
  /\ kind[s] = "none"
  /\ kind' = [kind EXCEPT ![s] = k]
  /\ era' = [era EXCEPT ![s] = account]
  /\ active' = active \cup {s}

(* authenticate in a browser, or the TV's login. *)
SignIn(s, k) ==
  /\ ~changing /\ account # 0
  /\ k = "tv" => enrolling
  /\ Create(s, k)
  /\ UNCHANGED <<accounts, enrolling, codes, requests, history>>

(* A session's approvals go with it.  Its own row, and they, are one       *)
(* transaction.                                                            *)
Revoke(s) ==
  /\ s \in active
  /\ active' = active \ {s}
  /\ SetCodes(Approved({s}), "cancelled")
  /\ withdrawn' = withdrawn \cup Approved({s}) /\ over' = over \cup {s}
  /\ UNCHANGED <<accounts, enrolling, by, outdated, kind, era, requests>>

(* revoke_sessions: all but one, and every open code.  The rows of the     *)
(* username in use (session_store.py 135); a row of an earlier username is *)
(* of an earlier generation, and so never Accepted again.                  *)
RevokeAllBut(kept) ==
  /\ active' = active \cap kept
  /\ SetCodes(Open, "cancelled")
  /\ withdrawn' = withdrawn \cup Open /\ over' = over \cup (active \ kept)
  /\ UNCHANGED <<by, outdated, kind, era>>

RevokeOthers(s) ==
  /\ kind[s] = "browser"
  /\ RevokeAllBut({s})
  /\ UNCHANGED <<accounts, enrolling, requests>>

(* A session, or a code, runs out. *)
ExpireSession(s) ==
  /\ s \in active
  /\ active' = active \ {s}
  /\ withdrawn' = withdrawn \cup Approved({s}) /\ over' = over \cup {s}
  /\ UNCHANGED <<accounts, enrolling, codes, kind, era, requests>>

ExpireCode(c) ==
  /\ code[c] # "none" /\ c \notin outdated
  /\ outdated' = outdated \cup {c} /\ withdrawn' = withdrawn \cup {c}
  /\ UNCHANGED <<accounts, enrolling, code, by, sessions, requests, over>>

-----------------------------------------------------------------------------
(* The account. *)

(* The change is in memory; then it is in auth.json, or it is not.  From   *)
(* the moment it is saved no sign-in and no approval from before counts.   *)
Store(generation, landed) ==
  /\ clock < Clock /\ clock' = clock + 1
  /\ account' = generation
  /\ saved' = IF landed THEN generation ELSE saved
  /\ IF landed
     THEN /\ withdrawn' = withdrawn \cup CodesIn({"approved"})
          /\ over' = over \cup {s \in Sessions : kind[s] # "none"}
     ELSE UNCHANGED history

(* create_initial_user. *)
SetUp ==
  /\ ~changing /\ account = 0
  /\ \E landed \in BOOLEAN : Store(clock + 1, landed)
  /\ UNCHANGED <<changing, enrolling, codes, sessions, requests>>

(* Mutant: the rows are revoked and the generation is not saved. *)
ChangeUnsaved ==
  /\ ~changing /\ account # 0
  /\ clock < Clock /\ clock' = clock + 1
  /\ account' \in {0, clock + 1} /\ changing' = TRUE
  /\ withdrawn' = withdrawn \cup CodesIn({"approved"})
  /\ over' = over \cup {s \in Sessions : kind[s] # "none"}
  /\ UNCHANGED <<saved, enrolling, codes, sessions, requests>>

(* change_password, change_username and invalidate_all_sessions advance    *)
(* the generation, disable_auth_for_user removes the account.              *)
Change ==
  /\ ~changing /\ account # 0
  /\ changing' \in BOOLEAN
  /\ \E generation \in {0, clock + 1} : Store(generation, changing')
  /\ UNCHANGED <<enrolling, codes, sessions, requests>>

(* Then the rows are revoked, unless the database fails. *)
ChangeEnds ==
  /\ changing /\ changing' = FALSE
  /\ RevokeAllBut({}) \/ UNCHANGED <<codes, sessions, history>>
  /\ UNCHANGED <<account, saved, clock, enrolling, requests>>

Restart ==
  /\ account' = saved /\ changing' = FALSE
  /\ polls' = {} /\ decisions' = {}
  /\ UNCHANGED <<saved, clock, enrolling, codes, sessions, history>>

(* set_enrollment: turning it off cancels every open code. *)
SetEnrollment(on) ==
  /\ enrolling # on /\ enrolling' = on
  /\ IF on THEN UNCHANGED <<code, withdrawn>>
     ELSE SetCodes(Open, "cancelled") /\ withdrawn' = withdrawn \cup Open
  /\ UNCHANGED <<accounts, by, outdated, sessions, requests, over>>

-----------------------------------------------------------------------------
(* The codes. *)

Authorize(c) ==
  /\ account # 0 /\ enrolling /\ code[c] = "none"
  /\ SetCodes({c}, "pending")
  /\ UNCHANGED <<accounts, enrolling, by, outdated, sessions, requests, history>>

(* A sign-in that counts, and one that may approve. *)
Accepted(s)      == s \in active /\ account # 0 /\ era[s] = account
ActiveBrowser(s) == Accepted(s) /\ kind[s] = "browser"

Room == Cardinality(polls) + Cardinality(decisions) < Asked

(* The browser's request is let in; what it asks for comes later. *)
AskToDecide(c, s) ==
  /\ ~changing /\ enrolling /\ Room
  /\ ActiveBrowser(s)
  /\ decisions' = decisions \cup {<<c, s>>}
  /\ UNCHANGED <<accounts, enrolling, codes, sessions, polls, history>>

(* Mutant: the approver is not recorded. *)
DecideForgetsBrowser(c, s) ==
  /\ <<c, s>> \in decisions /\ ~changing
  /\ decisions' = decisions \ {<<c, s>>}
  /\ IF enrolling /\ ActiveBrowser(s) /\ code[c] = "pending" /\ c \notin outdated
     THEN \/ SetCodes({c}, "approved") /\ UNCHANGED withdrawn
          \/ SetCodes({c}, "denied") /\ withdrawn' = withdrawn \cup {c}
     ELSE UNCHANGED <<code, withdrawn>>
  /\ UNCHANGED <<accounts, enrolling, by, outdated, sessions, polls, over>>

(* decide: the session is asked for once more, in the transaction. *)
Decide(c, s) ==
  /\ <<c, s>> \in decisions /\ ~changing
  /\ decisions' = decisions \ {<<c, s>>}
  /\ IF enrolling /\ ActiveBrowser(s) /\ code[c] = "pending" /\ c \notin outdated
     THEN /\ by' = [by EXCEPT ![c] = s]
          /\ \/ SetCodes({c}, "approved") /\ UNCHANGED withdrawn
             \/ SetCodes({c}, "denied") /\ withdrawn' = withdrawn \cup {c}
     ELSE UNCHANGED <<code, by, withdrawn>>
  /\ UNCHANGED <<accounts, enrolling, outdated, sessions, polls, over>>

AskForToken(c) ==
  /\ ~changing /\ account # 0 /\ enrolling /\ Room
  /\ polls' = polls \cup {c}
  /\ UNCHANGED <<accounts, enrolling, codes, sessions, decisions, history>>

(* Mutant: the generation of the approval is not compared. *)
GrantTrusting(c) ==
  /\ enrolling /\ code[c] = "approved" /\ c \notin outdated
  /\ by[c] \in active /\ account # 0
  /\ \E s \in Sessions : Create(s, "tv")
  /\ SetCodes({c}, "consumed") /\ withdrawn' = withdrawn \cup {c}

(* exchange: the code is consumed with the sign-in's row, or neither is    *)
(* written.  The approving browser has to be signed in still.              *)
Grant(c) ==
  /\ enrolling /\ code[c] = "approved" /\ c \notin outdated
  /\ ActiveBrowser(by[c])
  /\ \E s \in Sessions : Create(s, "tv")
  /\ SetCodes({c}, "consumed") /\ withdrawn' = withdrawn \cup {c}

(* Any other poll is told why, also one that comes too soon. *)
Exchange(c) ==
  /\ c \in polls /\ ~changing
  /\ polls' = polls \ {c}
  /\ Grant(c) \/ UNCHANGED <<code, sessions, withdrawn>>
  /\ UNCHANGED <<accounts, enrolling, by, outdated, decisions, over>>

(* The TV gives up. *)
Cancel(c) ==
  /\ c \in Open
  /\ SetCodes({c}, "cancelled") /\ withdrawn' = withdrawn \cup {c}
  /\ UNCHANGED <<accounts, enrolling, by, outdated, sessions, requests, over>>

Next ==
  \/ \E s \in Sessions :
        \/ \E k \in {"browser", "tv"} : SignIn(s, k)
        \/ Revoke(s) \/ RevokeOthers(s) \/ ExpireSession(s)
  \/ \E c \in Codes : Authorize(c) \/ AskForToken(c) \/ Exchange(c) \/ Cancel(c) \/ ExpireCode(c)
  \/ \E c \in Codes, s \in Sessions : AskToDecide(c, s) \/ Decide(c, s)
  \/ SetUp \/ Change \/ ChangeEnds \/ Restart
  \/ \E on \in BOOLEAN : SetEnrollment(on)

Spec == Init /\ [][Next]_vars

-----------------------------------------------------------------------------
(* One token a code, and none once the code was declined, cancelled or     *)
(* outdated, its approver signed out, sign-in of TVs was turned off, or    *)
(* the account has changed, wherever the process stopped in between        *)
(* (device_service.py 1 "transactional, one-use TV approvals").            *)
Issued(c) == code[c] # "consumed" /\ code'[c] = "consumed"
Honoured == [][\A c \in Codes : Issued(c) => c \notin withdrawn]_vars

(* Whoever is signed out stays so: once a change of the account is saved,  *)
(* or its row revoked or outdated, no sign-in from before is accepted, not *)
(* even if the database failed, the process stopped, or the account was    *)
(* removed and made anew (service.py 674 "Advance the persisted cutoff     *)
(* first so database failure stays safe").                                 *)
SignedOut == \A s \in over : ~Accepted(s)
=============================================================================
