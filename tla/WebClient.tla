------------------------------- MODULE WebClient -------------------------------
(***************************************************************************)
(* The web application's private state (web/App.svelte): the connected     *)
(* wallet account, what is read for it and shown, the transactions it      *)
(* sends, with the sign-in sessions of the API (server/index.mjs).         *)
(*                                                                         *)
(* The application is one thread; between two awaits nothing else runs.    *)
(* What an await returns may arrive after the user has disconnected or     *)
(* another account has connected.  Data on the screen is represented by    *)
(* the account it belongs to.  The page shown is left open: any read a     *)
(* page makes may be made at any time.  Private jobs exist in local mode,  *)
(* which is the one modelled.                                              *)
(***************************************************************************)
EXTENDS Naturals, FiniteSets

CONSTANTS Accounts,
          MaxLogins,     \* bound: sessions ever created
          MaxCalls       \* bound: reads and logouts under way at once

None == "nobody"
NoCookie == [id |-> 0, address |-> None]

VARIABLES
  wallet,    \* the account the wallet extension exposes
  account,   \* the connected account, or None
  signer,    \* the account the sdk signs for, or None
  watching,  \* watchWallet's listeners are attached
  screen,    \* whose jobs, latestJob, gov, balances and claimables are shown
  tasks,     \* running task(): connect, transactions, Lean checks
  calls,     \* reads and logouts under way, with what they captured
  cookie,    \* vault_session in the browser
  sessions,  \* sessions of the API
  logins     \* sessions created so far

connection == <<account, signer, watching>>
serverVars == <<cookie, sessions, logins>>
clientVars == <<wallet, connection, screen, tasks, calls, serverVars>>

Blank == [jobs |-> None, latest |-> None, gov |-> None, balances |-> None]
Busy == tasks # {}

ClientInit ==
  /\ wallet \in Accounts
  /\ account = None
  /\ signer = None
  /\ watching = FALSE
  /\ screen = Blank
  /\ tasks = {} /\ calls = {}
  /\ cookie = NoCookie /\ sessions = {} /\ logins = 0

Replace(set, old, new) == (set \ {old}) \union {new}
Send(call) == Cardinality(calls) < MaxCalls /\ calls' = calls \union {call}

\* A new sdk object: every call under way was made with an older one.
Outdated == {[c EXCEPT !.sameClient = FALSE] : c \in calls}

\* Whose private jobs the API returns for a cookie; None stands for status 401.
SessionOwner(c) == IF c \in sessions THEN c.address ELSE None

-----------------------------------------------------------------------------
(* Reads for the account: refresh, refreshGovernance, loadClaims, go('lab'),    *)
(* inspectJob and poll                                                          *)

\* Chain data is asked for by address, private jobs by the cookie.  "gov" stands
\* for both reads that compare the sdk as well: the votes and the claims.  What is
\* read while nobody is connected is nobody's and is left out.
ByAddress == {"balances", "gov"}
ByCookie == {"jobs", "latest"}

Call == [kind |-> "", owner |-> None, sameClient |-> FALSE, cookie |-> NoCookie,
         served |-> FALSE, answer |-> None]

Read(kind) ==
  /\ account # None
  /\ Send(CASE kind = "balances" -> [Call EXCEPT !.kind = kind, !.owner = account, !.answer = account, !.served = TRUE]
            [] kind = "gov" -> [Call EXCEPT !.kind = kind, !.owner = account, !.answer = account, !.served = TRUE, !.sameClient = TRUE]
            [] kind = "latest" -> [Call EXCEPT !.kind = kind, !.owner = account, !.cookie = cookie]
            [] kind = "jobs" -> [Call EXCEPT !.kind = kind, !.cookie = cookie])
  /\ UNCHANGED <<wallet, connection, screen, tasks, serverVars>>

\* Mutant: the periodic refresh shows whatever arrives.
Accepted_AnyBalances(c) == c.kind \in {"gov", "latest"} => c.owner = account

\* What a response is checked against before it is shown.  The list of jobs
\* that go('lab') asks for is shown as it comes.
Accepted(c) ==
  CASE c.kind = "balances" -> c.owner = account
    [] c.kind = "gov" -> c.owner = account /\ c.sameClient
    [] c.kind = "latest" -> c.owner = account
    [] c.kind = "jobs" -> TRUE

Show(c) ==
  IF Accepted(c) /\ (c.kind \in ByCookie => c.answer # None)
    THEN screen' = [screen EXCEPT ![c.kind] = c.answer]
    ELSE UNCHANGED screen

DeliverAnswer(c) ==
  /\ c \in calls /\ c.served /\ c.kind # "logout"
  /\ calls' = calls \ {c}
  /\ Show(c)
  /\ UNCHANGED <<wallet, connection, tasks, serverVars>>

Fail(c) ==
  /\ c \in calls
  /\ calls' = calls \ {c}
  /\ UNCHANGED <<wallet, connection, screen, tasks, serverVars>>

-----------------------------------------------------------------------------
(* The API *)

Serve(c) ==
  /\ c \in calls /\ ~c.served
  /\ calls' = Replace(calls, c, [c EXCEPT !.served = TRUE, !.cookie = NoCookie,
                       !.answer = IF c.kind = "logout" THEN None ELSE SessionOwner(c.cookie)])
  /\ sessions' = IF c.kind = "logout" THEN sessions \ {c.cookie} ELSE sessions
  /\ UNCHANGED <<wallet, connection, screen, tasks, cookie, logins>>

\* The response of a logout clears the cookie, whichever session it now names.
LoggedOut(c) ==
  /\ c \in calls /\ c.served /\ c.kind = "logout"
  /\ calls' = calls \ {c}
  /\ cookie' = NoCookie
  /\ UNCHANGED <<wallet, connection, screen, tasks, sessions, logins>>

-----------------------------------------------------------------------------
(* Clearing and disconnecting *)

\* clearWalletState
Clear ==
  /\ account' = None
  /\ watching' = FALSE
  /\ screen' = Blank
  /\ signer' = None

LogoutCall == [Call EXCEPT !.kind = "logout", !.cookie = cookie]

\* disconnectWallet, by the user or by an event of the watched wallet: it does
\* not wait for a running task.
Disconnect ==
  /\ account # None
  /\ Clear
  /\ Cardinality(calls) < MaxCalls
  /\ calls' = Outdated \union {LogoutCall}
  /\ UNCHANGED <<wallet, tasks, serverVars>>

\* A refresh that finds another deployment clears the screen but does not log out.
ConfigChanged ==
  /\ Clear
  /\ calls' = Outdated
  /\ UNCHANGED <<wallet, tasks, serverVars>>

\* accountsChanged reaches the page only through watchWallet's listener.
WalletSwitches(other) ==
  /\ other # wallet
  /\ wallet' = other
  /\ IF watching
       THEN /\ Clear
            /\ Cardinality(calls) < MaxCalls
            /\ calls' = Outdated \union {LogoutCall}
       ELSE UNCHANGED <<connection, screen, calls>>
  /\ UNCHANGED <<tasks, serverVars>>

-----------------------------------------------------------------------------
(* connect *)

Task(kind, at, who) == [kind |-> kind, at |-> at, who |-> who, cookie |-> NoCookie, answer |-> None]

\* Mutant: the wallet menu works while a task runs.
Connect_Anytime ==
  /\ IF account # None \/ screen.latest # None \/ screen.jobs # None
       THEN Clear /\ calls' = Outdated
       ELSE UNCHANGED <<connection, screen, calls>>
  /\ tasks' = tasks \union {Task("connect", "approve", None)}
  /\ UNCHANGED <<wallet, serverVars>>

Connect ==
  /\ ~Busy
  /\ IF account # None \/ screen.latest # None \/ screen.jobs # None
       THEN Clear /\ calls' = Outdated
       ELSE UNCHANGED <<connection, screen, calls>>
  /\ tasks' = tasks \union {Task("connect", "approve", None)}
  /\ UNCHANGED <<wallet, serverVars>>

Advance(t, at) == tasks' = Replace(tasks, t, [t EXCEPT !.at = at])
End(t) == tasks' = tasks \ {t}

\* The wallet grants its account; the previous session is ended first.
Approve(t) ==
  /\ t \in tasks /\ t.at = "approve"
  /\ tasks' = Replace(tasks, t, [t EXCEPT !.at = "login", !.who = wallet])
  /\ sessions' = sessions \ {cookie}
  /\ cookie' = NoCookie
  /\ UNCHANGED <<wallet, connection, screen, calls, logins>>

\* login: nonce, signature, verify.  Without a signature the connection goes on
\* without a session.
Login(t) ==
  /\ t \in tasks /\ t.at = "login"
  /\ Advance(t, "check")
  /\ \/ /\ logins < MaxLogins
        /\ logins' = logins + 1
        /\ cookie' = [id |-> logins', address |-> t.who]
        /\ sessions' = sessions \union {cookie'}
     \/ UNCHANGED serverVars
  /\ UNCHANGED <<wallet, connection, screen, calls>>

LogOutAgain(t) ==
  /\ End(t)
  /\ sessions' = sessions \ {cookie}
  /\ cookie' = NoCookie
  /\ UNCHANGED <<connection, calls, logins>>

\* Mutant: whatever the wallet exposes at the end is connected.
CheckAccount_Trusting(t) ==
  /\ t \in tasks /\ t.at = "check"
  /\ tasks' = Replace(tasks, t, [t EXCEPT !.at = "network", !.who = wallet])
  /\ UNCHANGED <<wallet, connection, screen, calls, serverVars>>

\* eth_accounts must still name the account that signed in; if not, the answer of
\* eth_chainId does not matter.
CheckAccount(t) ==
  /\ t \in tasks /\ t.at = "check"
  /\ IF wallet = t.who
       THEN Advance(t, "network") /\ UNCHANGED <<connection, calls, serverVars>>
       ELSE LogOutAgain(t)
  /\ UNCHANGED <<wallet, screen>>

\* The wallet must be on the network; then the account is connected.  What the
\* wallet did since eth_accounts is not seen, it is watched from here on.
CheckNetwork(t) ==
  /\ t \in tasks /\ t.at = "network"
  /\ \/ /\ account' = t.who
        /\ watching' = TRUE
        /\ signer' = t.who /\ calls' = Outdated
        /\ tasks' = Replace(tasks, t, [t EXCEPT !.at = "list", !.cookie = cookie])
        /\ UNCHANGED serverVars
     \/ LogOutAgain(t)
  /\ UNCHANGED <<wallet, screen>>

\* Mutant: only the first wallet request has a timer.
WalletTimeout_First(t) ==
  /\ t \in tasks /\ t.at = "approve"
  /\ End(t)
  /\ UNCHANGED <<wallet, connection, screen, calls, serverVars>>

\* A wallet request refused, or unanswered for a minute, ends the attempt.
WalletTimeout(t) ==
  /\ t \in tasks /\ t.at \in {"approve", "login", "check", "network"}
  /\ End(t)
  /\ UNCHANGED <<wallet, connection, screen, calls, serverVars>>

-----------------------------------------------------------------------------
(* Tasks that use the connected account *)

\* tx: any button that sends a transaction ("send"), checkLean ("check").
AskChain(kind) ==
  /\ ~Busy
  /\ signer # None
  /\ tasks' = {Task(kind, "chain", account)}
  /\ UNCHANGED <<wallet, connection, screen, calls, serverVars>>

\* After ensureChain the transaction goes through the sdk of that moment, which
\* throws without a signer; either way the task ends.
SendTransaction(t) ==
  /\ t \in tasks /\ t.kind = "send" /\ t.at = "chain"
  /\ End(t)
  /\ UNCHANGED <<wallet, connection, screen, calls, serverVars>>

\* cancelJob is a task without the wallet.
AskCancel ==
  /\ ~Busy
  /\ screen.latest # None
  /\ tasks' = {[Task("cancel", "post", account) EXCEPT !.cookie = cookie]}
  /\ UNCHANGED <<wallet, connection, screen, calls, serverVars>>

PostJob(t) ==
  /\ t \in tasks /\ t.kind = "check" /\ t.at = "chain"
  /\ tasks' = Replace(tasks, t, [t EXCEPT !.at = "post", !.cookie = cookie])
  /\ UNCHANGED <<wallet, connection, screen, calls, serverVars>>

\* The API serves a job or the list; without a session the task ends.
ServeTask(t) ==
  LET owner == SessionOwner(t.cookie)
  IN /\ t \in tasks /\ t.at \in {"post", "list"} /\ t.answer = None
     /\ IF owner = None THEN End(t) ELSE tasks' = Replace(tasks, t, [t EXCEPT !.cookie = NoCookie, !.answer = owner])
     /\ UNCHANGED <<wallet, connection, screen, calls, serverVars>>

\* The job just made is shown, or the one cancelled if it still is; then the
\* list is asked for.
ShowJob(t) ==
  /\ t \in tasks /\ t.at = "post" /\ t.answer # None
  /\ screen' = IF t.kind = "check" \/ screen.latest = t.answer
                 THEN [screen EXCEPT !.latest = t.answer] ELSE screen
  /\ tasks' = Replace(tasks, t, [t EXCEPT !.at = "list", !.cookie = cookie, !.answer = None])
  /\ UNCHANGED <<wallet, connection, calls, serverVars>>

ShowJobs(t) ==
  /\ t \in tasks /\ t.at = "list" /\ t.answer # None
  /\ screen' = [screen EXCEPT !.jobs = t.answer]
  /\ End(t)
  /\ UNCHANGED <<wallet, connection, calls, serverVars>>

\* connect on another page than the Lean lab does not read the list.
SkipList(t) ==
  /\ t \in tasks /\ t.kind = "connect" /\ t.at = "list"
  /\ End(t)
  /\ UNCHANGED <<wallet, connection, screen, calls, serverVars>>

-----------------------------------------------------------------------------
TaskStep(t) ==
  \/ CheckAccount(t) \/ CheckNetwork(t) \/ PostJob(t) \/ ServeTask(t) \/ ShowJob(t) \/ ShowJobs(t)

ClientNext ==
  \/ \E kind \in ByAddress \union ByCookie : Read(kind)
  \/ \E c \in calls : Serve(c) \/ DeliverAnswer(c) \/ LoggedOut(c) \/ Fail(c)
  \/ Disconnect
  \/ ConfigChanged
  \/ \E other \in Accounts : WalletSwitches(other)
  \/ Connect
  \/ \E t \in tasks : Approve(t) \/ Login(t) \/ WalletTimeout(t) \/ SkipList(t)
                        \/ SendTransaction(t) \/ TaskStep(t)
  \/ \E kind \in {"send", "check"} : AskChain(kind)
  \/ AskCancel

\* The API answers and the page goes on; a wallet request is answered or times
\* out.  Nothing is assumed of the user, nor of a wallet asked to sign a
\* transaction.
ClientFairness ==
  /\ WF_clientVars(\E t \in tasks : TaskStep(t))
  /\ WF_clientVars(\E t \in tasks : WalletTimeout(t))

ClientSpec == ClientInit /\ [][ClientNext]_clientVars /\ ClientFairness

-----------------------------------------------------------------------------
Some == Accounts \union {None}
Cookies == [id : Nat, address : Some]
Tasks == [kind : {"connect", "send", "check", "cancel"},
          at : {"approve", "login", "check", "network", "list", "chain", "post"},
          who : Some, cookie : Cookies, answer : Some]
Calls == [kind : ByAddress \union ByCookie \union {"logout"}, owner : Some,
          sameClient : BOOLEAN, cookie : Cookies, served : BOOLEAN, answer : Some]

ClientTypeOK ==
  /\ wallet \in Accounts /\ account \in Some /\ signer \in Some
  /\ watching \in BOOLEAN
  /\ screen \in [ByAddress \union ByCookie -> Some]
  /\ tasks \subseteq Tasks /\ calls \subseteq Calls
  /\ cookie \in Cookies /\ sessions \subseteq Cookies /\ logins \in Nat

\* Balances, votes and claims on the screen are those of the connected account,
\* however late a read that an earlier account began is answered
\* (App.svelte 195-226, 663-674).
ShownIsOwn == \A kind \in ByAddress : screen[kind] \in {None, account}

\* The private jobs on the screen are the connected account's, and a page that
\* says it was cleared shows none (App.svelte 311: "private data cleared").
PrivateScreen == \A kind \in ByCookie : screen[kind] \in {None, account}

\* The session in the browser is never another account's than the connected one,
\* so private tools never act for someone else (App.svelte 330-348, index.mjs 230).
SessionIsAccounts ==
  account # None /\ cookie \in sessions => cookie.address = account

\* A transaction can only be signed by the account that was connected when its
\* button was pressed: though the wallet may be disconnected or exchanged while the
\* chain is checked, no other account's signer takes its place
\* (App.svelte 244-246, 318-319, 360-367).
SenderIsAsker == \A t \in tasks : t.kind = "send" => signer \in {None, t.who}

\* A connection attempt ends, whatever the wallet does
\* (wallet-connection.mjs 10-36, App.svelte 323-358).
ConnectEnds == []<>(\A t \in tasks : t.kind # "connect")
================================================================================
