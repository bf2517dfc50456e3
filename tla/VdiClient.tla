----------------------------- MODULE VdiClient -----------------------------
(***************************************************************************)
(* VDIClient's LoginWindow: sign-in, the list of virtual machines, the     *)
(* connection of one of them and the token that all of it needs.           *)
(*                                                                         *)
(* Everything runs on the main thread, one handler at a time; what makes   *)
(* it hard is that no request is ever cancelled. Replies come back in any  *)
(* order, to whatever page and token the window has by then, and they      *)
(* share m_vmListData, the file template.rdp and the one qf-client.        *)
(***************************************************************************)
EXTENDS Naturals, Bags, BagsExt

CONSTANTS
    Vms,         \* the virtual machines of the user
    NoVm,        \* no machine
    Patient,     \* the user waits for a connection before asking for another
    MaxLogins,   \* bound of the model: tokens the server gives out
    MaxReplies   \* bound of the model: requests outstanding at a click

ASSUME ClientAssumption ==
    /\ NoVm \notin Vms
    /\ Patient \in BOOLEAN
    /\ MaxLogins \in Nat
    /\ MaxReplies \in Nat

VARIABLES
    page,          \* the page of m_stackedWidget
    token,         \* m_token: the number of the sign-in, 0 when empty
    loginEnabled,  \* m_loginButton is enabled
    heartbeat,     \* m_heartbeatTimer runs
    autoLogin,     \* the start-up timer that clicks Login is pending
    dialog,        \* the change-password dialog is open, which is modal
    listData,      \* m_vmListData: empty, <<a sign-in>> whose list it is, or
                   \* <<0>>, which does not parse
    list,          \* the sign-in whose machines the page shows, 0 for none
    template,      \* the machine whose file template.rdp is
    client,        \* m_rdpProcess: its machine, and the file it has read
    replies,       \* the requests whose reply is not handled yet
    issued,        \* the server: tokens given out
    valid          \* the server: tokens it honours

windowVars == <<page, token, loginEnabled, heartbeat>>
listVars == <<listData, list>>
connectVars == <<template, client>>
serverVars == <<issued, valid>>
userVars == <<autoLogin, dialog>>
vars == <<windowVars, listVars, connectVars, serverVars, userVars, replies>>

Tokens == 0..MaxLogins
NoClient == [vm |-> NoVm, file |-> NoVm]

Kinds == {"health", "login", "list", "heartbeat", "rdp", "command", "password"}

\* "read": the body of a list answer is in m_vmListData, its end is not seen.
Requests == [kind : Kinds, vm : Vms \cup {NoVm}, token : Tokens,
             answer : {"none", "ok", "error", "expired"}, read : BOOLEAN]

Outstanding == BagToSet(replies)

TypeOK ==
    /\ page \in {"login", "vms"}
    /\ {loginEnabled, heartbeat, autoLogin, dialog} \subseteq BOOLEAN
    /\ {token, list, issued} \subseteq Tokens
    /\ valid \subseteq 1..issued
    /\ listData \in {<<>>} \cup {<<t>> : t \in Tokens}
    /\ template \in Vms \cup {NoVm}
    /\ client \in [vm : Vms, file : Vms \cup {NoVm}] \cup {NoClient}
    /\ IsABag(replies) /\ Outstanding \subseteq Requests

Init ==
    /\ page = "login" /\ token = 0 /\ loginEnabled = TRUE /\ heartbeat = FALSE
    /\ autoLogin \in BOOLEAN /\ dialog = FALSE
    /\ listData = <<>> /\ list = 0
    /\ template \in Vms \cup {NoVm}    \* the file outlives the program
    /\ client = NoClient
    /\ replies = EmptyBag
    /\ issued = 0 /\ valid = {}
-----------------------------------------------------------------------------
(* Requests.                                                               *)

Request(kind, vm, tok) ==
    [kind |-> kind, vm |-> vm, token |-> tok, answer |-> "none", read |-> FALSE]

Send(r) == replies' = BagAdd(replies, r)
Then(r, next) == replies' = BagAdd(BagRemove(replies, r), next)
Done(r) == replies' = BagRemove(replies, r)

\* The bound: the user is quick, but not without limit.
Room == BagCardinality(replies) < MaxReplies

\* The user can reach the window: no modal dialog covers it.
OnPage(p) == page = p /\ ~dialog /\ Room

\* Slip: the page is left to the Back button.
HandleTokenExpiredStays ==
    /\ token' = 0
    /\ loginEnabled' = TRUE
    /\ client' = NoClient
    /\ UNCHANGED <<page, heartbeat, template>>

\* handleTokenExpired: out to the login page, whoever's token it was.
HandleTokenExpired ==
    /\ token' = 0
    /\ page' = "login"
    /\ loginEnabled' = TRUE
    /\ client' = NoClient
    /\ UNCHANGED <<heartbeat, template>>

\* A reply whose kind checks for 401 first.
Expired(kind) ==
    \E r \in Outstanding :
        /\ r.kind = kind /\ r.answer = "expired"
        /\ kind = "list" => r.read
        /\ Done(r)
        /\ HandleTokenExpired
        /\ UNCHANGED <<listVars, serverVars, userVars>>

\* A reply that changes nothing: the network failed, the server refused or, for
\* a heartbeat and a new password, whatever it said.
NothingToDo(kind) ==
    \E r \in Outstanding :
        /\ r.kind = kind /\ r.answer = "none"
        /\ Done(r)
        /\ UNCHANGED <<windowVars, listVars, connectVars, serverVars, userVars>>
-----------------------------------------------------------------------------
(* Sign-in and sign-out.                                                   *)

\* onLoginClicked, checkServerHealth.
Login ==
    /\ loginEnabled' = FALSE
    /\ Send(Request("health", NoVm, 0))
    /\ UNCHANGED <<page, token, heartbeat, listVars, connectVars, serverVars>>

LoginClick ==
    /\ OnPage("login") /\ loginEnabled
    /\ Login
    /\ UNCHANGED userVars

\* The timer of the constructor does not look at the button.
AutoLogin ==
    /\ autoLogin
    /\ autoLogin' = FALSE
    /\ Login
    /\ UNCHANGED dialog

\* Slip: an address sendLoginRequest does not accept leaves the button off.
HealthFailsKeepsButton(r) ==
    /\ Done(r)
    /\ UNCHANGED loginEnabled

\* The server is not well, or its address is not one sendLoginRequest accepts.
HealthFails(r) ==
    /\ Done(r)
    /\ loginEnabled' = TRUE

HealthReply ==
    \E r \in Outstanding :
        /\ r.kind = "health"
        /\ \/ Then(r, Request("login", NoVm, 0)) /\ UNCHANGED loginEnabled
           \/ HealthFails(r)
        /\ UNCHANGED <<page, token, heartbeat, listVars, connectVars, serverVars,
                       userVars>>

\* Slip: the heartbeat is left to the first tick of a timer nobody starts.
SignedInSilently(tok) ==
    /\ token' = tok
    /\ page' = "vms"
    /\ UNCHANGED <<loginEnabled, heartbeat>>

SignedIn(tok) ==
    /\ token' = tok
    /\ page' = "vms"
    /\ heartbeat' = TRUE
    /\ UNCHANGED loginEnabled

\* onLoginReply, startHeartbeat and fetchVmList, which clears the buffer.
LoginOk ==
    \E r \in Outstanding :
        /\ r.kind = "login" /\ r.answer = "ok"
        /\ SignedIn(r.token)
        /\ listData' = <<>>
        /\ replies' = BagAdd(BagAdd(BagRemove(replies, r),
                                    Request("heartbeat", NoVm, r.token)),
                             Request("list", NoVm, r.token))
        /\ UNCHANGED <<list, connectVars, serverVars, userVars>>

LoginFails ==
    \E r \in Outstanding :
        /\ r.kind = "login" /\ r.answer = "none"
        /\ Done(r)
        /\ loginEnabled' = TRUE
        /\ UNCHANGED <<page, token, heartbeat, listVars, connectVars, serverVars,
                       userVars>>

\* onBackClicked: the list and the client stay as they are.
Back ==
    /\ OnPage("vms")
    /\ heartbeat' = FALSE
    /\ page' = "login"
    /\ token' = 0
    /\ loginEnabled' = TRUE
    /\ UNCHANGED <<listVars, connectVars, serverVars, userVars, replies>>

\* sendHeartbeat, from the timer; onHeartbeatReply only logs.
Heartbeat ==
    /\ heartbeat /\ token # 0
    /\ \A r \in Outstanding : r.kind # "heartbeat"    \* bound of the model
    /\ Send(Request("heartbeat", NoVm, token))
    /\ UNCHANGED <<windowVars, listVars, connectVars, serverVars, userVars>>

\* onChangePasswordClicked: the dialog runs an event loop of its own ...
ChangePassword ==
    /\ OnPage("vms") /\ token # 0
    /\ dialog' = TRUE
    /\ UNCHANGED <<windowVars, listVars, connectVars, serverVars, replies,
                   autoLogin>>

\* ... and the request carries the token there is when it ends.
DialogAccepted ==
    /\ dialog
    /\ dialog' = FALSE
    /\ Send(Request("password", NoVm, token))
    /\ UNCHANGED <<windowVars, listVars, connectVars, serverVars, autoLogin>>

DialogRejected ==
    /\ dialog
    /\ dialog' = FALSE
    /\ UNCHANGED <<windowVars, listVars, connectVars, serverVars, replies,
                   autoLogin>>
-----------------------------------------------------------------------------
(* The list of virtual machines.                                           *)

\* onRefreshClicked, fetchVmList.
Refresh ==
    /\ OnPage("vms") /\ token # 0
    /\ listData' = <<>>
    /\ Send(Request("list", NoVm, token))
    /\ UNCHANGED <<windowVars, list, connectVars, serverVars, userVars>>

\* readyRead: the body goes to the buffer all list requests share.
ListRead ==
    \E r \in Outstanding :
        /\ r.kind = "list" /\ r.answer # "none" /\ ~r.read
        /\ Then(r, [r EXCEPT !.read = TRUE])
        /\ listData' = IF listData = <<>> /\ r.answer = "ok" THEN <<r.token>>
                       ELSE <<0>>
        /\ UNCHANGED <<windowVars, list, connectVars, serverVars, userVars>>

\* onVmListReply parses the buffer, which may hold another request's list.
ListOk ==
    \E r \in Outstanding :
        /\ r.kind = "list" /\ r.answer = "ok" /\ r.read
        /\ Done(r)
        /\ list' = IF listData \in {<<>>, <<0>>} THEN list ELSE listData[1]
        /\ UNCHANGED <<windowVars, listData, connectVars, serverVars, userVars>>

\* A refusal, whose body is in the buffer by now.
ListError ==
    \E r \in Outstanding :
        /\ r.kind = "list" /\ r.answer = "error" /\ r.read
        /\ Done(r)
        /\ UNCHANGED <<windowVars, listVars, connectVars, serverVars, userVars>>
-----------------------------------------------------------------------------
(* Connecting.                                                             *)

Connecting == \E r \in Outstanding : r.kind \in {"rdp", "command"}
Starting == client # NoClient /\ client.file = NoVm

\* onVmConnectClicked; the button stays enabled.
ConnectClick(v) ==
    /\ OnPage("vms") /\ list # 0
    /\ Patient => ~Connecting /\ ~Starting
    /\ Send(Request("rdp", v, token))
    /\ UNCHANGED <<windowVars, listVars, connectVars, serverVars, userVars>>

\* Slip: what the writing of the file says is not looked at.
RdpFileOkUnwritten ==
    \E r \in Outstanding :
        /\ r.kind = "rdp" /\ r.answer = "ok"
        /\ Then(r, Request("command", r.vm, token))
        /\ template' \in {r.vm, template}
        /\ UNCHANGED <<windowVars, listVars, client, serverVars, userVars>>

\* onVmRdpFileReply saves the file and asks for the command, with the token
\* the window has now.
RdpFileOk ==
    \E r \in Outstanding :
        /\ r.kind = "rdp" /\ r.answer = "ok"
        /\ Then(r, Request("command", r.vm, token))
        /\ template' = r.vm
        /\ UNCHANGED <<windowVars, listVars, client, serverVars, userVars>>

\* The file cannot be opened, or not be written to its end.
RdpFileNotSaved ==
    \E r \in Outstanding :
        /\ r.kind = "rdp" /\ r.answer = "ok"
        /\ Done(r)
        /\ template' \in {template, NoVm}
        /\ UNCHANGED <<windowVars, listVars, client, serverVars, userVars>>

\* onVmLoginReply ends the client there is and starts one for this machine,
\* which the system may refuse.
CommandOk ==
    \E r \in Outstanding :
        /\ r.kind = "command" /\ r.answer = "ok"
        /\ Done(r)
        /\ client' \in {[vm |-> r.vm, file |-> NoVm], NoClient}
        /\ UNCHANGED <<windowVars, listVars, template, serverVars, userVars>>

\* Slip: the client is taken to be there still.
ClientReadsLate ==
    /\ client.file = NoVm /\ template # NoVm
    /\ client' = [client EXCEPT !.file = template]
    /\ UNCHANGED <<windowVars, listVars, template, serverVars, userVars, replies>>

\* qf-client parses its command line and reads the file while it connects.
ClientReads ==
    /\ Starting
    /\ client' = IF template = NoVm THEN NoClient
                 ELSE [client EXCEPT !.file = template]
    /\ UNCHANGED <<windowVars, listVars, template, serverVars, userVars, replies>>

ClientEnds ==
    /\ client # NoClient
    /\ client' = NoClient
    /\ UNCHANGED <<windowVars, listVars, template, serverVars, userVars, replies>>
-----------------------------------------------------------------------------
(* The server, and the network on the way to it.                           *)

\* A request is judged by the token it carries, when the server sees it.
Answers(r) ==
    IF r.token \notin valid THEN {"expired"}
    ELSE CASE r.kind = "list" -> {"ok", "error"}
           [] r.kind \in {"rdp", "command"} -> {"ok"}
           [] OTHER -> {}

Answer(r) ==
    /\ r.answer = "none" /\ r.kind \in {"list", "rdp", "command", "password"}
    /\ \E a \in Answers(r) : Then(r, [r EXCEPT !.answer = a])
    /\ UNCHANGED <<windowVars, listVars, connectVars, serverVars, userVars>>

GiveToken(r) ==
    /\ r.answer = "none" /\ r.kind = "login" /\ issued < MaxLogins
    /\ issued' = issued + 1
    /\ valid' = valid \cup {issued + 1}
    /\ Then(r, [r EXCEPT !.answer = "ok", !.token = issued + 1])
    /\ UNCHANGED <<windowVars, listVars, connectVars, userVars>>

TokenExpires(t) ==
    /\ valid' = valid \ {t}
    /\ UNCHANGED <<windowVars, listVars, connectVars, userVars, replies, issued>>
-----------------------------------------------------------------------------
Replied ==
    \/ HealthReply \/ LoginOk \/ LoginFails
    \/ ListRead \/ ListOk \/ ListError
    \/ RdpFileOk \/ RdpFileNotSaved \/ CommandOk
    \/ \E kind \in {"list", "rdp", "command", "password"} : Expired(kind)
    \/ \E kind \in {"list", "rdp", "command", "password", "heartbeat"} :
           NothingToDo(kind)

User ==
    \/ LoginClick \/ Back \/ Refresh
    \/ ChangePassword \/ DialogAccepted \/ DialogRejected
    \/ \E v \in Vms : ConnectClick(v)

Server ==
    \/ \E r \in Outstanding : Answer(r) \/ GiveToken(r)
    \/ \E t \in valid : TokenExpires(t)

Next ==
    \/ User \/ AutoLogin \/ Heartbeat \/ Replied \/ Server
    \/ ClientReads \/ ClientEnds

\* Timers fire and a reply that has arrived is handled. Sign-in has a transfer
\* timeout, so its requests end; so do heartbeats here. Nobody makes the server
\* answer the other requests, and the user does as he likes.
Fairness ==
    /\ WF_vars(HealthReply)
    /\ WF_vars(LoginOk \/ LoginFails)
    /\ WF_vars(Heartbeat) /\ WF_vars(NothingToDo("heartbeat"))
    /\ WF_vars(ListRead)
    /\ WF_vars(\E kind \in {"list", "rdp", "command", "password"} : Expired(kind))

Spec == Init /\ [][Next]_vars /\ Fairness
-----------------------------------------------------------------------------
(* Properties.                                                             *)

\* Whoever sees the list page is signed in, and the heartbeat that keeps the
\* sign-in alive runs: whatever Back, late sign-ins and late 401 answers did.
ListPageIsLive == page = "vms" => token # 0 /\ heartbeat

\* Lists, heartbeats and connections are never asked for without a token. (A
\* command and a password may be: their chain outlives the sign-in.)
NoAnonymousRequest ==
    \A r \in Outstanding : r.kind \in {"list", "heartbeat", "rdp"} => r.token # 0

\* A user who waits for one connection before asking for the next gets the
\* machine he asked for: the file qf-client has read is that machine's, though
\* every connection goes through the one template.rdp, and may fail half-way.
RightMachine ==
    Patient => client.file \in {NoVm, client.vm}

\* The login page never hangs: a sign-in begun is followed by the list page or
\* by a button that can be clicked again, whatever health and login return.
LoginComesBack ==
    page = "login" /\ ~loginEnabled ~> page = "vms" \/ loginEnabled
=============================================================================
