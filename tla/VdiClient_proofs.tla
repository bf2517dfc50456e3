-------------------------- MODULE VdiClient_proofs --------------------------
(***************************************************************************)
(* Proofs about VdiClient, for any machines, any number of sign-ins and of *)
(* requests outstanding: the list page is never seen without a token and a *)
(* heartbeat, nothing is asked for without a token that needs one, and the *)
(* one template.rdp gives a patient user the machine he asked for.         *)
(***************************************************************************)
EXTENDS VdiClient, TLAPS

(* Bags.                                                                   *)

\* What is added to a bag is in it, with what was.
LEMMA Added ==
    ASSUME NEW B, IsABag(B), NEW e
    PROVE  IsABag(BagAdd(B, e)) /\ BagToSet(BagAdd(B, e)) = BagToSet(B) \cup {e}
  BY DEF IsABag, BagAdd, BagToSet

\* Removing from a bag adds nothing to it.
LEMMA Removed ==
    ASSUME NEW B, IsABag(B), NEW e
    PROVE  IsABag(BagRemove(B, e)) /\ BagToSet(BagRemove(B, e)) \subseteq BagToSet(B)
  BY DEF IsABag, BagRemove, BagToSet

\* The three ways a handler changes the requests outstanding.
LEMMA SendAdds ==
    ASSUME TypeOK, NEW e \in Requests, Send(e)
    PROVE  /\ IsABag(replies') /\ Outstanding' \subseteq Requests
           /\ Outstanding' = Outstanding \cup {e}
  BY Added DEF TypeOK, Send, Outstanding

\* A handled reply is gone, or is there once less.
LEMMA DoneRemoves ==
    ASSUME TypeOK, NEW r, Done(r)
    PROVE  /\ IsABag(replies') /\ Outstanding' \subseteq Requests
           /\ Outstanding' \subseteq Outstanding
  BY Removed DEF TypeOK, Done, Outstanding

\* A handled reply that makes the next request.
LEMMA ThenReplaces ==
    ASSUME TypeOK, NEW r, NEW e \in Requests, Then(r, e)
    PROVE  /\ IsABag(replies') /\ Outstanding' \subseteq Requests
           /\ Outstanding' \subseteq Outstanding \cup {e}
<1> DEFINE B == BagRemove(replies, r)
<1>1. IsABag(B) /\ BagToSet(B) \subseteq Outstanding
  BY Removed DEF TypeOK, Outstanding
<1>2. IsABag(BagAdd(B, e)) /\ BagToSet(BagAdd(B, e)) = BagToSet(B) \cup {e}
  BY <1>1, Added
<1>3. QED
  BY <1>1, <1>2 DEF TypeOK, Then, Outstanding

\* The requests the window makes are requests.
LEMMA RequestTypes ==
    ASSUME NEW k \in Kinds, NEW v \in Vms \cup {NoVm}, NEW t \in Tokens
    PROVE  Request(k, v, t) \in Requests
  BY DEF Request, Requests

\* Outstanding is what it was while no reply is handled and nothing is sent.
LEMMA Untouched ==
    ASSUME TypeOK, replies' = replies
    PROVE  /\ IsABag(replies') /\ Outstanding' \subseteq Requests
           /\ Outstanding' = Outstanding
  BY DEF TypeOK, Outstanding
-----------------------------------------------------------------------------
(* The inductive invariant: the window's page, the requests, and the types. *)

\* A sign-in that has succeeded carries its token.
SignInHasToken ==
    \A r \in Outstanding : r.kind = "login" /\ r.answer = "ok" => r.token # 0

Signed == TypeOK /\ ListPageIsLive /\ NoAnonymousRequest /\ SignInHasToken

\* What r must satisfy for the two facts about requests.
Fit(r) ==
    /\ r.kind \in {"list", "heartbeat", "rdp"} => r.token # 0
    /\ r.kind = "login" /\ r.answer = "ok" => r.token # 0

\* Requests that are fit stay so when only fit ones join them.
LEMMA FitJoin ==
    ASSUME NoAnonymousRequest, SignInHasToken,
           \A e \in Outstanding' : e \in Outstanding \/ Fit(e)
    PROVE  NoAnonymousRequest' /\ SignInHasToken'
  BY DEF NoAnonymousRequest, SignInHasToken, Fit

\* ... and when none joins them.
LEMMA FitStay ==
    ASSUME NoAnonymousRequest, SignInHasToken, Outstanding' \subseteq Outstanding
    PROVE  NoAnonymousRequest' /\ SignInHasToken'
  BY DEF NoAnonymousRequest, SignInHasToken

\* The types but for the bag's.
RestOK ==
    /\ page \in {"login", "vms"}
    /\ {loginEnabled, heartbeat, autoLogin, dialog} \subseteq BOOLEAN
    /\ {token, list, issued} \subseteq Tokens
    /\ valid \subseteq 1..issued
    /\ listData \in {<<>>} \cup {<<t>> : t \in Tokens}
    /\ template \in Vms \cup {NoVm}
    /\ client \in [vm : Vms, file : Vms \cup {NoVm}] \cup {NoClient}

\* TypeOK is the two together.
LEMMA TypeParts ==
    TypeOK <=> RestOK /\ IsABag(replies) /\ Outstanding \subseteq Requests
  BY DEF TypeOK, RestOK

\* What a step must keep of the requests.
RepliesInv ==
    /\ IsABag(replies) /\ Outstanding \subseteq Requests
    /\ NoAnonymousRequest /\ SignInHasToken

\* A fit request is sent.
LEMMA SendFit ==
    ASSUME Signed, NEW e \in Requests, Fit(e), Send(e)
    PROVE  RepliesInv'
<1>1. IsABag(replies') /\ Outstanding' \subseteq Requests
      /\ Outstanding' \subseteq Outstanding \cup {e}
  BY SendAdds DEF Signed
<1>2. \A x \in Outstanding' : x \in Outstanding \/ Fit(x)
  BY <1>1
<1>3. NoAnonymousRequest' /\ SignInHasToken'
  BY <1>1, <1>2, FitJoin DEF Signed
<1>4. QED
  BY <1>1, <1>3 DEF RepliesInv

\* A reply makes a fit request.
LEMMA ThenFit ==
    ASSUME Signed, NEW r, NEW e \in Requests, Fit(e), Then(r, e)
    PROVE  RepliesInv'
<1>1. IsABag(replies') /\ Outstanding' \subseteq Requests
      /\ Outstanding' \subseteq Outstanding \cup {e}
  BY ThenReplaces DEF Signed
<1>2. \A x \in Outstanding' : x \in Outstanding \/ Fit(x)
  BY <1>1
<1>3. NoAnonymousRequest' /\ SignInHasToken'
  BY <1>1, <1>2, FitJoin DEF Signed
<1>4. QED
  BY <1>1, <1>3 DEF RepliesInv

\* A reply is handled, and that was that.
LEMMA DoneFit ==
    ASSUME Signed, NEW r, Done(r)
    PROVE  RepliesInv'
<1>1. IsABag(replies') /\ Outstanding' \subseteq Requests
      /\ Outstanding' \subseteq Outstanding
  BY DoneRemoves DEF Signed
<1>2. NoAnonymousRequest' /\ SignInHasToken'
  BY <1>1, FitStay DEF Signed
<1>3. QED
  BY <1>1, <1>2 DEF RepliesInv

\* No request is touched.
LEMMA SameFit ==
    ASSUME Signed, replies' = replies
    PROVE  RepliesInv'
<1>1. IsABag(replies') /\ Outstanding' \subseteq Requests
      /\ Outstanding' \subseteq Outstanding
  BY Untouched DEF Signed
<1>2. NoAnonymousRequest' /\ SignInHasToken'
  BY <1>1, FitStay DEF Signed
<1>3. QED
  BY <1>1, <1>2 DEF RepliesInv

\* What is outstanding is a request.
LEMMA OutstandingTypes ==
    ASSUME Signed, NEW r \in Outstanding
    PROVE  /\ r \in Requests /\ r.kind \in Kinds /\ r.token \in Tokens
           /\ r.vm \in Vms \cup {NoVm}
  BY DEF Signed, TypeOK, Requests

\* The requests the window makes, and the kinds that must have a token.
LEMMA RequestFits ==
    ASSUME NEW k \in Kinds, NEW v \in Vms \cup {NoVm}, NEW t \in Tokens,
           k \in {"list", "heartbeat", "rdp"} => t # 0
    PROVE  Request(k, v, t) \in Requests /\ Fit(Request(k, v, t))
  BY DEF Request, Requests, Fit
-----------------------------------------------------------------------------
(* The steps.                                                              *)

\* The page, and the rest of the types.
PageInv == RestOK /\ ListPageIsLive

\* Sign-in, sign-out and the password.
LEMMA WindowSteps ==
    ASSUME Signed,
           LoginClick \/ AutoLogin \/ HealthReply \/ LoginOk \/ LoginFails
           \/ Back \/ Heartbeat \/ ChangePassword \/ DialogAccepted
           \/ DialogRejected
    PROVE  PageInv' /\ RepliesInv'
<1>0. RestOK /\ ListPageIsLive /\ token \in Tokens
  BY TypeParts DEF Signed, RestOK
<1>a. 0 \in Tokens /\ \A k \in {"health", "login", "list", "heartbeat",
                                "password"} : k \in Kinds
  BY ClientAssumption DEF ClientAssumption, Tokens, Kinds
<1>1. ASSUME Login, UNCHANGED dialog, autoLogin' \in BOOLEAN
      PROVE  PageInv' /\ RepliesInv'
  <2>1. RepliesInv'
    BY <1>1, <1>a, RequestFits, SendFit DEF Login
  <2>2. loginEnabled' \in BOOLEAN
    BY <1>1 DEF Login
  <2>3. PageInv'
    BY <1>0, <1>1, <2>2
       DEF Login, PageInv, RestOK, ListPageIsLive, listVars, connectVars,
           serverVars
  <2>4. QED
    BY <2>1, <2>3
<1>2. CASE LoginClick
  BY <1>0, <1>1, <1>2 DEF LoginClick, userVars, RestOK
<1>3. CASE AutoLogin
  BY <1>1, <1>3 DEF AutoLogin
<1>4. CASE HealthReply
  <2>1. PICK r \in Outstanding :
           /\ Then(r, Request("login", NoVm, 0)) \/ Done(r)
           /\ loginEnabled' \in {loginEnabled, TRUE}
           /\ UNCHANGED <<page, token, heartbeat, listVars, connectVars,
                          serverVars, userVars>>
    BY <1>4 DEF HealthReply, HealthFails
  <2>2. RepliesInv'
    BY <1>a, <2>1, RequestFits, ThenFit, DoneFit
  <2>3. PageInv'
    BY <1>0, <2>1
       DEF PageInv, RestOK, ListPageIsLive, listVars, connectVars, serverVars,
           userVars
  <2>4. QED
    BY <2>2, <2>3
<1>5. CASE LoginOk
  <2>1. PICK r \in Outstanding :
           /\ r.kind = "login" /\ r.answer = "ok"
           /\ SignedIn(r.token)
           /\ listData' = <<>>
           /\ replies' = BagAdd(BagAdd(BagRemove(replies, r),
                                       Request("heartbeat", NoVm, r.token)),
                                Request("list", NoVm, r.token))
           /\ UNCHANGED <<list, connectVars, serverVars, userVars>>
    BY <1>5 DEF LoginOk
  <2>2. r.token \in Tokens /\ r.token # 0
    BY <2>1, OutstandingTypes DEF Signed, SignInHasToken
  <2> DEFINE h == Request("heartbeat", NoVm, r.token)
             l == Request("list", NoVm, r.token)
             A == BagRemove(replies, r)
             B == BagAdd(A, h)
             C == BagAdd(B, l)
  <2>3. h \in Requests /\ Fit(h) /\ l \in Requests /\ Fit(l)
    BY <1>a, <2>2, RequestFits
  <2>4. IsABag(A) /\ BagToSet(A) \subseteq Outstanding
    BY Removed DEF Signed, TypeOK, Outstanding
  <2>5. IsABag(B) /\ BagToSet(B) = BagToSet(A) \cup {h}
    BY <2>4, Added
  <2>6. IsABag(C) /\ BagToSet(C) = BagToSet(B) \cup {l}
    BY <2>5, Added
  <2>7. Outstanding' \subseteq Outstanding \cup {h, l} /\ IsABag(replies')
    BY <2>1, <2>4, <2>5, <2>6 DEF Outstanding
  <2>8. NoAnonymousRequest' /\ SignInHasToken'
    <3>1. \A x \in Outstanding' : x \in Outstanding \/ Fit(x)
      BY <2>3, <2>7
    <3>2. QED
      BY <3>1, FitJoin DEF Signed
  <2>9. RepliesInv'
    BY <2>3, <2>7, <2>8 DEF RepliesInv, Signed, TypeOK
  <2>10. PageInv'
    BY <1>0, <2>1, <2>2
       DEF SignedIn, PageInv, RestOK, ListPageIsLive, connectVars, serverVars,
           userVars
  <2>11. QED
    BY <2>9, <2>10
<1>6. CASE LoginFails
  <2>1. RepliesInv'
    BY <1>6, DoneFit DEF LoginFails
  <2>2. PageInv'
    BY <1>0, <1>6
       DEF LoginFails, PageInv, RestOK, ListPageIsLive, listVars, connectVars,
           serverVars, userVars
  <2>3. QED
    BY <2>1, <2>2
<1>7. CASE Back
  <2>1. RepliesInv'
    BY <1>7, SameFit DEF Back
  <2>2. heartbeat' \in BOOLEAN
    BY <1>7 DEF Back
  <2>3. PageInv'
    BY <1>0, <1>7, <1>a, <2>2
       DEF Back, PageInv, RestOK, ListPageIsLive, listVars, connectVars,
           serverVars, userVars
  <2>4. QED
    BY <2>1, <2>3
<1>8. CASE Heartbeat
  <2>1. RepliesInv'
    BY <1>0, <1>8, <1>a, RequestFits, SendFit DEF Heartbeat
  <2>2. PageInv'
    BY <1>0, <1>8
       DEF Heartbeat, PageInv, RestOK, ListPageIsLive, windowVars, listVars,
           connectVars, serverVars, userVars
  <2>3. QED
    BY <2>1, <2>2
<1>9. CASE ChangePassword
  <2>1. RepliesInv'
    BY <1>9, SameFit DEF ChangePassword
  <2>2. PageInv'
    BY <1>0, <1>9
       DEF ChangePassword, PageInv, RestOK, ListPageIsLive, windowVars,
           listVars, connectVars, serverVars
  <2>3. QED
    BY <2>1, <2>2
<1>10. ASSUME DialogAccepted \/ DialogRejected
       PROVE  PageInv' /\ RepliesInv'
  <2>1. RepliesInv'
    BY <1>0, <1>10, <1>a, RequestFits, SendFit, SameFit
       DEF DialogAccepted, DialogRejected
  <2>2. dialog' \in BOOLEAN
    BY <1>10 DEF DialogAccepted, DialogRejected
  <2>3. PageInv'
    BY <1>0, <1>10, <2>2
       DEF DialogAccepted, DialogRejected, PageInv, RestOK, ListPageIsLive,
           windowVars, listVars, connectVars, serverVars
  <2>4. QED
    BY <2>1, <2>3
<1>11. QED
  BY <1>2, <1>3, <1>4, <1>5, <1>6, <1>7, <1>8, <1>9, <1>10

\* The list of machines, and the replies all kinds share.
LEMMA ListSteps ==
    ASSUME Signed,
           Refresh \/ ListRead \/ ListOk \/ ListError
           \/ (\E k \in Kinds : Expired(k)) \/ (\E k \in Kinds : NothingToDo(k))
    PROVE  PageInv' /\ RepliesInv'
<1>0. RestOK /\ ListPageIsLive /\ token \in Tokens
  BY TypeParts DEF Signed, RestOK
<1>a. 0 \in Tokens /\ "list" \in Kinds
  BY ClientAssumption DEF ClientAssumption, Tokens, Kinds
<1>1. CASE Refresh
  <2>1. RepliesInv'
    BY <1>0, <1>1, <1>a, RequestFits, SendFit DEF Refresh
  <2>2. PageInv'
    BY <1>0, <1>1
       DEF Refresh, PageInv, RestOK, ListPageIsLive, windowVars, connectVars,
           serverVars, userVars
  <2>3. QED
    BY <2>1, <2>2
<1>2. CASE ListRead
  <2>1. PICK r \in Outstanding :
           /\ r.kind = "list" /\ r.answer # "none" /\ ~r.read
           /\ Then(r, [r EXCEPT !.read = TRUE])
           /\ listData' = IF listData = <<>> /\ r.answer = "ok"
                          THEN <<r.token>> ELSE <<0>>
           /\ UNCHANGED <<windowVars, list, connectVars, serverVars, userVars>>
    BY <1>2 DEF ListRead
  <2>2. r \in Requests /\ r.token \in Tokens /\ r.token # 0
    BY <2>1, OutstandingTypes DEF Signed, NoAnonymousRequest
  <2> DEFINE e == [r EXCEPT !.read = TRUE]
  <2>3. e \in Requests /\ Fit(e)
    BY <2>1, <2>2 DEF Requests, Fit
  <2>4. RepliesInv'
    BY <2>1, <2>3, ThenFit
  <2>5. listData' \in {<<>>} \cup {<<t>> : t \in Tokens}
    BY <1>a, <2>1, <2>2
  <2>6. PageInv'
    BY <1>0, <2>1, <2>5
       DEF PageInv, RestOK, ListPageIsLive, windowVars, connectVars, serverVars,
           userVars
  <2>7. QED
    BY <2>4, <2>6
<1>3. CASE ListOk
  <2>1. RepliesInv'
    BY <1>3, DoneFit DEF ListOk
  <2>2. list' \in Tokens
    BY <1>0, <1>3 DEF ListOk, RestOK
  <2>3. PageInv'
    BY <1>0, <1>3, <2>2
       DEF ListOk, PageInv, RestOK, ListPageIsLive, windowVars, connectVars,
           serverVars, userVars
  <2>4. QED
    BY <2>1, <2>3
<1>4. CASE ListError
  <2>1. RepliesInv'
    BY <1>4, DoneFit DEF ListError
  <2>2. PageInv'
    BY <1>0, <1>4
       DEF ListError, PageInv, RestOK, ListPageIsLive, windowVars, listVars,
           connectVars, serverVars, userVars
  <2>3. QED
    BY <2>1, <2>2
<1>5. ASSUME NEW k \in Kinds, Expired(k)
      PROVE  PageInv' /\ RepliesInv'
  <2>1. RepliesInv'
    BY <1>5, DoneFit DEF Expired
  <2>2. PageInv'
    BY <1>0, <1>5, <1>a
       DEF Expired, HandleTokenExpired, PageInv, RestOK, ListPageIsLive,
           listVars, serverVars, userVars
  <2>3. QED
    BY <2>1, <2>2
<1>6. ASSUME NEW k \in Kinds, NothingToDo(k)
      PROVE  PageInv' /\ RepliesInv'
  <2>1. RepliesInv'
    BY <1>6, DoneFit DEF NothingToDo
  <2>2. PageInv'
    BY <1>0, <1>6
       DEF NothingToDo, PageInv, RestOK, ListPageIsLive, windowVars, listVars,
           connectVars, serverVars, userVars
  <2>3. QED
    BY <2>1, <2>2
<1>7. QED
  BY <1>1, <1>2, <1>3, <1>4, <1>5, <1>6

\* Connecting a machine. The page that is seen has a token to ask with.
LEMMA ConnectSteps ==
    ASSUME Signed,
           (\E v \in Vms : ConnectClick(v)) \/ RdpFileOk \/ RdpFileNotSaved
           \/ CommandOk \/ ClientReads \/ ClientEnds
    PROVE  PageInv' /\ RepliesInv'
<1>0. RestOK /\ ListPageIsLive /\ token \in Tokens
  BY TypeParts DEF Signed, RestOK
<1>a. "rdp" \in Kinds /\ "command" \in Kinds
  BY DEF Kinds
<1>1. ASSUME NEW v \in Vms, ConnectClick(v)
      PROVE  PageInv' /\ RepliesInv'
  <2>1. token # 0
    BY <1>0, <1>1 DEF ConnectClick, OnPage, ListPageIsLive
  <2>2. RepliesInv'
    BY <1>0, <1>1, <1>a, <2>1, RequestFits, SendFit DEF ConnectClick
  <2>3. PageInv'
    BY <1>0, <1>1
       DEF ConnectClick, PageInv, RestOK, ListPageIsLive, windowVars, listVars,
           connectVars, serverVars, userVars
  <2>4. QED
    BY <2>2, <2>3
<1>2. ASSUME RdpFileOk \/ RdpFileNotSaved
      PROVE  PageInv' /\ RepliesInv'
  <2>1. PICK r \in Outstanding :
           /\ Then(r, Request("command", r.vm, token)) \/ Done(r)
           /\ template' \in {r.vm, template, NoVm}
           /\ UNCHANGED <<windowVars, listVars, client, serverVars, userVars>>
    BY <1>2 DEF RdpFileOk, RdpFileNotSaved
  <2>2. r.vm \in Vms \cup {NoVm}
    BY OutstandingTypes
  <2>3. RepliesInv'
    BY <1>0, <1>a, <2>1, <2>2, RequestFits, ThenFit, DoneFit
  <2>4. PageInv'
    BY <1>0, <2>1, <2>2
       DEF PageInv, RestOK, ListPageIsLive, windowVars, listVars, serverVars,
           userVars
  <2>5. QED
    BY <2>3, <2>4
<1>3. CASE CommandOk
  <2>1. PICK r \in Outstanding :
           /\ Done(r)
           /\ client' \in {[vm |-> r.vm, file |-> NoVm], NoClient}
           /\ UNCHANGED <<windowVars, listVars, template, serverVars, userVars>>
    BY <1>3 DEF CommandOk
  <2>2. r.vm \in Vms \cup {NoVm}
    BY OutstandingTypes
  <2>3. client' \in [vm : Vms, file : Vms \cup {NoVm}] \cup {NoClient}
    BY <2>1, <2>2 DEF NoClient
  <2>4. RepliesInv'
    BY <2>1, DoneFit
  <2>5. PageInv'
    BY <1>0, <2>1, <2>3
       DEF PageInv, RestOK, ListPageIsLive, windowVars, listVars, serverVars,
           userVars
  <2>6. QED
    BY <2>4, <2>5
<1>4. ASSUME ClientReads \/ ClientEnds
      PROVE  PageInv' /\ RepliesInv'
  <2>1. RepliesInv'
    BY <1>4, SameFit DEF ClientReads, ClientEnds
  <2>2. client' \in [vm : Vms, file : Vms \cup {NoVm}] \cup {NoClient}
    BY <1>0, <1>4 DEF ClientReads, ClientEnds, Starting, RestOK
  <2>3. PageInv'
    BY <1>0, <1>4, <2>2
       DEF ClientReads, ClientEnds, PageInv, RestOK, ListPageIsLive, windowVars,
           listVars, serverVars, userVars
  <2>4. QED
    BY <2>1, <2>3
<1>5. QED
  BY <1>1, <1>2, <1>3, <1>4

\* The server answers a request, signs somebody in, or lets a token expire.
LEMMA ServerSteps ==
    ASSUME Signed, Server
    PROVE  PageInv' /\ RepliesInv'
<1>0. RestOK /\ ListPageIsLive
  BY TypeParts DEF Signed
<1>1. ASSUME NEW r \in Outstanding, Answer(r)
      PROVE  PageInv' /\ RepliesInv'
  <2>1. PICK a \in Answers(r) : Then(r, [r EXCEPT !.answer = a])
    BY <1>1 DEF Answer
  <2>2. a \in {"ok", "error", "expired"} /\ r.kind # "login"
    BY <1>1, <2>1 DEF Answer, Answers
  <2> DEFINE e == [r EXCEPT !.answer = a]
  <2>3. r \in Requests
           /\ (r.kind \in {"list", "heartbeat", "rdp"} => r.token # 0)
    BY OutstandingTypes DEF Signed, NoAnonymousRequest
  <2>4. e \in Requests /\ Fit(e)
    BY <2>2, <2>3 DEF Requests, Fit
  <2>5. RepliesInv'
    BY <2>1, <2>4, ThenFit
  <2>6. PageInv'
    BY <1>0, <1>1
       DEF Answer, PageInv, RestOK, ListPageIsLive, windowVars, listVars,
           connectVars, serverVars, userVars
  <2>7. QED
    BY <2>5, <2>6
<1>2. ASSUME NEW r \in Outstanding, GiveToken(r)
      PROVE  PageInv' /\ RepliesInv'
  <2> DEFINE e == [r EXCEPT !.answer = "ok", !.token = issued + 1]
  <2>1. issued + 1 \in Tokens /\ issued + 1 # 0
    BY <1>0, <1>2, ClientAssumption
       DEF GiveToken, RestOK, Tokens, ClientAssumption
  <2>2. r \in Requests /\ r.kind = "login"
    BY <1>2, OutstandingTypes DEF GiveToken
  <2>3. e \in Requests /\ Fit(e)
    BY <2>1, <2>2 DEF Requests, Fit
  <2>4. RepliesInv'
    BY <1>2, <2>3, ThenFit DEF GiveToken
  <2>5. valid' \subseteq 1..issued'
    BY <1>0, <1>2 DEF GiveToken, RestOK, Tokens
  <2>6. PageInv'
    BY <1>0, <1>2, <2>1, <2>5
       DEF GiveToken, PageInv, RestOK, ListPageIsLive, windowVars, listVars,
           connectVars, userVars
  <2>7. QED
    BY <2>4, <2>6
<1>3. ASSUME NEW t \in valid, TokenExpires(t)
      PROVE  PageInv' /\ RepliesInv'
  <2>1. RepliesInv'
    BY <1>3, SameFit DEF TokenExpires
  <2>2. PageInv'
    BY <1>0, <1>3
       DEF TokenExpires, PageInv, RestOK, ListPageIsLive, windowVars, listVars,
           connectVars, userVars
  <2>3. QED
    BY <2>1, <2>2
<1>4. QED
  BY <1>1, <1>2, <1>3 DEF Server

\* Every step keeps the invariant.
LEMMA SignedStep == Signed /\ [Next]_vars => Signed'
<1> SUFFICES ASSUME Signed, [Next]_vars
             PROVE  PageInv' /\ RepliesInv'
  BY DEF PageInv, RepliesInv, Signed, TypeOK, RestOK
<1>1. CASE UNCHANGED vars
  <2>1. RepliesInv'
    BY <1>1, SameFit DEF vars
  <2>2. PageInv'
    BY <1>1, TypeParts
       DEF Signed, vars, PageInv, RestOK, ListPageIsLive, windowVars, listVars,
           connectVars, serverVars, userVars
  <2>3. QED
    BY <2>1, <2>2
<1>2. ASSUME NEW k \in {"list", "rdp", "command", "password", "heartbeat"}
      PROVE  k \in Kinds
  BY DEF Kinds
<1>3. CASE Replied
  BY <1>2, <1>3, WindowSteps, ListSteps, ConnectSteps DEF Replied
<1>4. CASE User
  BY <1>4, WindowSteps, ListSteps, ConnectSteps DEF User
<1>5. CASE AutoLogin \/ Heartbeat \/ Server \/ ClientReads \/ ClientEnds
  BY <1>5, WindowSteps, ConnectSteps, ServerSteps
<1>6. QED
  BY <1>1, <1>3, <1>4, <1>5 DEF Next

\* The login page comes up with nothing outstanding.
LEMMA SignedInit == Init => Signed
<1> SUFFICES ASSUME Init
             PROVE  Signed
  OBVIOUS
<1>1. IsABag(replies) /\ Outstanding = {}
  BY DEF Init, EmptyBag, SetToBag, IsABag, Outstanding, BagToSet
<1>2. /\ loginEnabled \in BOOLEAN /\ heartbeat \in BOOLEAN
      /\ autoLogin \in BOOLEAN /\ dialog \in BOOLEAN
  BY DEF Init
<1>3. 0 \in Tokens
  BY ClientAssumption DEF ClientAssumption, Tokens
<1>4. RestOK
  BY <1>2, <1>3 DEF Init, RestOK
<1>5. QED
  BY <1>1, <1>4, TypeParts
     DEF Init, Signed, ListPageIsLive, NoAnonymousRequest, SignInHasToken

\* Every variable keeps its type, the bag of requests included.
THEOREM TypeCorrect == Spec => []TypeOK
<1>1. Signed => TypeOK
  BY DEF Signed
<1>2. QED
  BY SignedInit, SignedStep, <1>1, PTL DEF Spec

\* The list page is seen only by who is signed in and kept signed in: no late
\* sign-in, late 401 answer or Back leaves the page behind.
THEOREM PageIsLive == Spec => []ListPageIsLive
<1>1. Signed => ListPageIsLive
  BY DEF Signed
<1>2. QED
  BY SignedInit, SignedStep, <1>1, PTL DEF Spec

\* Lists, heartbeats and connections are asked for with a token, always.
THEOREM NothingAnonymous == Spec => []NoAnonymousRequest
<1>1. Signed => NoAnonymousRequest
  BY DEF Signed
<1>2. QED
  BY SignedInit, SignedStep, <1>1, PTL DEF Spec
-----------------------------------------------------------------------------
(* One connection at a time: what a patient user's one template.rdp needs. *)

\* A request of a connection.
Asks(r) == r.kind \in {"rdp", "command"}

\* At most one of them is outstanding, once.
OneAtATime(B) ==
    \A r \in BagToSet(B) :
        Asks(r) => B[r] = 1 /\ \A s \in BagToSet(B) : Asks(s) => s = r

\* The file belongs to the request that has gone on to the command, and then to
\* the client that starts; no client starts while a connection is asked for.
ChainInv ==
    /\ OneAtATime(replies)
    /\ \A r \in Outstanding :
           Asks(r) => ~Starting /\ (r.kind = "command" => template = r.vm)
    /\ Starting => template = client.vm
    /\ client.file \in {NoVm, client.vm}

Chain == Signed /\ (Patient => ChainInv)

\* Other requests may join, ...
LEMMA OthersJoin ==
    ASSUME NEW B, IsABag(B), OneAtATime(B), NEW e, ~Asks(e)
    PROVE  OneAtATime(BagAdd(B, e))
  BY DEF IsABag, BagAdd, BagToSet, OneAtATime

\* ... and any may leave.
LEMMA AnyLeaves ==
    ASSUME NEW B, IsABag(B), OneAtATime(B), NEW e
    PROVE  OneAtATime(BagRemove(B, e))
  BY DEF IsABag, BagRemove, BagToSet, OneAtATime

\* When the one leaves, none is left, ...
LEMMA LastLeaves ==
    ASSUME NEW B, IsABag(B), OneAtATime(B), NEW e \in BagToSet(B), Asks(e)
    PROVE  \A r \in BagToSet(BagRemove(B, e)) : ~Asks(r)
  BY DEF IsABag, BagRemove, BagToSet, OneAtATime

\* ... and one may join.
LEMMA FirstJoins ==
    ASSUME NEW B, IsABag(B), \A r \in BagToSet(B) : ~Asks(r), NEW e
    PROVE  OneAtATime(BagAdd(B, e))
  BY DEF IsABag, BagAdd, BagToSet, OneAtATime

\* A step that begins no connection and takes none further.
Calm ==
    /\ OneAtATime(replies)'
    /\ \A r \in Outstanding' :
           Asks(r) => \E s \in Outstanding : s.kind = r.kind /\ s.vm = r.vm

\* Such a step keeps the chain, even if it ends the client.
LEMMA CalmKeeps ==
    ASSUME ChainInv, Calm, template' = template, client' \in {client, NoClient}
    PROVE  ChainInv'
<1>1. OneAtATime(replies)'
  BY DEF Calm
<1>2. NoClient.file = NoVm
  BY DEF NoClient
<1>3. Starting' => Starting /\ client' = client
  BY DEF Starting
<1>4. \A r \in Outstanding' :
         Asks(r) => ~Starting' /\ (r.kind = "command" => template' = r.vm)
  BY <1>3 DEF Calm, ChainInv, Asks
<1>5. (Starting => template = client.vm)'
  BY <1>3 DEF ChainInv
<1>6. (client.file \in {NoVm, client.vm})'
  BY <1>2 DEF ChainInv
<1>7. QED
  BY <1>1, <1>4, <1>5, <1>6 DEF ChainInv

\* The four ways to be calm: sending another request, ...
LEMMA SendCalm ==
    ASSUME Signed, ChainInv, NEW e \in Requests, ~Asks(e), Send(e)
    PROVE  Calm
<1>1. IsABag(replies)
  BY DEF Signed, TypeOK
<1>2. OneAtATime(replies)'
  BY <1>1, OthersJoin DEF ChainInv, Send
<1>3. Outstanding' = Outstanding \cup {e}
  BY SendAdds DEF Signed
<1>4. QED
  BY <1>2, <1>3 DEF Calm

\* ... handling a reply, ...
LEMMA DoneCalm ==
    ASSUME Signed, ChainInv, NEW r, Done(r)
    PROVE  Calm
<1>1. IsABag(replies)
  BY DEF Signed, TypeOK
<1>2. OneAtATime(replies)'
  BY <1>1, AnyLeaves DEF ChainInv, Done
<1>3. Outstanding' \subseteq Outstanding
  BY DoneRemoves DEF Signed
<1>4. QED
  BY <1>2, <1>3 DEF Calm

\* ... making one request of another, when it is not a connection's or is for
\* the same step of the same machine's, ...
LEMMA ThenCalm ==
    ASSUME Signed, ChainInv, NEW r \in Outstanding, NEW e \in Requests, Then(r, e),
           ~Asks(e) \/ (e.kind = r.kind /\ e.vm = r.vm)
    PROVE  Calm
<1> DEFINE B == BagRemove(replies, r)
<1>1. IsABag(replies) /\ OneAtATime(replies) /\ r \in BagToSet(replies)
  BY DEF Signed, TypeOK, ChainInv, Outstanding
<1>2. IsABag(B)
  BY <1>1, Removed
<1>3. OneAtATime(BagAdd(B, e))
  <2>1. CASE ~Asks(e)
    BY <1>1, <1>2, <2>1, AnyLeaves, OthersJoin
  <2>2. CASE Asks(e)
    <3>1. Asks(r)
      BY <2>2 DEF Asks
    <3>2. \A s \in BagToSet(B) : ~Asks(s)
      BY <1>1, <3>1, LastLeaves
    <3>3. QED
      BY <1>2, <3>2, FirstJoins
  <2>3. QED
    BY <2>1, <2>2
<1>4. Outstanding' \subseteq Outstanding \cup {e}
  BY ThenReplaces DEF Signed
<1>5. QED
  BY <1>3, <1>4 DEF Calm, Then

\* ... and leaving the requests alone.
LEMMA SameCalm ==
    ASSUME Signed, ChainInv, replies' = replies
    PROVE  Calm
  BY Untouched DEF Signed, ChainInv, Calm

\* Sign-in, sign-out and the password are calm.
LEMMA CalmWindow ==
    ASSUME Signed, ChainInv,
           LoginClick \/ AutoLogin \/ HealthReply \/ LoginOk \/ LoginFails
           \/ Back \/ Heartbeat \/ ChangePassword \/ DialogAccepted
           \/ DialogRejected
    PROVE  Calm /\ template' = template /\ client' = client
<1>0. token \in Tokens /\ 0 \in Tokens
  BY ClientAssumption DEF ClientAssumption, Tokens, Signed, TypeOK
<1>1. \A k \in {"health", "login", "list", "heartbeat", "password"},
         t \in Tokens :
         Request(k, NoVm, t) \in Requests /\ ~Asks(Request(k, NoVm, t))
  BY DEF Request, Requests, Kinds, Asks
<1>2. CASE LoginClick \/ AutoLogin
  <2>1. Login
    BY <1>2 DEF LoginClick, AutoLogin
  <2>2. Calm
    BY <1>0, <1>1, <2>1, SendCalm DEF Login
  <2>3. QED
    BY <2>1, <2>2 DEF Login, connectVars
<1>3. CASE HealthReply
  <2>1. PICK r \in Outstanding :
           /\ Then(r, Request("login", NoVm, 0)) \/ Done(r)
           /\ UNCHANGED connectVars
    BY <1>3 DEF HealthReply, HealthFails
  <2>2. Calm
    BY <1>0, <1>1, <2>1, ThenCalm, DoneCalm
  <2>3. QED
    BY <2>1, <2>2 DEF connectVars
<1>4. CASE LoginOk
  <2>1. PICK r \in Outstanding :
           /\ replies' = BagAdd(BagAdd(BagRemove(replies, r),
                                       Request("heartbeat", NoVm, r.token)),
                                Request("list", NoVm, r.token))
           /\ UNCHANGED connectVars
    BY <1>4 DEF LoginOk
  <2> DEFINE h == Request("heartbeat", NoVm, r.token)
             l == Request("list", NoVm, r.token)
             A == BagRemove(replies, r)
             B == BagAdd(A, h)
             C == BagAdd(B, l)
  <2>2. ~Asks(h) /\ ~Asks(l)
    BY DEF Asks, Request
  <2>3. IsABag(A) /\ OneAtATime(A) /\ BagToSet(A) \subseteq Outstanding
    BY Removed, AnyLeaves DEF Signed, TypeOK, ChainInv, Outstanding
  <2>4. IsABag(B) /\ OneAtATime(B) /\ BagToSet(B) = BagToSet(A) \cup {h}
    BY <2>2, <2>3, Added, OthersJoin
  <2>5. OneAtATime(C) /\ BagToSet(C) = BagToSet(B) \cup {l}
    BY <2>2, <2>4, Added, OthersJoin
  <2>6. OneAtATime(replies)' /\ Outstanding' \subseteq Outstanding \cup {h, l}
    BY <2>1, <2>3, <2>4, <2>5 DEF Outstanding
  <2>7. QED
    BY <2>1, <2>2, <2>6 DEF Calm, connectVars
<1>5. CASE LoginFails
  BY <1>5, DoneCalm DEF LoginFails, connectVars
<1>6. CASE Heartbeat \/ DialogAccepted
  <2>1. Calm
    BY <1>0, <1>1, <1>6, SendCalm DEF Heartbeat, DialogAccepted
  <2>2. QED
    BY <1>6, <2>1 DEF Heartbeat, DialogAccepted, connectVars
<1>7. CASE Back \/ ChangePassword \/ DialogRejected
  BY <1>7, SameCalm DEF Back, ChangePassword, DialogRejected, connectVars
<1>8. QED
  BY <1>2, <1>3, <1>4, <1>5, <1>6, <1>7

\* So are the list, the replies of all kinds and the server; an expired token
\* ends the client.
LEMMA CalmRest ==
    ASSUME Signed, ChainInv,
           Refresh \/ ListRead \/ ListOk \/ ListError \/ Server
           \/ (\E k \in Kinds : Expired(k)) \/ (\E k \in Kinds : NothingToDo(k))
    PROVE  Calm /\ template' = template /\ client' \in {client, NoClient}
<1>1. CASE Refresh
  <2>1. token \in Tokens /\ "list" \in Kinds
    BY DEF Signed, TypeOK, Kinds
  <2>2. Request("list", NoVm, token) \in Requests
        /\ ~Asks(Request("list", NoVm, token))
    BY <2>1 DEF Request, Requests, Asks
  <2>3. QED
    BY <1>1, <2>2, SendCalm DEF Refresh, connectVars
<1>2. CASE ListRead
  <2>1. PICK r \in Outstanding :
           Then(r, [r EXCEPT !.read = TRUE]) /\ UNCHANGED connectVars
    BY <1>2 DEF ListRead
  <2> DEFINE e == [r EXCEPT !.read = TRUE]
  <2>2. e \in Requests /\ e.kind = r.kind /\ e.vm = r.vm
    BY OutstandingTypes DEF Requests
  <2>3. QED
    BY <2>1, <2>2, ThenCalm DEF connectVars
<1>3. CASE ListOk \/ ListError
  BY <1>3, DoneCalm DEF ListOk, ListError, connectVars
<1>4. ASSUME NEW k \in Kinds, Expired(k) \/ NothingToDo(k)
      PROVE  Calm /\ template' = template /\ client' \in {client, NoClient}
  BY <1>4, DoneCalm DEF Expired, NothingToDo, HandleTokenExpired, connectVars
<1>5. ASSUME NEW r \in Outstanding, Answer(r)
      PROVE  Calm /\ template' = template /\ client' \in {client, NoClient}
  <2>1. PICK a \in Answers(r) : Then(r, [r EXCEPT !.answer = a])
    BY <1>5 DEF Answer
  <2> DEFINE e == [r EXCEPT !.answer = a]
  <2>2. a \in {"ok", "error", "expired"}
    BY <1>5 DEF Answer, Answers
  <2>3. e \in Requests /\ e.kind = r.kind /\ e.vm = r.vm
    BY <2>2, OutstandingTypes DEF Requests
  <2>4. QED
    BY <1>5, <2>1, <2>3, ThenCalm DEF Answer, connectVars
<1>6. ASSUME NEW r \in Outstanding, GiveToken(r)
      PROVE  Calm /\ template' = template /\ client' \in {client, NoClient}
  <2> DEFINE e == [r EXCEPT !.answer = "ok", !.token = issued + 1]
  <2>1. issued + 1 \in Tokens
    BY <1>6, ClientAssumption
       DEF GiveToken, Signed, TypeOK, Tokens, ClientAssumption
  <2>2. e \in Requests /\ e.kind = r.kind /\ e.vm = r.vm
    BY <2>1, OutstandingTypes DEF Requests
  <2>3. QED
    BY <1>6, <2>2, ThenCalm DEF GiveToken, connectVars
<1>7. ASSUME NEW t \in valid, TokenExpires(t)
      PROVE  Calm /\ template' = template /\ client' \in {client, NoClient}
  BY <1>7, SameCalm DEF TokenExpires, connectVars
<1>8. QED
  BY <1>1, <1>2, <1>3, <1>4, <1>5, <1>6, <1>7 DEF Server

\* The steps of a connection hand the file on.
LEMMA ChainConnects ==
    ASSUME Signed, ChainInv, Patient,
           (\E v \in Vms : ConnectClick(v)) \/ RdpFileOk \/ RdpFileNotSaved
           \/ CommandOk \/ ClientReads \/ ClientEnds
    PROVE  ChainInv'
<1>0. /\ IsABag(replies) /\ OneAtATime(replies) /\ token \in Tokens
      /\ client \in [vm : Vms, file : Vms \cup {NoVm}] \cup {NoClient}
      /\ client.file \in {NoVm, client.vm}
  BY DEF Signed, TypeOK, ChainInv
<1>1. ASSUME NEW v \in Vms, ConnectClick(v)
      PROVE  ChainInv'
  <2> DEFINE e == Request("rdp", v, token)
  <2>1. /\ replies' = BagAdd(replies, e)
        /\ template' = template /\ client' = client
        /\ ~Starting /\ \A r \in BagToSet(replies) : ~Asks(r)
    BY <1>1
       DEF ConnectClick, Send, Connecting, Asks, Outstanding, connectVars
  <2>2. OneAtATime(replies)' /\ Outstanding' = Outstanding \cup {e}
    BY <1>0, <2>1, FirstJoins, Added DEF Outstanding
  <2>3. e.kind = "rdp" /\ ~Starting'
    BY <2>1 DEF Request, Starting
  <2>4. \A r \in Outstanding' :
           Asks(r) => ~Starting' /\ (r.kind = "command" => template' = r.vm)
    BY <2>1, <2>2, <2>3 DEF Outstanding
  <2>5. QED
    BY <1>0, <2>1, <2>2, <2>3, <2>4 DEF ChainInv
<1>2. CASE RdpFileOk
  <2>1. PICK r \in Outstanding :
           /\ r.kind = "rdp"
           /\ Then(r, Request("command", r.vm, token))
           /\ template' = r.vm /\ client' = client
    BY <1>2 DEF RdpFileOk
  <2> DEFINE e == Request("command", r.vm, token)
             B == BagRemove(replies, r)
  <2>2. Asks(r) /\ ~Starting /\ r \in BagToSet(replies)
    BY <2>1 DEF Asks, ChainInv, Outstanding
  <2>3. IsABag(B) /\ \A s \in BagToSet(B) : ~Asks(s)
    BY <1>0, <2>2, Removed, LastLeaves
  <2>4. OneAtATime(replies)' /\ Outstanding' = BagToSet(B) \cup {e}
    BY <2>1, <2>3, FirstJoins, Added DEF Then, Outstanding
  <2>5. e.vm = r.vm /\ ~Starting'
    BY <2>1, <2>2 DEF Request, Starting
  <2>6. \A s \in Outstanding' :
           Asks(s) => ~Starting' /\ (s.kind = "command" => template' = s.vm)
    BY <2>1, <2>3, <2>4, <2>5
  <2>7. QED
    BY <1>0, <2>1, <2>4, <2>5, <2>6 DEF ChainInv
<1>3. CASE RdpFileNotSaved \/ CommandOk
  <2>1. PICK r \in Outstanding :
           /\ Asks(r) /\ Done(r)
           /\ \/ client' = client
              \/ /\ r.kind = "command" /\ template' = template
                 /\ client' \in {[vm |-> r.vm, file |-> NoVm], NoClient}
    BY <1>3 DEF RdpFileNotSaved, CommandOk, Asks
  <2>2. OneAtATime(replies)' /\ \A s \in Outstanding' : ~Asks(s)
    BY <1>0, <2>1, AnyLeaves, LastLeaves DEF Done, Outstanding
  <2>3. ~Starting /\ (r.kind = "command" => template = r.vm)
    BY <2>1 DEF ChainInv
  <2>4. (Starting => template = client.vm)'
    BY <2>1, <2>3 DEF Starting
  <2>5. (client.file \in {NoVm, client.vm})'
    BY <1>0, <2>1 DEF NoClient
  <2>6. QED
    BY <2>2, <2>4, <2>5 DEF ChainInv
<1>4. CASE ClientReads
  <2>1. /\ Starting /\ template = client.vm
        /\ template' = template /\ replies' = replies
    BY <1>4 DEF ClientReads, ChainInv
  <2>2. OneAtATime(replies)' /\ \A s \in Outstanding' : ~Asks(s)
    BY <2>1 DEF ChainInv, Outstanding
  <2>3. client' = NoClient \/ (client'.vm = client.vm /\ client'.file = client.vm
                               /\ client.vm # NoVm)
    BY <1>0, <1>4, <2>1 DEF ClientReads, Starting
  <2>4. ~Starting' /\ (client.file \in {NoVm, client.vm})'
    BY <2>3 DEF Starting, NoClient
  <2>5. QED
    BY <2>2, <2>4 DEF ChainInv
<1>5. CASE ClientEnds
  BY <1>5, SameCalm, CalmKeeps DEF ClientEnds
<1>6. QED
  BY <1>1, <1>2, <1>3, <1>4, <1>5

\* Every step keeps the chain.
LEMMA ChainStep == Chain /\ [Next]_vars => Chain'
<1> SUFFICES ASSUME Signed, ChainInv, Patient, [Next]_vars
             PROVE  ChainInv'
  BY SignedStep DEF Chain
<1>1. CASE UNCHANGED vars
  <2>1. replies' = replies /\ template' = template /\ client' = client
    BY <1>1 DEF vars, connectVars
  <2>2. QED
    BY <2>1, SameCalm, CalmKeeps
<1>2. ASSUME NEW k \in {"list", "rdp", "command", "password", "heartbeat"}
      PROVE  k \in Kinds
  BY DEF Kinds
<1>3. CASE Replied
  BY <1>2, <1>3, CalmWindow, CalmRest, CalmKeeps, ChainConnects DEF Replied
<1>4. CASE User
  BY <1>4, CalmWindow, CalmRest, CalmKeeps, ChainConnects DEF User
<1>5. CASE AutoLogin \/ Heartbeat \/ Server \/ ClientReads \/ ClientEnds
  BY <1>5, CalmWindow, CalmRest, CalmKeeps, ChainConnects
<1>6. QED
  BY <1>1, <1>3, <1>4, <1>5 DEF Next

\* Nothing is asked for, and no client runs, to begin with.
LEMMA ChainStart == Init => Chain
<1> SUFFICES ASSUME Init
             PROVE  ChainInv
  BY SignedInit DEF Chain
<1>1. BagToSet(replies) = {}
  BY DEF Init, EmptyBag, SetToBag, BagToSet
<1>2. QED
  BY <1>1 DEF Init, ChainInv, OneAtATime, Outstanding, Starting, NoClient

\* A user who waits for one connection before he asks for the next is given the
\* machine he asked for, through whatever fails, expires or comes late.
THEOREM FileIsRight == Spec => []RightMachine
<1>1. Chain => RightMachine
  BY DEF Chain, ChainInv, RightMachine
<1>2. QED
  BY ChainStart, ChainStep, <1>1, PTL DEF Spec
=============================================================================
