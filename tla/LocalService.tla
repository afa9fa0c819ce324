---------------------------- MODULE LocalService ----------------------------
(***************************************************************************)
(* The local developer service (src/src-tauri/src/local_service/mod.rs):   *)
(* one session at most, replaced by every handshake, and the requests that *)
(* name it.  Every request is answered in one step, under one mutex.       *)
(*                                                                         *)
(* A session is named by a number; naming the active one stands for also   *)
(* carrying its token, which the service issues together with the id.      *)
(***************************************************************************)
EXTENDS Naturals

NoSession == [id |-> 0, attached |-> FALSE]

Services == [id: Nat, attached: BOOLEAN]

(* What an answer says.  "ok" carries the session it is about and whether  *)
(* that one is attached; "lost" is SESSION_STALE or AUTH_INVALID;          *)
(* "refused" is any other error code.                                      *)
Answer(is, id, attached) == [is |-> is, id |-> id, attached |-> attached]

Unanswered == Answer("none", 0, FALSE)
Lost       == Answer("lost", 0, FALSE)
Refused    == Answer("refused", 0, FALSE)
Good(s)    == Answer("ok", s.id, s.attached)

Authenticated(s, sid) == sid # 0 /\ s.id = sid

Attach(s) ==
  IF s.attached THEN [service |-> s, answer |-> Refused]
  ELSE LET held == [s EXCEPT !.attached = TRUE] IN [service |-> held, answer |-> Good(held)]

Detach(s) ==
  LET free == [s EXCEPT !.attached = FALSE] IN [service |-> free, answer |-> Good(free)]

Handshake(fresh) ==
  LET opened == [id |-> fresh, attached |-> FALSE] IN [service |-> opened, answer |-> Good(opened)]

\* handle(): the state after a request, and its answer.
Handle(s, op, sid, fresh) ==
  CASE op = "handshake"        -> Handshake(fresh)
    [] ~Authenticated(s, sid) /\ op # "handshake" -> [service |-> s, answer |-> Lost]
    [] OTHER ->
         CASE op = "health"   -> [service |-> s, answer |-> Good(s)]
           [] op = "attach"   -> Attach(s)
           [] op = "detach"   -> Detach(s)
           [] op = "shutdown" -> [service |-> NoSession, answer |-> Good(s)]
=============================================================================
