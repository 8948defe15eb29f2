------------------------------- MODULE MCChat --------------------------------
(***************************************************************************)
(* Model-checking instances of Chat.  The requests are the ones that take  *)
(* different paths through chat_received, with parameters in both orders.  *)
(***************************************************************************)
EXTENDS Chat, TLC

(* Nothing tells two unused descriptors apart. *)
Symmetry == Permutations(Fd)

MCToken == {"t1", "t2"}

MCId == {"u1", "u2"}

Sub(tokens) == [name |-> "subscribe", tokens |-> tokens, id |-> ""]

IdPar(id) == [name |-> "id", tokens |-> {}, id |-> id]

Query(params) == [given |-> TRUE, params |-> params]

NoQuery == [given |-> FALSE, params |-> << >>]

Req(method, url, query, http11, keepalive) ==
  [method |-> method, url |-> url, query |-> query,
   http11 |-> http11, keepalive |-> keepalive]

Get(query) == Req("GET", "YES", query, TRUE, TRUE)

Accepted ==
  {Get(Query(<<Sub({"t1"})>>)),
   Get(Query(<<Sub({"t2"}), IdPar("u1")>>)),
   Get(Query(<<IdPar("u2"), Sub({"t1", "t2"})>>)),
   Get(Query(<<Sub({"*"}), IdPar("u1")>>)),
   Get(Query(<<Sub({})>>))}

Refused ==
  {Get(Query(<<IdPar("u1")>>)),
   Req("GET", "YES", Query(<<Sub({"t2"})>>), TRUE, FALSE),
   Req("GET", "YES", Query(<<Sub({"t2"})>>), FALSE, TRUE),
   Req("GET", "NO", NoQuery, TRUE, TRUE),
   Req("HEAD", "YES", NoQuery, TRUE, TRUE),
   Req("OPTIONS", "ALL", NoQuery, TRUE, TRUE),
   Req("UNSUPP", "YES", Query(<<Sub({"t2"})>>), TRUE, TRUE)}

(* Every GET for the configured URL has a query.                           *)
WithQuery == Accepted \union Refused

(* Some GETs have none.                                                    *)
AnyQuery == WithQuery \union {Get(NoQuery)}

MCMessages ==
  [tokens : {{"t1"}, {"t1", "t2"}}, all : {FALSE}, rejectId : {"", "u1", "u2"}]
    \union [tokens : {{}}, all : {TRUE}, rejectId : {"", "u1"}]
=============================================================================
