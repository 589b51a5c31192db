----------------------------- MODULE MCVKScript -----------------------------
(* Scripts over two methods: one answers a list of objects, one an error.  *)
EXTENDS VKScript

MCUsers == Call(<<"users", "get">>, <<>>)

MCSeeds == {Literal(Num(2)), Literal(Text(<<1, 2>>)), Literal(Text(<<Letter>>)), Name("id"), MCUsers, Project(MCUsers, "id"), Call(<<"fail">>, <<>>)}

MCOperands == {Literal(Num(2)), Name("id"), MCUsers}

(* The list has an object for each number in id, and one that has none.    *)
ApiOf(path, params) ==
    LET ids == IF "id" \in DOMAIN params THEN IntList(params["id"]) ELSE <<1, 3>>
    IN  IF path # <<"users", "get">> THEN NoMethod
        ELSE List([i \in DOMAIN ids |-> Object([id |-> Num(ids[i])])] \o <<Object(NoFields)>>)

MCPaths == {<<"users", "get">>, <<"fail">>}
=============================================================================
