-------------------------- MODULE MCConnectionRender --------------------------
(* Small inputs of ConnectionRender for TLC: one or two extra Scratch and   *)
(* WireScope pairs, two targets, plugins whose names differ by case.        *)
EXTENDS ConnectionRender, TLC

MCName == 1..12
MCFile == {1, 2, 3}
MCHost == [n \in MCName |-> n] @@ (14 :> 2)     \* 14: the name 2 in upper case
MCFold == (1 :> 1) @@ (2 :> 2) @@ (3 :> 1) @@ (4 :> 5) @@ (5 :> 5)

AnyRoutes == [homepage |-> 1, aliases |-> <<>>, scratch |-> 2, bridge |-> 3,
              minecraft |-> 4, wirescope |-> 5, pairs |-> None]
P6 == [scratch |-> 6, wirescope |-> 7]
P8 == [scratch |-> 8, wirescope |-> 9]
MCRouteFiles ==
  {[AnyRoutes EXCEPT !.aliases = a, !.pairs = p] :
     a \in {<<>>, <<10, 11>>, <<11, 10>>},
     p \in {None, <<>>, <<P6>>, <<P6, P8>>, <<P8, P6>>}}
  \cup {[AnyRoutes EXCEPT !.pairs = <<P6>>, !.homepage = 7],
        [AnyRoutes EXCEPT !.pairs = <<P6>>, !.minecraft = 0],
        [AnyRoutes EXCEPT !.pairs = <<[P6 EXCEPT !.wirescope = 5]>>]}

T4 == [id |-> 1, sandbox |-> 4]
T12 == [id |-> 2, sandbox |-> 12]
S(n, ids, d) == [scratch |-> n, ids |-> ids, default |-> d]
MCSelections == {None, <<S(2, <<1>>, 1)>>, <<S(2, <<2, 1>>, 1)>>,
                 <<S(2, <<1>>, 1), S(6, <<2>>, 2)>>, <<S(6, <<2>>, 2), S(2, <<1>>, 1)>>,
                 <<S(2, <<1>>, 2)>>}
AnyConnections == [targets |-> <<T4>>, selections |-> None, notices |-> <<"text">>]
MCConnectionFiles ==
  {[AnyConnections EXCEPT !.targets = t, !.selections = s] :
     t \in {<<T4>>, <<T4, T12>>, <<T12, T4>>, <<T12>>}, s \in MCSelections}
  \cup {[AnyConnections EXCEPT !.notices = n] : n \in {<<>>, <<"half">>, <<"link", "text">>}}

Plugin(f, d) == [file |-> f, digest |-> d]
MCPluginFiles == {<<Plugin(1, 1)>>, <<Plugin(1, 1), Plugin(2, 2)>>, <<Plugin(2, 2), Plugin(1, 1)>>,
                  <<Plugin(1, 1), Plugin(3, 2)>>, <<Plugin(4, 1)>>, <<Plugin(1, 3)>>}

AllRoles == SetToSeq(RequiredRoles)
AllVolumes == SetToSeq(VolumeRoles)
MCRoleLists == {AllRoles, Reverse(AllRoles), Tail(AllRoles), <<AllRoles[2]>> \o AllRoles}
MCVolumeLists == {AllVolumes, Reverse(AllVolumes), Tail(AllVolumes)}

MCLanFiles == {[hostname |-> 1, scratchPort |-> 8601, bridgePort |-> 14711],
               [hostname |-> 1, scratchPort |-> 8601, bridgePort |-> 8601],
               [hostname |-> 1, scratchPort |-> 0, bridgePort |-> 14711],
               [hostname |-> 1, scratchPort |-> 443, bridgePort |-> 14711],
               [hostname |-> 2, scratchPort |-> 1, bridgePort |-> 65535]}

Target(i, n, d) == [id |-> i, sandbox |-> n, default |-> d]
AnyOrder == [scratch |-> <<2, 0>>, bridge |-> <<3, 0>>, wirescope |-> None,
             targets |-> <<Target(1, 4, TRUE)>>, notices |-> <<>>]
MCInterfaceOrders ==
  {[AnyOrder EXCEPT !.targets = t, !.notices = n] :
     t \in {<<Target(1, 4, TRUE)>>, <<Target(1, 4, TRUE), Target(2, 12, FALSE)>>,
            <<Target(2, 12, FALSE), Target(1, 4, TRUE)>>, <<Target(1, 4, FALSE)>>,
            <<Target(1, 4, TRUE), Target(2, 12, TRUE)>>,
            <<Target(1, 4, TRUE), Target(2, 4, FALSE)>>},
     n \in {<<>>, <<"link">>, <<"half">>, <<"text", "text">>}}
  \cup {[AnyOrder EXCEPT !.scratch = u] : u \in {<<2, 443>>, <<14, 0>>, <<2, 8601>>}}

MCStart ==
  {[family |-> "public", revision |-> v, roles |-> AllRoles,
    volumes |-> AllVolumes, heap |-> TRUE,
    routes |-> [AnyRoutes EXCEPT !.pairs = IF v = 16 THEN None ELSE <<P6>>],
    connections |-> [AnyConnections EXCEPT
                       !.targets = <<T4, T12>>,
                       !.selections = IF v = 20 THEN <<S(2, <<1>>, 1), S(6, <<2>>, 2)>> ELSE None],
    plugins |-> <<Plugin(1, 1)>>] : v \in {16, 18, 20}}
  \cup {[family |-> "home", lan |-> l] : l \in MCLanFiles}
  \cup {[family |-> "interface", order |-> o] : o \in MCInterfaceOrders}
=============================================================================
