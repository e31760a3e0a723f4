------------------------------ MODULE MCContent ------------------------------
(***************************************************************************)
(* What is in the wiki and whose it is: sources, concept identities and    *)
(* projects, in one model for TLC.  They share no variable, so every       *)
(* property is about the steps of one: the first state fixes which one     *)
(* moves, the others stay in an initial state, and the state graph is the  *)
(* union of the components' own.                                           *)
(***************************************************************************)
EXTENDS MCSources, ConceptIdentity, ProjectAdmin

VARIABLE part    \* the component that moves

contentVars == <<sourceVars, identityVars, adminVars, part>>

(* The configuration uses the same two pairs of model values for the sets   *)
(* of all components, so two permutations generate their symmetries.        *)
ContentSymmetry == Permutations(Clients) \cup Permutations(Texts)

(* The marker of <<"u">> with key <<"a", "k">> and the one of <<"u", "a">>  *)
(* with key <<"k">> are the same document.                                  *)
TheIdParts == {"u", "a", "k", "p1", "p2", "p3", "label"}
TheOwners == {<<"u">>, <<"u", "a">>}
TheLegacyProject == <<"p3">>
TheLabel == <<"label">>
TheProjects == {<<"p1">>, <<"p2">>}
TheKeys == {<<"k">>, <<"a", "k">>}
TheInits == {<<<<"u">>, <<"a", "k">>>>, <<<<"u", "a">>, <<"k">>>>}
TheLegacy == {<<"u", "a", "p3">>, <<"u", "label">>}
FirstDocs == CHOOSE d \in LegacyDocs : TRUE

ContentInit ==
    /\ part \in {"sources", "identity", "admin"}
    /\ SourceInit
    /\ IdentityInit /\ (part = "identity" \/ idmap = EmptyIDMap)
    /\ AdminInit /\ (part = "admin" \/ docs = FirstDocs)

(* Everything but the variables of one component stays.                     *)
Others(p) ==
    /\ part = p /\ UNCHANGED part
    /\ p # "sources" => UNCHANGED sourceVars
    /\ p # "identity" => UNCHANGED identityVars
    /\ p # "admin" => UNCHANGED adminVars

ContentNext ==
    \/ Others("sources") /\ SourceNext
    \/ Others("identity") /\ IdentityNext
    \/ Others("admin") /\ AdminNext

ContentSpec == ContentInit /\ [][ContentNext]_contentVars
==============================================================================
