------------------------------- MODULE MCParts -------------------------------
(***************************************************************************)
(* Parts that share no state, for TLC: each behaviour is one of one part,  *)
(* with the others at rest.                                                *)
(***************************************************************************)
EXTENDS Credentials, Catalogue, RunList, RunPage, ListPage, JenkinsCrumb, TLC

CONSTANTS d1, d2, k1, k2, k3, p1, p2, s1, f1, f2, e1, e2

\* Two removals, of the first and of the second credential.
TwoRemovals == d1 :> k1 @@ d2 :> k2

\* Two projects that have had the same slug.
OneSlug == p1 :> s1 @@ p2 :> s1

\* A filter that lets every row through, and one that lets only e1 through.
TwoFilters == f1 :> {e1, e2} @@ f2 :> {e1}

VARIABLE part

vars == <<part, credentialVars, catalogueVars, listVars, runPageVars, listPageVars, crumbVars>>

Init ==
  /\ part \in {"credentials", "catalogue", "list", "run", "page", "crumb"}
  /\ CredentialsInit /\ CatalogueInit /\ RunListInit /\ RunPageInit /\ ListPageInit /\ CrumbInit
  /\ part # "list" => listed = {}
  /\ part # "page" => page = "repo" /\ entries = {}
  /\ part # "crumb" => protected

Next ==
  /\ UNCHANGED part
  /\ \/ part = "credentials" /\ CredentialsNext
     \/ part # "credentials" /\ UNCHANGED credentialVars
  /\ \/ part = "catalogue" /\ CatalogueNext
     \/ part # "catalogue" /\ UNCHANGED catalogueVars
  /\ \/ part = "list" /\ RunListNext
     \/ part # "list" /\ UNCHANGED listVars
  /\ \/ part = "run" /\ RunPageNext
     \/ part # "run" /\ UNCHANGED runPageVars
  /\ \/ part = "page" /\ ListPageNext
     \/ part # "page" /\ UNCHANGED listPageVars
  /\ \/ part = "crumb" /\ CrumbNext
     \/ part # "crumb" /\ UNCHANGED crumbVars

(***************************************************************************)
(* The browser goes on with its polls, and the API answers them.           *)
(***************************************************************************)
Spec == Init /\ [][Next]_vars /\ WF_vars(part = "run" /\ RunPageProgress /\ UNCHANGED
  <<part, credentialVars, catalogueVars, listVars, listPageVars, crumbVars>>)

\* The types of all parts.
TypeOK ==
  /\ CredentialsTypeOK /\ CatalogueTypeOK /\ RunListTypeOK
  /\ RunPageTypeOK /\ ListPageTypeOK /\ CrumbTypeOK
=============================================================================
