---------------------------- MODULE MCDeployment ----------------------------
(* Deployments of a few configurations to one cashbox, for TLC. *)
EXTENDS Deployment, TLC

CONSTANTS m1, m2, m3, n1, n2, c1, c2

\* m1 and m3 are versions of one file; m2 is the banner.  The first configuration has both
\* modes, the second replaces the file of the first and has no banner.
TwoNames == m1 :> n1 @@ m2 :> n2 @@ m3 :> n1

ThreeVersions == c1 :> [full |-> {m1}, split |-> {m2}]
              @@ c2 :> [full |-> {m3}, split |-> {}]

\* Both rows follow the schema, one does not, or one cannot be written at all; and a
\* cashbox that was set up anew, while its version is on record.
FirstOnes ==
  LET Row(full, split, version) ==
        [scene |-> [full |-> full, split |-> split], version |-> version] IN
  {Row(Ads({}), Ads({}), None), Row(Odd("alien"), Odd("garbage"), None),
   Row(Ads({}), Odd("absent"), None), Row(Odd("alien"), Ads({}), c2)}

\* The banner is there before anything else; the new version of the file comes second.
InOrder == (known # {} => m2 \in known) /\ (m3 \in known => m1 \in known)

TwoAlike == Permutations(Deployments)
=============================================================================
