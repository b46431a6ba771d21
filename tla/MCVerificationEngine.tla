------------------------ MODULE MCVerificationEngine ------------------------
(***************************************************************************)
(* A small repository for VerificationEngine: four commits, two refs and   *)
(* policies that differ in what the boundary selection looks at.           *)
(***************************************************************************)
EXTENDS VerificationEngine, TLC

CONSTANTS c1, c2, c3, c4, Garbled

Table(mode, preference, image, network, allowNative) ==
  [mode |-> mode, preference |-> preference, image |-> image,
   network |-> network, allowNative |-> allowNative]

Raw(table, commands, failOnReview, requireClean) ==
  [execution |-> table, commands |-> commands,
   failOnReview |-> failOnReview, requireClean |-> requireClean]

Reproduction == [runOn |-> "both", expected |-> "base_nonzero_head_zero", required |-> TRUE]
Suite        == [runOn |-> "head", expected |-> "zero", required |-> FALSE]
Broken       == [runOn |-> "head", expected |-> "base_nonzero_head_zero", required |-> TRUE]

\* A reproduction and a suite in a pinned container.
Contained == Raw(Table("auto", "auto", "pinned", FALSE, FALSE),
                 <<Reproduction, Suite>>, FALSE, FALSE)
\* The same patch judged natively when no container is there.
Weak == Raw(Table("auto", "docker", "none", FALSE, TRUE), <<Reproduction>>, TRUE, TRUE)
\* No commands at all.
Quiet == Raw(Table("container", "podman", "pinned", TRUE, FALSE), <<>>, FALSE, FALSE)
\* Rejected while loading: the reproduction does not run on both sides.
Invalid == Raw(Table("auto", "auto", "mutable", FALSE, FALSE), <<Broken>>, FALSE, FALSE)

MCPolicies == {Contained, Weak, Quiet, Invalid}

\* The candidate of c4 breaks the policy file.
MCConfigAt == (c1 :> Contained) @@ (c2 :> Weak) @@ (c3 :> Contained) @@ (c4 :> Garbled)

MCReconciled == {<<c1, c1>>, <<c1, c2>>, <<c1, c3>>, <<c2, c1>>, <<c3, c1>>, <<c1, c4>>}

MCRuleFindings ==
  [pair \in Commits \X Commits |->
     IF pair = <<c1, c3>> THEN {"allow"} ELSE IF pair = <<c3, c1>> THEN {"review"} ELSE {}]

NoOverride == [mode |-> "unset", preference |-> "unset", image |-> "unset",
               network |-> "unset", allowNative |-> "unset"]

Ask(source, relative, failOnReview, overrides) ==
  [base |-> "main", head |-> "patch", source |-> source, relative |-> relative,
   failOnReview |-> failOnReview, overrides |-> overrides]

MCRequests ==
  {Ask("base", TRUE, "unset", NoOverride),
   Ask("head", TRUE, "on", NoOverride),
   Ask("base", FALSE, "unset", NoOverride),
   Ask("working-tree", FALSE, "off", NoOverride),
   Ask("working-tree", TRUE, "unset", NoOverride),
   Ask("base", TRUE, "off", [NoOverride EXCEPT !.allowNative = "on", !.network = "on"]),
   Ask("base", TRUE, "unset", [NoOverride EXCEPT !.mode = "container", !.allowNative = "on"]),
   Ask("base", TRUE, "unset", [NoOverride EXCEPT !.mode = "native", !.allowNative = "off"]),
   Ask("base", TRUE, "unset", [NoOverride EXCEPT !.mode = "static"]),
   Ask("base", TRUE, "unset", [NoOverride EXCEPT !.image = "mutable"])}

MCWorktrees ==
  {[config |-> Weak, clean |-> TRUE], [config |-> Weak, clean |-> FALSE]}

MCEndings == {<<"zero", FALSE>>, <<"nonzero", FALSE>>, <<"none", FALSE>>, <<"zero", TRUE>>}

MCHosts ==
  {[linux |-> TRUE, found |-> [r \in Runtimes |-> "usable"]],
   [linux |-> TRUE, found |-> [r \in Runtimes |-> "absent"]],
   [linux |-> TRUE, found |-> [r \in Runtimes |-> IF r = "docker" THEN "inRepository"
                                                  ELSE "usable"]],
   [linux |-> FALSE, found |-> [r \in Runtimes |-> "unusable"]]}
=============================================================================
