---------------------------- MODULE MCUpdateEngine ----------------------------
(***************************************************************************)
(* UpdateEngine for TLC: releases with one and with several artifacts, the *)
(* slips a publisher can make, and the configurations the agent may have.  *)
(***************************************************************************)
EXTENDS UpdateEngine

CONSTANTS v1, v2, c1, c2

Entry(v, c, p, f, n) ==
    [name |-> n, commit |-> c, platform |-> p, format |-> f, wellFormed |-> TRUE,
     sha256 |-> [version |-> v, commit |-> c, platform |-> p, format |-> f]]

M(v, c, install, artifacts) ==
    [ours |-> TRUE, version |-> v, commit |-> c, install |-> install, artifacts |-> artifacts]

DebOf(v, c) == Entry(v, c, "linux-amd64", "deb", "deb")
ZipOf(v, c) == Entry(v, c, "windows-x86_64", "zip", "zip")
Package(v, c) == M(v, c, "package", <<DebOf(v, c), ZipOf(v, c)>>)
Bundle(p) == Entry(v1, c1, p, "source-bundle", "deb")

Manifests ==
    {Package(v1, c1), Package(v1, c2), Package(v2, c1),
     M(v1, c1, "source-bundle", <<Bundle("linux-amd64"), Bundle("windows-x86_64")>>),
     M(v1, c1, "package", <<DebOf(v1, c1), DebOf(v1, c1)>>),
     M(v1, c1, "package", <<DebOf(v1, c2), ZipOf(v1, c2)>>),
     M(v1, c1, "package", <<[ZipOf(v1, c1) EXCEPT !.wellFormed = FALSE]>>),
     [Package(v1, c1) EXCEPT !.ours = FALSE]}

Declared(manager, dir, isSelf) ==
    [project |-> "p", service |-> "s", repository |-> "o/p", healthUrl |-> "u",
     appDir |-> dir, serviceManager |-> manager, isSelf |-> isSelf]

Config(declarations) == [port |-> 8794, bind |-> "127.0.0.1", targets |-> declarations]

\* What the example file declares.
OneConfig == {Config(<<Declared("", "", FALSE)>>)}

Configs ==
    {Config(<<Declared("scm", Own, FALSE)>>),
     Config(<<Declared("task", Own, FALSE)>>),
     Config(<<Declared("", "", TRUE)>>),
     Config(<<Declared("", "", FALSE), Declared("", "", FALSE)>>)}
=============================================================================
