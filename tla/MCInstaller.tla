---- MODULE MCInstaller ----
EXTENDS Installer, TLC
MCVersion == {"v1", "v2"}
MCAccepts == {<<"v2", "v1">>}
MCFrameFile == [n \in 0 .. MaxInstalls |-> "package" \o ToString(n)]
====
