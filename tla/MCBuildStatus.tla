--------------------------- MODULE MCBuildStatus ----------------------------
(* Small instances of BuildStatus for TLC. *)
EXTENDS BuildStatus

\* x86_64 is another spelling of amd64.
MCCanonical ==
    [s \in {"amd64", "x86_64", "aarch64", "any"} |->
        IF s = "x86_64" THEN "amd64" ELSE s]
MCArchRank ==
    [a \in {Canonical[s] : s \in Spellings} |->
        CASE a = "aarch64" -> 1 [] a = "amd64" -> 2 [] a = "any" -> 3]

\* Recipes and manifests write a plain channel or qualify it by its origin: the
\* first matches either of the others, which do not match each other.
Plain == <<"system">>
MCChannels == {Plain, <<"core", "system">>, <<"extra", "system">>}
MCChannelRank ==
    [c \in Channels |->
        CASE c[1] = "core" -> 1 [] c[1] = "extra" -> 2 [] c = Plain -> 3]

\* 0:2-1, a newer release, and a newer epoch of a smaller version.
MCVersions == {<<0, 2, 1>>, <<0, 2, 2>>, <<1, 1, 1>>}

\* Another slot in the plain channel only, the other spelling for the most
\* ordinary coordinate only.
Usual(m) == m.channel = Plain \/ m.slot = 0
MCUploads ==
    {m \in Manifests :
        Usual(m) /\ (m.arch = "x86_64" => m.channel = Plain /\ m.slot = 0)}

\* No recipe, any one, or two of a name that differ in architecture, channel or
\* version.
Paired ==
    {r \in Recipes : r.slot = 0 /\ r.channel[1] # "extra" /\ r.v # <<0, 2, 1>>}
MCSources ==
    {{}} \cup {{r} : r \in {q \in Recipes : Usual(q)}} \cup {{r, q} : r, q \in Paired}
=============================================================================
