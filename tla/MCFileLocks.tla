------------------------------ MODULE MCFileLocks ------------------------------
\* Two processes and two files, the first of which may have a second name.
EXTENDS FileLocks, TLC

CONSTANTS data, link, other, f, g, p1, p2

MCFileOf == data :> f @@ other :> g

LinkFileOf == data :> f @@ link :> f
MCMaxScopes == p1 :> 3 @@ p2 :> 2
MCTimeouts == {Forever, 1}
=============================================================================
