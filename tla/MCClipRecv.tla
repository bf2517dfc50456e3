----------------------------- MODULE MCClipRecv -----------------------------
EXTENDS ClipRecv

\* Three files, the first and the last of one name, in different folders; two
\* files, one of two chunks; a picture; a text that is offered as a picture too;
\* something the client knows no format of.
MixedOffers ==
    {[fmts |-> {"files"}, sizes |-> <<1, 0, 0>>],
     [fmts |-> {"files", "image"}, sizes |-> <<2, 1>>],
     [fmts |-> {"image"}, sizes |-> <<>>],
     [fmts |-> {"text", "image"}, sizes |-> <<>>],
     [fmts |-> {}, sizes |-> <<>>]}

FileOffers ==
    {[fmts |-> {"files"}, sizes |-> <<2>>],
     [fmts |-> {"files"}, sizes |-> <<1, 1>>],
     [fmts |-> {"text"}, sizes |-> <<>>]}

DistinctNames == <<"a", "b">>

SharedNames == <<"a", "b", "a">>
=============================================================================
