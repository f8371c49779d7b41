---------------------------- MODULE MCTokenLogos ----------------------------
(* Small instances of TokenLogos.                                          *)
EXTENDS TokenLogos

\* The first token may answer with a status that cannot be stored, the second is
\* busy or has an image, the third has one or has none.
SomeReplies ==
    <<{<<"not_found", "status_beyond_599">>, <<"not_found", "image">>},
      {<<"busy", "not_found">>, <<"timeout", "corrupt", "image">>},
      {<<>>, <<"image">>}>>
=============================================================================
