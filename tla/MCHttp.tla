------------------------------- MODULE MCHttp -------------------------------
(***************************************************************************)
(* Small instances of HttpMessage.                                         *)
(***************************************************************************)
EXTENDS HttpMessage

\* Two names that begin alike, one of another case.
MCHeaderNames == {<<72>>, <<104, 111>>, <<104>>}

\* Without a value, and with one that has a space in it.
MCHeaderValues == {NULL, <<118, 32, 120>>}

MCHttpBodies == {<<>>, <<98>>, <<99>>}

MCLetters == {<<98>>, <<99>>}

=============================================================================
