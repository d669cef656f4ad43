----------------------------- MODULE MCWeather -----------------------------
(* Responses whole, refused, or split behind the icon.         *)
EXTENDS Weather

MCSegments ==
  [ok : {TRUE}, content : Contents, keys : {Keys, <<"description", "icon">>}]
    \union [ok : {FALSE}, content : Contents, keys : {<<"temp">>}]
=============================================================================
