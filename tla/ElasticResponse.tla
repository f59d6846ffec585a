-------------------------- MODULE ElasticResponse --------------------------
(***************************************************************************)
(* What the client makes of an answer of Elasticsearch.  An answer is its  *)
(* status code, the kind of its body, the type of the error in it, and     *)
(* whether the digits 403 or 429 are anywhere in it.                       *)
(***************************************************************************)
EXTENDS Naturals

Codes == {200, 201, 400, 403, 404, 429, 503}
Bodies == {"json", "text", "unreadable"}
ErrorTypes == {"none", "resource_already_exists_exception", "invalid_alias_name_exception", "other"}
Answers == [code : Codes, body : Bodies, type : ErrorTypes, limited : BOOLEAN]

\* The request itself fails: connection refused, reset, or the answer is lost.
NoAnswer == [code |-> 0, body |-> "unreadable", type |-> "none", limited |-> FALSE]

Answer(code, type) ==
  [code |-> code, body |-> "json", type |-> type, limited |-> code \in {403, 429}]

errIsAlreadyExists(answer) == answer.type = "resource_already_exists_exception"
isErrAliasAlreadyExists(answer) == answer.type = "invalid_alias_name_exception"

\* Mutation: an object that is there already is an error.
HandlerWithoutCollisions(answer) ==
  CASE answer.body = "unreadable" -> "error"
    [] answer.body = "text" -> IF answer.limited THEN "ErrBackOff" ELSE "error"
    [] answer.code \in {200, 201} -> "ok"
    [] OTHER -> "error"

\* Only a body that is not JSON is searched for a reason to back off.
elasticDefaultErrorResponseHandler(answer) ==
  CASE answer.body = "unreadable" -> "error"
    [] answer.body = "text" -> IF answer.limited THEN "ErrBackOff" ELSE "error"
    [] answer.code > 299 /\ (errIsAlreadyExists(answer) \/ isErrAliasAlreadyExists(answer)) -> "ok"
    [] answer.code \in {200, 201} -> "ok"
    [] OTHER -> "error"

\* parseResponse with no destination, after the request's own error.
parseResponse(answer) ==
  CASE answer = NoAnswer -> "error"
    [] answer.code = 200 -> IF answer.body = "unreadable" THEN "ErrBackOff" ELSE "ok"
    [] OTHER -> elasticDefaultErrorResponseHandler(answer)

\* parseResponse with a destination: a 200 must be JSON.
parseResponseInto(answer) ==
  IF answer.code = 200 /\ answer.body # "json" THEN "ErrBackOff" ELSE parseResponse(answer)

\* Anything but a 200 is taken for "not there", failed requests included.
exists(answer) == answer.code = 200
=============================================================================
