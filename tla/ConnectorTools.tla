--------------------------- MODULE ConnectorTools ---------------------------
(***************************************************************************)
(* The tools of the connectors (src/asibot/connectors): for each the       *)
(* service whose preferences govern it, the level it asks for, and the     *)
(* steps of its body in their order.  ToolCalls gives the steps their      *)
(* meaning.  Parameters, URLs and the formatting of answers are left out;  *)
(* clamping a limit is no step, for it cannot end a call.                  *)
(*                                                                         *)
(*   check    arguments, or what was read so far, are judged, and the call *)
(*            may be answered at once                                      *)
(*   service  require_service: permission, credentials and a client        *)
(*   graph    require_graph_client: permission, Microsoft token and client *)
(*   creds    the credentials are read again for an optional field         *)
(*   api      they are read again for the subdomain of the base URL        *)
(*   token    they are read again for an OAuth token, which is fetched     *)
(*   site     the id of the SharePoint site is looked up                   *)
(*   get      a request that changes nothing; its error is the answer      *)
(*   tryget   one whose error is passed over                               *)
(*   each     one like that for every item of a listing                    *)
(*   pages    a listing, page by page (see Pagination)                     *)
(*   fetch    a request made without safe_request                          *)
(*   direct   one made by a method that PooledClient does not have         *)
(*   change   a request that changes the service; its error is the answer  *)
(***************************************************************************)

Reads(service, steps) == [service |-> service, level |-> "read", steps |-> steps]
Changes(service, steps) == [service |-> service, level |-> "write", steps |-> steps]
=============================================================================
