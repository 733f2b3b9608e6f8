------------------------- MODULE MCQuotationService -------------------------
(***************************************************************************)
(* Instances of the quotation services with requests in flight.            *)
(***************************************************************************)
EXTENDS QuotationService, MCQuotationSerial
=============================================================================
