------------------------------ MODULE MCDelivery ------------------------------
(* One critical alert and one that is not, a chat and a browser.              *)
EXTENDS Delivery

CONSTANTS critical, warning, chat, laptop
=============================================================================
