----------------------------- MODULE MCScraper -----------------------------
(* Instances of Scraper for TLC.                                           *)
EXTENDS Scraper
=============================================================================
