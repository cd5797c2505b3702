------------------------------- MODULE Crawler -------------------------------
(***************************************************************************)
(* crawler/baike_crawler2.0: main.py with its manager, downloader, parser    *)
(* and printer.  One loop takes any page of the set new_url, fetches and      *)
(* parses it, and adds its links, up to five pages; then all of them are      *)
(* printed.  A page that cannot be fetched or parsed raises an exception      *)
(* nobody catches.                                                           *)
(***************************************************************************)
EXTENDS Integers, Sequences, FiniteSets

CONSTANTS
    Pages,      \* pages of the encyclopedia
    Root,       \* root_url
    MaxCount    \* the 5 of the loop

VARIABLES
    links,      \* the pages each page links to
    fate,       \* what happens with each page: "good", "nosummary" (no summary
                \* on it) or "bad" (no answer, not 200, or no title)
    new_url, old_url, count, datas,
    phase,      \* "crawl", "output", "done" or "raised"
    file        \* the pages whose row is in crawbaike.html

crawlVars == <<links, fate, new_url, old_url, count, datas, phase, file>>

CrawlInit ==
    /\ links \in [Pages -> SUBSET Pages]
    /\ fate \in [Pages -> {"good", "nosummary", "bad"}]
    /\ new_url = {Root}
    /\ old_url = {}
    /\ count = 0
    /\ datas = <<>>
    /\ phase = "crawl"
    /\ file = <<>>

-----------------------------------------------------------------------------

\* fault variant: add_url looks at new_url only
Crawl_Again ==
    /\ phase = "crawl" /\ new_url # {} /\ count < MaxCount
    /\ \E url \in new_url :
          /\ old_url' = old_url \union {url}
          /\ \/ /\ fate[url] = "bad"
                /\ phase' = "raised"
                /\ new_url' = new_url \ {url}
                /\ count' \in {count, count + 1}
                /\ UNCHANGED datas
             \/ /\ fate[url] # "bad"
                /\ new_url' = (new_url \ {url}) \union links[url]
                /\ count' = count + 1
                /\ datas' = Append(datas, url)
                /\ UNCHANGED phase
    /\ UNCHANGED <<links, fate, file>>

\* One turn of the loop; set.pop() may return any element.  urlopen raises before
\* count is increased, a page without content or title behind it.
Crawl ==
    /\ phase = "crawl" /\ new_url # {} /\ count < MaxCount
    /\ \E url \in new_url :
          /\ old_url' = old_url \union {url}
          /\ \/ /\ fate[url] = "bad"
                /\ phase' = "raised"
                /\ new_url' = new_url \ {url}
                /\ count' \in {count, count + 1}
                /\ UNCHANGED datas
             \/ /\ fate[url] # "bad"
                /\ new_url' = (new_url \ {url}) \union (links[url] \ old_url')
                /\ count' = count + 1
                /\ datas' = Append(datas, url)
                /\ UNCHANGED phase
    /\ UNCHANGED <<links, fate, file>>

Finish ==
    /\ phase = "crawl" /\ (new_url = {} \/ count >= MaxCount)
    /\ phase' = "output"
    /\ UNCHANGED <<links, fate, new_url, old_url, count, datas, file>>

\* output_html, row by row; a page without a summary has no 'summ', and the
\* exception ends the file in the middle of its row
Output ==
    /\ phase = "output"
    /\ LET n == Len(file) + 1 IN
       \/ /\ n > Len(datas)
          /\ phase' = "done"
          /\ UNCHANGED file
       \/ /\ n <= Len(datas) /\ fate[datas[n]] = "nosummary"
          /\ phase' = "raised"
          /\ UNCHANGED file
       \/ /\ n <= Len(datas) /\ fate[datas[n]] = "good"
          /\ file' = Append(file, datas[n])
          /\ UNCHANGED phase
    /\ UNCHANGED <<links, fate, new_url, old_url, count, datas>>

CrawlNext == Crawl \/ Finish \/ Output

-----------------------------------------------------------------------------
(* Properties *)

\* Types.
CrawlTypeOK ==
    /\ new_url \subseteq Pages /\ old_url \subseteq Pages
    /\ count \in 0..MaxCount
    /\ datas \in Seq(Pages) /\ file \in Seq(Pages)
    /\ phase \in {"crawl", "output", "done", "raised"}

\* Links lead in circles, but each page is fetched and printed once: what is still
\* to be fetched was not fetched before, and a file that is complete has a row for
\* every page that was, and was reached from the root over fetched pages.
EachPageOnce ==
    /\ new_url \intersect old_url = {}
    /\ phase # "raised" => count = Len(datas)
    /\ \A m, n \in 1..Len(datas) : datas[m] = datas[n] => m = n
    /\ \A m \in 2..Len(datas) : \E n \in 1..m - 1 : datas[m] \in links[datas[n]]
    /\ phase = "done" => file = datas
=============================================================================
