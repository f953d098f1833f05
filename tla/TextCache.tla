----------------------------- MODULE TextCache -----------------------------
(***************************************************************************)
(* The glyphs of klappt (app/textcache.cpp) and the batches of quads that  *)
(* draw them (app/sdlcr.h): every glyph is loaded once into one texture,   *)
(* packed on shelves, first into a staging buffer of which the rows that   *)
(* changed are copied before something is drawn from it.                   *)
(*                                                                         *)
(* A picture is a width and a height; a glyph of width 0 has none. Of the  *)
(* texture every row is known by the number of glyphs that were loaded     *)
(* when it was last copied.                                                *)
(***************************************************************************)
EXTENDS Naturals, Sequences, SequencesExt

CONSTANTS
  AtlasSize, ShelfMax, GlyphPoolMax, GlyphHashSize,
  FastAsciiMax, FastFontMax,
  MaxFonts,        \* the length of TextCache::fonts
  MaxQuads,        \* MAX_QUADS
  MaxVerts,        \* quads of one draw_string
  Picture,         \* [code, size] -> the picture SDL_ttf makes
  Text,            \* what is measured and drawn: [codes, size]
  Warm,            \* the sizes of prewarm, 0 where none is set
  FirstCode, LastCode, German, \* the glyphs of prewarm
  WarmCount        \* how many of them in a frame

ASSUME TextCacheAssumption ==
  /\ {AtlasSize, ShelfMax, GlyphPoolMax, MaxFonts, MaxQuads, MaxVerts, WarmCount} \subseteq Nat \ {0}
  /\ GlyphHashSize \in Nat /\ GlyphPoolMax = GlyphHashSize \div 2
  /\ MaxVerts <= MaxQuads
  /\ \A g \in DOMAIN Picture : /\ g \in Nat \X Nat
                              /\ Picture[g].w \in Nat /\ Picture[g].h \in Nat
  /\ \A t \in Text : /\ t.codes \in Seq(Range(t.codes))
                    /\ Range(t.codes) \X {t.size} \subseteq DOMAIN Picture
  /\ FirstCode \in Nat /\ LastCode \in Nat
  /\ German \in Seq(Range(German)) /\ German # <<>> /\ Warm \in Seq(Range(Warm))
  /\ ((FirstCode .. LastCode) \cup Range(German)) \X Range(Warm) \subseteq DOMAIN Picture

VARIABLES
  cache,   \* TextCache: fonts, pool, table, fast, shelves, currentY, dirty, texture
  batch,   \* g_v: how many quads wait, and the glyphs they show
  drawn,   \* the glyphs of the geometry that the last step issued
  warm     \* the static cursors of prewarm; at is past the last size in the end

textVars == <<cache, batch, drawn, warm>>

NoQuads == [n |-> 0, glyphs |-> {}]
Clean == [low |-> AtlasSize, high |-> 0, on |-> FALSE]

\* The texture starts as a copy of the empty staging buffer.
TextInit ==
  /\ cache = [fonts |-> {}, pool |-> <<>>, table |-> [s \in 0 .. GlyphHashSize - 1 |-> 0], fast |-> {},
              shelves |-> <<>>, currentY |-> 0, dirty |-> Clean,
              texture |-> [y \in 0 .. AtlasSize - 1 |-> 0]]
  /\ batch = NoQuads /\ drawn = {}
  /\ warm = [at |-> 1, code |-> FirstCode + 1, german |-> 1]

-----------------------------------------------------------------------------
(* The atlas *)

\* A picture gets a border of one pixel on each side. The first shelf that is
\* high enough and has room takes it, or else a new shelf; <<>> if there is none.
OnShelf(c, w, h) ==
  SelectInSeq(c.shelves, LAMBDA s : h + 2 <= s.h /\ s.x + w + 2 <= AtlasSize)

TakenOn(c, s, width) ==
  [x |-> c.shelves[s].x + 1, y |-> c.shelves[s].y + 1,
   cache |-> [c EXCEPT !.shelves[s].x = @ + width]]
TakenBelow(c, h, width) ==
  [x |-> 1, y |-> c.currentY + 1,
   cache |-> [c EXCEPT !.shelves = Append(@, [y |-> c.currentY, h |-> h + 2, x |-> width]),
                       !.currentY = @ + h + 2]]

\* The next glyph of a shelf starts inside the border of this one.
AllocTight(c, w, h) ==
  LET s == OnShelf(c, w, h)
  IN  IF s > 0 THEN <<TakenOn(c, s, w)>> ELSE <<TakenBelow(c, h, w)>>

Placed(c, w, h, s) ==
  IF w + 2 > AtlasSize \/ h + 2 > AtlasSize THEN <<>>
  ELSE IF s > 0 THEN <<TakenOn(c, s, w + 2)>>
  ELSE IF Len(c.shelves) < ShelfMax /\ c.currentY + h + 2 <= AtlasSize
       THEN <<TakenBelow(c, h, w + 2)>>
  ELSE <<>>
AtlasAlloc(c, w, h) == Placed(c, w, h, OnShelf(c, w, h))

\* Forgets that rows below may be waiting already.
MarkLast(d, y, h) == [low |-> IF y < d.low THEN y ELSE d.low, high |-> y + h, on |-> TRUE]

MarkDirty(d, y, h) ==
  [low |-> IF y < d.low THEN y ELSE d.low, high |-> IF y + h > d.high THEN y + h ELSE d.high, on |-> TRUE]

AtlasFlush(c) ==
  IF ~c.dirty.on THEN c
  ELSE [c EXCEPT !.dirty = Clean,
                 !.texture = [y \in DOMAIN @ |->
                   IF c.dirty.low <= y /\ y < c.dirty.high THEN Len(c.pool) ELSE @[y]]]

-----------------------------------------------------------------------------
(* Fonts and glyphs *)

\* A size of a font is a copy that stays. The program ends when there is no
\* room for one more.
FontsSuffice(c, size) == size \in c.fonts \/ Cardinality(c.fonts) < MaxFonts

HashOf(key) == (key.code + key.size) % GlyphHashSize

\* Linear probing: the slots from the glyph's own one up to the first that is free.
Probed(c, key) ==
  LET slot(i) == (HashOf(key) + i) % GlyphHashSize
      i == CHOOSE i \in 0 .. GlyphHashSize - 1 :
             /\ c.table[slot(i)] = 0
             /\ \A j \in 0 .. i - 1 : c.table[slot(j)] # 0
  IN [j \in 1 .. i + 1 |-> slot(j - 1)]

IsFast(key) == key.code < FastAsciiMax /\ key.size < FastFontMax

\* The glyph's place in the pool, 0 if it is not loaded.
Lookup(c, key) ==
  IF IsFast(key)
  THEN IF key \in c.fast THEN CHOOSE i \in DOMAIN c.pool : c.pool[i].key = key ELSE 0
  ELSE LET s == SelectInSeq(Probed(c, key), LAMBDA t : c.table[t] # 0 /\ c.pool[c.table[t]].key = key)
       IN IF s = 0 THEN 0 ELSE c.table[Probed(c, key)[s]]

\* A full pool takes no more glyphs. One that finds no room in the atlas is
\* kept without a picture; its advance counts all the same.
LoadInto(c, key, p, room) ==
  LET from == IF room = <<>> THEN c
              ELSE [room[1].cache EXCEPT !.dirty = MarkDirty(@, room[1].y, p.h)]
      glyph == IF room = <<>> THEN [key |-> key, w |-> 0, h |-> 0, x |-> 0, y |-> 0]
               ELSE [key |-> key, w |-> p.w, h |-> p.h, x |-> room[1].x, y |-> room[1].y]
  IN IF Len(c.pool) + 1 >= GlyphPoolMax THEN c
     ELSE [from EXCEPT !.fonts = @ \cup {key.size},
                       !.pool = Append(@, glyph),
                       !.table[Last(Probed(c, key))] = Len(c.pool) + 1,
                       !.fast = IF IsFast(key) THEN @ \cup {key} ELSE @]
LoadGlyph(c, key) ==
  LET p == Picture[<<key.code, key.size>>]
  IN  LoadInto(c, key, p, IF p.w > 0 /\ p.h > 0 THEN AtlasAlloc(c, p.w, p.h) ELSE <<>>)

GetGlyph(c, key) == IF Lookup(c, key) # 0 THEN c ELSE LoadGlyph(c, key)

Keys(t) == [i \in DOMAIN t.codes |-> [code |-> t.codes[i], size |-> t.size]]

-----------------------------------------------------------------------------
(* Measuring and drawing *)

MeasureText(t) ==
  /\ FontsSuffice(cache, t.size)
  /\ cache' = FoldLeft(GetGlyph, cache, Keys(t))
  /\ drawn' = {}
  /\ UNCHANGED <<batch, warm>>

\* What draws carries the cache, the waiting quads and what it issues.
Here == [cache |-> cache, batch |-> batch, drawn |-> {}]

FlushText(s) ==
  IF s.batch.n = 0 THEN s
  ELSE [cache |-> AtlasFlush(s.cache), batch |-> NoQuads, drawn |-> s.drawn \cup s.batch.glyphs]

EmitGlyphQuad(s, i) ==
  LET f == IF s.batch.n = MaxQuads THEN FlushText(s) ELSE s
  IN [f EXCEPT !.batch = [n |-> @.n + 1, glyphs |-> @.glyphs \cup {i}]]

\* One glyph of a text: loaded if need be, and drawn if it has a picture.
DrawLoaded(s, i) ==
  IF i = 0 \/ s.cache.pool[i].w = 0 THEN s ELSE EmitGlyphQuad(s, i)
DrawFrom(s, key) == DrawLoaded(s, Lookup(s.cache, key))
DrawGlyph(s, key) == DrawFrom([s EXCEPT !.cache = GetGlyph(@, key)], key)

Becomes(s) == cache' = s.cache /\ batch' = s.batch /\ drawn' = s.drawn

\* CLAY_RENDER_COMMAND_TYPE_TEXT
DrawTextClay(t) ==
  /\ FontsSuffice(cache, t.size)
  /\ Becomes(FoldLeft(DrawGlyph, Here, Keys(t)))
  /\ UNCHANGED warm

\* A rectangle, a scissor and the end of the commands issue what waits; a
\* border and an image do not.
RenderRectangle == Becomes(FlushText(Here)) /\ UNCHANGED warm

\* The islands draw with a buffer of their own that is issued when it is full
\* and in the end.
DrawQuad(s, key) ==
  LET n == DrawGlyph(s, key) IN IF n.batch.n >= MaxVerts THEN FlushText(n) ELSE n
DrawString(t) ==
  LET last == FlushText(FoldLeft(DrawQuad, [Here EXCEPT !.batch = NoQuads], Keys(t)))
  IN /\ FontsSuffice(cache, t.size)
     /\ cache' = last.cache /\ drawn' = last.drawn
     /\ UNCHANGED <<batch, warm>>

-----------------------------------------------------------------------------
(* Warming up *)

\* The next glyph of prewarm, if any: the ASCII characters of a size, the
\* German ones, and the next size, which starts one character earlier.
NextWarm(p) ==
  CASE p.code < LastCode -> [p EXCEPT !.code = @ + 1]
    [] p.code = LastCode -> [p EXCEPT !.code = LastCode + 1, !.german = 1]
    [] p.code > LastCode /\ p.german < Len(German) -> [p EXCEPT !.german = @ + 1]
    [] OTHER -> [at |-> p.at + 1, code |-> FirstCode, german |-> 1]

WarmKey(p) ==
  [code |-> IF p.code <= LastCode THEN p.code ELSE German[p.german], size |-> Warm[p.at]]

WarmOne(s, i) ==
  IF s.warm.at > Len(Warm) THEN s
  ELSE [cache |-> GetGlyph(s.cache, WarmKey(s.warm)), warm |-> NextWarm(s.warm)]

\* run_font_warmup: as many glyphs as a frame has time for, and what is staged
\* is copied. Zero stands for a size that is not set.
WarmUp ==
  LET s == FoldLeft(WarmOne, [cache |-> cache, warm |-> warm], [i \in 1 .. WarmCount |-> i])
  IN /\ warm.at <= Len(Warm)
     /\ \A z \in Range(Warm) : FontsSuffice(cache, z)
     /\ cache' = AtlasFlush(s.cache) /\ warm' = s.warm
     /\ drawn' = {}
     /\ UNCHANGED batch

TextNext ==
  \/ \E t \in Text : MeasureText(t) \/ DrawTextClay(t) \/ DrawString(t)
  \/ RenderRectangle
  \/ WarmUp

TextSpec == TextInit /\ [][TextNext]_textVars

-----------------------------------------------------------------------------
(* Properties *)

Area(g) == (g.x - 1 .. g.x + g.w) \X (g.y - 1 .. g.y + g.h)

\* What atlas_alloc hands out lies in the atlas and, with its border, touches no
\* other glyph, and a glyph is loaded once: else a letter would be drawn with a
\* piece of another, or the pool fill with copies.
GlyphsApart ==
  \A i \in DOMAIN cache.pool :
    LET g == cache.pool[i] IN
    /\ g.w > 0 => g.x >= 1 /\ g.y >= 1 /\ g.x + g.w < AtlasSize /\ g.y + g.h < AtlasSize
    /\ \A j \in DOMAIN cache.pool \ {i} :
         LET o == cache.pool[j] IN
         g.key # o.key /\ (g.w > 0 /\ o.w > 0 => Area(g) \cap Area(o) = {})

\* When quads are issued (flush_text, draw_string), every row of every glyph
\* they show has been copied to the texture, whichever calls loaded it and
\* whatever was measured, drawn or warmed up between.
DrawnIsUploaded ==
  \A i \in drawn :
    LET g == cache.pool[i] IN \A y \in g.y .. g.y + g.h - 1 : cache.texture[y] >= i
=============================================================================
